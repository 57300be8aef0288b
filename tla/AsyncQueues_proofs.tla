------------------------- MODULE AsyncQueues_proofs -------------------------
(***************************************************************************)
(* The queues of one asynchronous connection, for any set of commands and  *)
(* topics: what keeps the callbacks that wait in step with the commands    *)
(* and the replies that are on their way, and that every operation of the  *)
(* library, and all that a program does in a callback, keeps them so.      *)
(***************************************************************************)
EXTENDS AsyncContext, TLAPS

------------------------------------------------------------------------------
(* What comes before what in a sequence: the proofs speak of queues by their
   elements and this relation, never by positions. *)
Before(s, x, y) == \E i, j \in DOMAIN s : i < j /\ s[i] = x /\ s[j] = y

(* A queue is its head, which comes before all the rest, and its tail. *)
LEMMA TailParts ==
  ASSUME NEW X, NEW s \in Seq(X), s # <<>>
  PROVE  /\ Tail(s) \in Seq(X) /\ Head(s) \in X
         /\ Range(s) = {Head(s)} \cup Range(Tail(s))
         /\ \A y \in Range(Tail(s)) : Before(s, Head(s), y)
         /\ \A x, y : Before(Tail(s), x, y) => Before(s, x, y)
<1>1. /\ Tail(s) \in Seq(X) /\ Head(s) \in X /\ Head(s) = s[1] /\ 1 \in DOMAIN s
      /\ \A i \in DOMAIN Tail(s) : i + 1 \in DOMAIN s /\ Tail(s)[i] = s[i + 1] /\ 1 < i + 1
      /\ \A i \in DOMAIN s : i = 1 \/ (i - 1 \in DOMAIN Tail(s) /\ Tail(s)[i - 1] = s[i])
      /\ \A i, j \in DOMAIN Tail(s) : i < j => i + 1 < j + 1
  OBVIOUS
<1>2. Range(s) = {s[i] : i \in DOMAIN s} /\ Range(Tail(s)) = {Tail(s)[i] : i \in DOMAIN Tail(s)}
  BY Zenon DEF Range
<1>3. Range(s) = {Head(s)} \cup Range(Tail(s))
  <2>1. ASSUME NEW x \in Range(s) PROVE x \in {Head(s)} \cup Range(Tail(s))
    <3>1. PICK i \in DOMAIN s : x = s[i]
      BY Zenon, <1>2, <2>1
    <3>2. QED
      BY Zenon, <1>1, <1>2, <3>1
  <2>2. ASSUME NEW x \in {Head(s)} \cup Range(Tail(s)) PROVE x \in Range(s)
    BY Zenon, <1>1, <1>2, <2>2
  <2>3. QED
    BY Zenon, <2>1, <2>2
<1>4. ASSUME NEW y \in Range(Tail(s)) PROVE Before(s, Head(s), y)
  <2>1. PICK i \in DOMAIN Tail(s) : y = Tail(s)[i]
    BY Zenon, <1>2, <1>4
  <2>2. QED
    BY Zenon, <1>1, <2>1 DEF Before
<1>5. ASSUME NEW x, NEW y, Before(Tail(s), x, y) PROVE Before(s, x, y)
  <2>1. PICK i, j \in DOMAIN Tail(s) : i < j /\ Tail(s)[i] = x /\ Tail(s)[j] = y
    BY Zenon, <1>5 DEF Before
  <2>2. QED
    BY Zenon, <1>1, <2>1 DEF Before
<1>6. QED
  BY Zenon, <1>1, <1>3, <1>4, <1>5

(* One queue after another: what is in it, and in which order. *)
LEMMA ConcatParts ==
  ASSUME NEW X, NEW s \in Seq(X), NEW t \in Seq(X)
  PROVE  /\ s \o t \in Seq(X)
         /\ Range(s \o t) = Range(s) \cup Range(t)
         /\ \A x, y : Before(s \o t, x, y) <=>
              Before(s, x, y) \/ Before(t, x, y) \/ (x \in Range(s) /\ y \in Range(t))
<1>1. /\ s \o t \in Seq(X)
      /\ \A i \in DOMAIN s : i \in DOMAIN (s \o t) /\ (s \o t)[i] = s[i]
      /\ \A i \in DOMAIN t : i + Len(s) \in DOMAIN (s \o t) /\ (s \o t)[i + Len(s)] = t[i]
      /\ \A i \in DOMAIN (s \o t) :
           \/ i \in DOMAIN s /\ (s \o t)[i] = s[i]
           \/ i - Len(s) \in DOMAIN t /\ (s \o t)[i] = t[i - Len(s)]
  OBVIOUS
<1>2. Range(s \o t) = Range(s) \cup Range(t)
  <2>1. ASSUME NEW x \in Range(s \o t) PROVE x \in Range(s) \cup Range(t)
    BY <1>1, <2>1 DEF Range
  <2>2. ASSUME NEW x \in Range(s) PROVE x \in Range(s \o t)
    BY <1>1, <2>2 DEF Range
  <2>3. ASSUME NEW x \in Range(t) PROVE x \in Range(s \o t)
    <3>1. PICK i \in DOMAIN t : x = t[i]
      BY Zenon, <2>3 DEF Range
    <3>2. QED
      BY Zenon, <1>1, <3>1 DEF Range
  <2>4. QED
    BY Zenon, <2>1, <2>2, <2>3
<1>3. ASSUME NEW x, NEW y, Before(s \o t, x, y)
      PROVE  Before(s, x, y) \/ Before(t, x, y) \/ (x \in Range(s) /\ y \in Range(t))
  <2>1. PICK i, j \in DOMAIN (s \o t) : i < j /\ (s \o t)[i] = x /\ (s \o t)[j] = y
    BY <1>3 DEF Before
  <2>2. CASE i \in DOMAIN s /\ j \in DOMAIN s
    BY <2>1, <2>2 DEF Before
  <2>3. CASE i \in DOMAIN s /\ j \notin DOMAIN s
    BY Zenon, <1>1, <2>1, <2>3 DEF Range
  <2>4. CASE i \notin DOMAIN s
    <3>1. i - Len(s) \in DOMAIN t /\ j - Len(s) \in DOMAIN t /\ i - Len(s) < j - Len(s)
      BY <2>1, <2>4
    <3>2. QED
      BY <1>1, <2>1, <2>4, <3>1 DEF Before
  <2>5. QED
    BY <2>2, <2>3, <2>4
<1>4. ASSUME NEW x, NEW y, Before(s, x, y) \/ Before(t, x, y) \/ (x \in Range(s) /\ y \in Range(t))
      PROVE  Before(s \o t, x, y)
  <2>1. CASE Before(s, x, y)
    BY <1>1, <2>1 DEF Before
  <2>2. CASE Before(t, x, y)
    <3>1. PICK i, j \in DOMAIN t : i < j /\ t[i] = x /\ t[j] = y
      BY <2>2 DEF Before
    <3>2. i + Len(s) < j + Len(s)
      BY <3>1
    <3>3. QED
      BY Zenon, <1>1, <3>1, <3>2 DEF Before
  <2>3. CASE x \in Range(s) /\ y \in Range(t)
    <3>1. PICK i \in DOMAIN s, j \in DOMAIN t : s[i] = x /\ t[j] = y
      BY <2>3 DEF Range
    <3>2. i < j + Len(s)
      BY <3>1
    <3>3. QED
      BY Zenon, <1>1, <3>1, <3>2 DEF Before
  <2>4. QED
    BY <1>4, <2>1, <2>2, <2>3
<1>5. QED
  BY <1>1, <1>2, <1>3, <1>4

(* An element added to a queue comes after all the others. *)
LEMMA AppendParts ==
  ASSUME NEW X, NEW s \in Seq(X), NEW e \in X
  PROVE  /\ Append(s, e) \in Seq(X)
         /\ Range(Append(s, e)) = Range(s) \cup {e}
         /\ \A x, y : Before(Append(s, e), x, y) <=> Before(s, x, y) \/ (x \in Range(s) /\ y \in {e})
<1>1. Append(s, e) = s \o <<e>> /\ <<e>> \in Seq(X)
  OBVIOUS
<1>2. Range(<<e>>) = {e} /\ \A x, y : ~Before(<<e>>, x, y)
  BY DEF Range, Before
<1>3. /\ s \o <<e>> \in Seq(X)
      /\ Range(s \o <<e>>) = Range(s) \cup Range(<<e>>)
      /\ \A x, y : Before(s \o <<e>>, x, y) <=>
           Before(s, x, y) \/ Before(<<e>>, x, y) \/ (x \in Range(s) /\ y \in Range(<<e>>))
  BY Zenon, <1>1, ConcatParts
<1>4. QED
  BY <1>1, <1>2, <1>3

(* Nothing is in the empty sequence. *)
LEMMA EmptyParts == Range(<<>>) = {} /\ \A x, y : ~Before(<<>>, x, y)
BY DEF Range, Before

------------------------------------------------------------------------------
(* The replies that a server of a program without monitor commands can send,
   after it was sent some of the commands I: answers, messages, and what comes
   with the end of a connection. *)
Regulars(I) == {c \in I : Kind[c] = "regular"}
Answered(I) == {Data(c) : c \in Regulars(I)} \cup {Error(c) : c \in Regulars(I)}
Messages == {Message(w, t, n) : w \in {"subscribe", "unsubscribe", "message"}, t \in Topics, n \in Nat}
Closing == {Error(None), Garbage}
Replies(I) == Answered(I) \cup Messages \cup Closing

Own(c) == {NoReply, Error(None), Data(c), Error(c)}
Unsubscribes(r) == r \in Messages /\ r.what = "unsubscribe"
LeavesAll(r) == Unsubscribes(r) /\ r.count = 0

(* The three kinds of reply are told apart by their fields, and an answer is one
   that its own command may get. *)
LEMMA ReplyShapes ==
  ASSUME NEW I \in SUBSET Commands
  PROVE  /\ \A r \in Answered(I) : /\ r.to \in Regulars(I) /\ r.to # None /\ r \in Own(r.to)
                                   /\ r.type \in {"data", "error"}
                                   /\ r \notin Messages /\ r \notin Closing
         /\ \A r \in Messages : r.to = None /\ r.type = "array" /\ r.topic \in Topics /\ r \notin Closing
         /\ \A r \in Closing : r.to = None /\ r.type \in {"error", "garbage"}
         /\ None \notin I
<1>1. \A c \in Regulars(I) : c # None
  BY Zenon, AsyncAssumption DEF Regulars
<1>2. \A r \in Closing : r.to = None /\ r.type \in {"error", "garbage"}
  BY DEF Closing, Error, Garbage
<1>3. \A r \in Messages : r.to = None /\ r.type = "array" /\ r.topic \in Topics
  BY DEF Messages, Message
<1>4. \A r \in Answered(I) : r.to \in Regulars(I) /\ r \in Own(r.to) /\ r.type \in {"data", "error"}
  BY DEF Answered, Own, Data, Error
<1>5. "array" # "error" /\ "array" # "garbage" /\ "array" # "data"
  OBVIOUS
<1>6. \A r \in Answered(I) : r \notin Messages
  BY <1>3, <1>4, <1>5
<1>7. \A r \in Messages : r \notin Closing
  BY <1>2, <1>3, <1>5
<1>8. \A r \in Answered(I) : r \notin Closing
  BY <1>1, <1>2, <1>4
<1>9. QED
  BY Zenon, <1>1, <1>2, <1>3, <1>4, <1>6, <1>7, <1>8, AsyncAssumption

------------------------------------------------------------------------------
(* The callbacks P in replies and V in sub.invalid, the replies R and the
   commands G that are on their way, the topics S that have a callback, the
   topics T that the server sends messages of, and the commands I issued so
   far, in the order O.  shut says that the peer has closed the connection, on
   that the flag SUBSCRIBED is set. *)
AnswersIn(R) == {c \in Commands : \E r \in Range(R) : r.to = c}
Due(R, G) == AnswersIn(R) \cup {c \in Range(G) : Kind[c] = "regular"}
Owed(P, V) == Range(P) \cup Range(V)

Typed(P, V, R, G, S, T, I) ==
  /\ I \in SUBSET Commands /\ \A c \in I : Kind[c] # "monitor"
  /\ P \in Seq(Regulars(I)) /\ V \in Seq(Regulars(I))
  /\ R \in Seq(Replies(I)) /\ G \in Seq(I)
  /\ S \in SUBSET Topics /\ T \in SUBSET Topics

Older(O, I) == O \in SUBSET (I \X I) /\ \A x, y \in I : <<x, y>> \in O => <<y, x>> \notin O

Increasing(s, O) == \A x, y : Before(s, x, y) => <<x, y>> \in O

(* The reply y may come after x. *)
MayFollow(x, y, P, O) ==
  /\ x \notin Closing
  /\ x.to # None /\ y.to # None => <<x.to, y.to>> \in O
  /\ x \in Messages => y.to \notin Range(P)
  /\ Unsubscribes(x) /\ y \in Messages => y.topic # x.topic
  /\ LeavesAll(x) => y \in Closing

(* Callbacks, replies and commands are in the order in which the commands were
   issued, as far as answers are due; regular callbacks come first. *)
InOrder(P, V, R, G, O) ==
  /\ Increasing(P, O) /\ Increasing(V, O) /\ Increasing(G, O)
  /\ \A x, y : Before(R, x, y) => MayFollow(x, y, P, O)
  /\ \A c \in AnswersIn(R), d \in Range(G) : <<c, d>> \in O
  /\ \A c \in Due(R, G), d \in Owed(P, V) : <<d, c>> \in O => d \in Due(R, G)
  /\ \A c \in Due(R, G) \cap Range(V), d \in Range(P) : <<d, c>> \in O
  /\ \A c \in Range(G), d \in Range(P) : Kind[c] # "regular" => <<d, c>> \in O
  /\ \A c, d \in Range(G) : Kind[c] = "unsubscribe" /\ Names[c] # {} => <<c, d>> \notin O

(* Every answer that is due has a callback, and the other way round while the
   connection lasts. *)
Matched(P, V, R, G, shut, on) ==
  /\ Due(R, G) \subseteq Owed(P, V)
  /\ ~shut => Owed(P, V) \subseteq Due(R, G)
  /\ ~on => Due(R, G) \cap Range(V) = {}
  /\ Range(P) \cap Range(V) = {}
  /\ shut => Range(G) = {}
  /\ ~shut => Range(R) \cap Closing = {}

(* Every message has a callback, and none comes before a regular reply. *)
Topical(P, R, G, S, T, shut, on, I) ==
  /\ \A r \in Range(R) \cap Messages : r.topic \in S /\ on /\ Range(P) \subseteq AnswersIn(R)
  /\ \A r \in Range(R) : Unsubscribes(r) =>
       Range(G) = {} /\ \E u \in I : Kind[u] = "unsubscribe" /\ r.topic \in Names[u]
  /\ \A c \in Range(G) : Kind[c] # "regular" => on /\ Names[c] \subseteq S
  /\ ~shut =>
       /\ T \subseteq S
       /\ T # {} => on /\ Range(P) \cap Range(G) = {}
       /\ \A r \in Range(R) : Unsubscribes(r) => r.topic \notin T
       /\ \A r \in Range(R) : LeavesAll(r) => T = {}
       /\ \A t \in S : \/ t \in T
                       \/ \E r \in Range(R) : Unsubscribes(r) /\ r.topic = t
                       \/ \E c \in Range(G) : Kind[c] = "subscribe" /\ t \in Names[c]

InStep(P, V, R, G, S, T, shut, on, I, O) ==
  /\ Typed(P, V, R, G, S, T, I) /\ Older(O, I)
  /\ InOrder(P, V, R, G, O)
  /\ Matched(P, V, R, G, shut, on)
  /\ Topical(P, R, G, S, T, shut, on, I)

(* Of two commands one is the older. *)
LEMMA OrderParts ==
  ASSUME NEW O, NEW I, Older(O, I), NEW x, NEW y, <<x, y>> \in O
  PROVE  x \in I /\ y \in I /\ <<y, x>> \notin O
<1>1. <<x, y>> \in I \X I
  BY Zenon DEF Older
<1>2. x \in I /\ y \in I
  BY SMT, <1>1
<1>3. QED
  BY Zenon, <1>2 DEF Older

(* The next reply is for the oldest callback. *)
LEMMA OldestFirst ==
  ASSUME NEW P, NEW V, NEW R, NEW G, NEW S, NEW T, NEW shut, NEW on, NEW I, NEW O,
         InStep(P, V, R, G, S, T, shut, on, I, O), R # <<>>,
         NEW d \in Owed(P, V), <<d, Head(R).to>> \in O
  PROVE  FALSE
<1>1. /\ Range(R) = {Head(R)} \cup Range(Tail(R)) /\ I \in SUBSET Commands
      /\ \A y \in Range(Tail(R)) : Before(R, Head(R), y)
  BY Zenon, TailParts DEF InStep, Typed
<1> DEFINE c == Head(R).to
<1>2. c \in I /\ d \in I /\ <<c, d>> \notin O
  BY Zenon, OrderParts DEF InStep
<1>3. c \in I /\ d \in I /\ c # None /\ d # None /\ c \in Commands /\ <<c, d>> \notin O
  BY Zenon, <1>1, <1>2, ReplyShapes
<1>4. c \in AnswersIn(R)
  BY Zenon, <1>1, <1>3 DEF AnswersIn
<1>5. d \in Due(R, G)
  BY Zenon, <1>4 DEF InStep, InOrder, Due
<1>6. CASE d \in AnswersIn(R)
  <2>1. PICK r \in Range(R) : r.to = d
    BY Zenon, <1>6 DEF AnswersIn
  <2>2. r # Head(R)
    BY Zenon, <1>3, <2>1
  <2>3. <<c, d>> \in O
    BY Zenon, <1>1, <1>3, <2>1, <2>2 DEF InStep, InOrder, MayFollow
  <2>4. QED
    BY Zenon, <1>3, <2>3
<1>7. CASE d \in Range(G)
  BY Zenon, <1>3, <1>4, <1>7 DEF InStep, InOrder
<1>8. QED
  BY Zenon, <1>5, <1>6, <1>7 DEF Due

(* What redisProcessCallbacks relies on: the reply at the front belongs to the
   callback at the front of the queue that it looks in. *)
LEMMA HeadMatches ==
  ASSUME NEW P, NEW V, NEW R, NEW G, NEW S, NEW T, NEW shut, NEW on, NEW I, NEW O,
         InStep(P, V, R, G, S, T, shut, on, I, O), R # <<>>
  PROVE  /\ P # <<>> => Head(R) \notin Messages /\ (Head(R) \in Answered(I) => Head(R).to = Head(P))
         /\ P = <<>> /\ Head(R) \in Answered(I) => V # <<>> /\ Head(R).to = Head(V)
         /\ Head(R) \in Replies(I) /\ I \in SUBSET Commands
<1>1. /\ Range(R) = {Head(R)} \cup Range(Tail(R)) /\ I \in SUBSET Commands
      /\ \A y \in Range(Tail(R)) : Before(R, Head(R), y) /\ Head(R) \in Replies(I)
  BY Zenon, TailParts DEF InStep, Typed
<1>2. Head(R) \in Replies(I) /\ Range(<<>>) = {}
  BY Zenon, TailParts, EmptyParts DEF InStep, Typed
<1>3. ASSUME P # <<>> PROVE Head(P) \in Range(P) /\ Head(P) \in I /\ \A d \in Range(P) : d = Head(P) \/ Before(P, Head(P), d)
  BY Zenon, <1>3, TailParts DEF InStep, Typed, Regulars
<1>4. ASSUME V # <<>> PROVE Head(V) \in Range(V) /\ \A d \in Range(V) : d = Head(V) \/ Before(V, Head(V), d)
  BY Zenon, <1>4, TailParts DEF InStep, Typed, Regulars
<1>5. ASSUME Head(R) \in Answered(I) PROVE Head(R).to \in Owed(P, V) /\ Head(R).to \in Due(R, G)
  <2>1. Head(R).to \in AnswersIn(R)
    BY Zenon, <1>1, <1>5, ReplyShapes DEF AnswersIn, Regulars
  <2>2. QED
    BY Zenon, <2>1 DEF InStep, Matched, Due
<1>6. ASSUME P # <<>>, Head(R) \in Messages PROVE FALSE
  <2>1. Head(P) \in AnswersIn(R)
    BY Zenon, <1>1, <1>3, <1>6 DEF InStep, Topical
  <2>2. PICK r \in Range(R) : r.to = Head(P)
    BY Zenon, <2>1 DEF AnswersIn
  <2>3. r # Head(R)
    BY Zenon, <1>1, <1>3, <1>6, <2>2, ReplyShapes
  <2>4. QED
    BY Zenon, <1>1, <1>3, <1>6, <2>2, <2>3 DEF InStep, InOrder, MayFollow
<1>7. ASSUME P # <<>>, Head(R) \in Answered(I) PROVE Head(R).to = Head(P)
  <2>1. Head(P) \in Owed(P, V)
    BY Zenon, <1>3, <1>7 DEF Owed
  <2>2. Head(R).to # Head(P) => <<Head(P), Head(R).to>> \in O
    BY Zenon, <1>3, <1>5, <1>7 DEF InStep, InOrder, Increasing, Owed
  <2>3. QED
    BY Zenon, <2>1, <2>2, OldestFirst
<1>8. ASSUME P = <<>>, Head(R) \in Answered(I) PROVE V # <<>> /\ Head(R).to = Head(V)
  <2>1. Head(R).to \in Range(V)
    BY Zenon, <1>2, <1>5, <1>8 DEF Owed
  <2>2. V # <<>>
    BY Zenon, <1>2, <2>1
  <2>3. Head(V) \in Owed(P, V) /\ (Head(R).to # Head(V) => <<Head(V), Head(R).to>> \in O)
    BY Zenon, <1>4, <2>1, <2>2 DEF InStep, InOrder, Increasing, Owed
  <2>4. QED
    BY Zenon, <2>2, <2>3, OldestFirst
<1>9. QED
  BY Zenon, <1>1, <1>2, <1>6, <1>7, <1>8

------------------------------------------------------------------------------
(* A part of a sequence, in the same order. *)
Part(s, t) == Range(s) \subseteq Range(t) /\ \A x, y : Before(s, x, y) => Before(t, x, y)

(* Nothing is twice in an ordered queue. *)
LEMMA TailOfOrdered ==
  ASSUME NEW O, NEW I, Older(O, I), NEW X, NEW s \in Seq(X), s # <<>>, Increasing(s, O)
  PROVE  /\ Tail(s) \in Seq(X) /\ Head(s) \in Range(s)
         /\ Range(Tail(s)) = Range(s) \ {Head(s)} /\ Part(Tail(s), s)
<1>1. /\ Tail(s) \in Seq(X) /\ Range(s) = {Head(s)} \cup Range(Tail(s))
      /\ \A y \in Range(Tail(s)) : Before(s, Head(s), y)
      /\ \A x, y : Before(Tail(s), x, y) => Before(s, x, y)
  BY Zenon, TailParts
<1>2. ASSUME Head(s) \in Range(Tail(s)) PROVE FALSE
  <2>1. <<Head(s), Head(s)>> \in O
    BY Zenon, <1>1, <1>2 DEF Increasing
  <2>2. QED
    BY Zenon, <2>1, OrderParts
<1>3. QED
  BY Zenon, <1>1, <1>2 DEF Part

(* What is due when the next reply has been read. *)
TailOf(P, R, G, shut, I, O) ==
  /\ Tail(R) \in Seq(Replies(I)) /\ Part(Tail(R), R) /\ Head(R) \in Range(R)
  /\ Range(R) = {Head(R)} \cup Range(Tail(R))
  /\ \A y \in Range(Tail(R)) : MayFollow(Head(R), y, P, O)
  /\ AnswersIn(Tail(R)) = AnswersIn(R) \ {Head(R).to}
  /\ Due(Tail(R), G) = Due(R, G) \ {Head(R).to}
  /\ Head(R) \in Closing => Range(Tail(R)) = {} /\ Range(G) = {} /\ shut

(* Reading the first reply leaves the others due in the order they were in. *)
LEMMA TailOfReplies ==
  ASSUME NEW P, NEW V, NEW R, NEW G, NEW S, NEW T, NEW shut, NEW on, NEW I, NEW O,
         InStep(P, V, R, G, S, T, shut, on, I, O), R # <<>>
  PROVE  TailOf(P, R, G, shut, I, O)
<1>1. /\ Range(R) = {Head(R)} \cup Range(Tail(R)) /\ I \in SUBSET Commands
      /\ \A y \in Range(Tail(R)) : Before(R, Head(R), y)
      /\ \A x, y : Before(Tail(R), x, y) => Before(R, x, y)
      /\ Head(R) \in Replies(I) /\ Tail(R) \in Seq(Replies(I))
  BY Zenon, TailParts DEF InStep, Typed
<1>2. \A y \in Range(Tail(R)) : MayFollow(Head(R), y, P, O)
  BY Zenon, <1>1 DEF InStep, InOrder
<1>3. Older(O, I) /\ None \notin Commands
  BY Zenon, AsyncAssumption DEF InStep
<1>4. AnswersIn(Tail(R)) \subseteq AnswersIn(R) \ {Head(R).to}
  <2>1. SUFFICES ASSUME NEW c \in AnswersIn(Tail(R)) PROVE c \in AnswersIn(R) /\ c # Head(R).to
    BY Zenon
  <2>2. PICK r \in Range(Tail(R)) : r.to = c
    BY Zenon DEF AnswersIn
  <2>3. c \in AnswersIn(R) /\ c # None
    BY Zenon, <1>1, <1>3, <2>2 DEF AnswersIn
  <2>4. c # Head(R).to
    BY Zenon, <1>2, <1>3, <2>2, <2>3, OrderParts DEF MayFollow
  <2>5. QED
    BY Zenon, <2>3, <2>4
<1>5. AnswersIn(R) \ {Head(R).to} \subseteq AnswersIn(Tail(R))
  BY Zenon, <1>1 DEF AnswersIn
<1>6. Head(R).to \in Range(G) => FALSE
  <2>1. SUFFICES ASSUME Head(R).to \in Range(G) PROVE FALSE
    BY Zenon
  <2>2. Range(G) \subseteq Commands
    BY DEF InStep, Typed, Range
  <2>3. Head(R).to \in AnswersIn(R)
    BY Zenon, <1>1, <2>1, <2>2 DEF AnswersIn
  <2>4. <<Head(R).to, Head(R).to>> \in O
    BY Zenon, <2>1, <2>3 DEF InStep, InOrder
  <2>5. QED
    BY Zenon, <1>3, <2>4, OrderParts
<1>7. Due(Tail(R), G) = Due(R, G) \ {Head(R).to}
  BY Zenon, <1>4, <1>5, <1>6 DEF Due
<1>8. Head(R) \in Closing => Range(Tail(R)) = {} /\ Range(G) = {} /\ shut
  BY Zenon, <1>1, <1>2 DEF InStep, Matched, MayFollow
<1>9. QED
  BY Zenon, <1>1, <1>2, <1>4, <1>5, <1>7, <1>8 DEF Part, TailOf

(* Callbacks D leave with their answers, or the connection has ended. *)
LEMMA Shifted ==
  ASSUME NEW P, NEW V, NEW R, NEW G, NEW S, NEW T, NEW shut, NEW on, NEW I, NEW O,
         InStep(P, V, R, G, S, T, shut, on, I, O),
         NEW D, NEW P2 \in Seq(Regulars(I)), NEW V2 \in Seq(Regulars(I)), NEW R2 \in Seq(Replies(I)),
         Part(P2, P), Part(V2, V), Part(R2, R),
         Range(P2) = Range(P) \ D, Range(V2) = Range(V) \ D,
         Range(R) \cap Messages \subseteq Range(R2) \/ (shut /\ Range(R2) = {} /\ Range(G) = {}),
         \/ AnswersIn(R2) = AnswersIn(R) \ D /\ Due(R2, G) = Due(R, G) \ D
         \/ shut /\ Range(R2) = {} /\ Range(G) = {}
  PROVE  InStep(P2, V2, R2, G, S, T, shut, on, I, O)
<1>1. Typed(P2, V2, R2, G, S, T, I) /\ Older(O, I)
  BY Zenon DEF InStep, Typed
<1>2. /\ Range(R2) = {} => AnswersIn(R2) = {}
      /\ Range(R2) = {} /\ Range(G) = {} => Due(R2, G) = {}
  BY Zenon DEF AnswersIn, Due
<1>3. AnswersIn(R2) \subseteq AnswersIn(R) /\ Due(R2, G) \subseteq Due(R, G) \ D
  BY Zenon, <1>2
<1>4. Owed(P2, V2) = Owed(P, V) \ D
  BY Zenon DEF Owed
<1>5. InOrder(P2, V2, R2, G, O)
  <2>1. Increasing(P2, O) /\ Increasing(V2, O) /\ Increasing(G, O)
    BY Zenon DEF InStep, InOrder, Increasing, Part
  <2>2. ASSUME NEW x, NEW y, Before(R2, x, y) PROVE MayFollow(x, y, P2, O)
    <3>1. MayFollow(x, y, P, O)
      BY Zenon, <2>2 DEF InStep, InOrder, Part
    <3>2. QED
      BY Zenon, <3>1 DEF MayFollow
  <2>3. \A c \in AnswersIn(R2), d \in Range(G) : <<c, d>> \in O
    BY Zenon, <1>3 DEF InStep, InOrder
  <2>4. ASSUME NEW c \in Due(R2, G), NEW d \in Owed(P2, V2), <<d, c>> \in O PROVE d \in Due(R2, G)
    <3>1. d \in Due(R, G) \ D
      BY Zenon, <1>3, <1>4, <2>4 DEF InStep, InOrder
    <3>2. QED
      BY Zenon, <1>2, <2>4, <3>1
  <2>5. \A c \in Due(R2, G) \cap Range(V2), d \in Range(P2) : <<d, c>> \in O
    BY Zenon, <1>3 DEF InStep, InOrder, Part
  <2>6. \A c \in Range(G), d \in Range(P2) : Kind[c] # "regular" => <<d, c>> \in O
    BY Zenon DEF InStep, InOrder, Part
  <2>7. \A c, d \in Range(G) : Kind[c] = "unsubscribe" /\ Names[c] # {} => <<c, d>> \notin O
    BY Zenon DEF InStep, InOrder
  <2>8. QED
    BY Zenon, <2>1, <2>2, <2>3, <2>4, <2>5, <2>6, <2>7 DEF InOrder
<1>6. Matched(P2, V2, R2, G, shut, on)
  <2>1. Due(R2, G) \subseteq Owed(P2, V2)
    BY Zenon, <1>3, <1>4 DEF InStep, Matched
  <2>2. ~shut => Owed(P2, V2) \subseteq Due(R2, G)
    BY Zenon, <1>4 DEF InStep, Matched
  <2>3. ~on => Due(R2, G) \cap Range(V2) = {}
    BY Zenon, <1>3 DEF InStep, Matched
  <2>4. Range(P2) \cap Range(V2) = {}
    BY Zenon DEF InStep, Matched
  <2>5. (shut => Range(G) = {}) /\ (~shut => Range(R2) \cap Closing = {})
    BY Zenon DEF InStep, Matched, Part
  <2>6. QED
    BY Zenon, <2>1, <2>2, <2>3, <2>4, <2>5 DEF Matched
<1>7. Topical(P2, R2, G, S, T, shut, on, I)
  <2>1. \A r \in Range(R2) \cap Messages : r.topic \in S /\ on /\ Range(P2) \subseteq AnswersIn(R2)
    BY Zenon DEF InStep, Topical, Part
  <2>2. \A r \in Range(R2) : Unsubscribes(r) =>
          Range(G) = {} /\ \E u \in I : Kind[u] = "unsubscribe" /\ r.topic \in Names[u]
    BY Zenon DEF InStep, Topical, Part
  <2>3. \A c \in Range(G) : Kind[c] # "regular" => on /\ Names[c] \subseteq S
    BY Zenon DEF InStep, Topical
  <2>4. ASSUME ~shut
        PROVE  /\ T \subseteq S
               /\ T # {} => on /\ Range(P2) \cap Range(G) = {}
               /\ \A r \in Range(R2) : Unsubscribes(r) => r.topic \notin T
               /\ \A r \in Range(R2) : LeavesAll(r) => T = {}
    BY Zenon, <2>4 DEF InStep, Topical, Part
  <2>5. ASSUME ~shut, NEW t \in S
        PROVE  \/ t \in T
               \/ \E r \in Range(R2) : Unsubscribes(r) /\ r.topic = t
               \/ \E c \in Range(G) : Kind[c] = "subscribe" /\ t \in Names[c]
    BY Zenon, <2>5 DEF InStep, Topical, Unsubscribes
  <2>6. QED
    BY Zenon, <2>1, <2>2, <2>3, <2>4, <2>5 DEF Topical
<1>8. QED
  BY Zenon, <1>1, <1>5, <1>6, <1>7 DEF InStep

(* A reply is read by the oldest callback of replies. *)
LEMMA ReplyTaken ==
  ASSUME NEW P, NEW V, NEW R, NEW G, NEW S, NEW T, NEW shut, NEW on, NEW I, NEW O,
         InStep(P, V, R, G, S, T, shut, on, I, O), R # <<>>, P # <<>>
  PROVE  /\ InStep(Tail(P), V, Tail(R), G, S, T, shut, on, I, O)
         /\ Head(P) \in Regulars(I) /\ (Head(R) # Garbage => Head(R) \in Own(Head(P)))
         /\ Owed(Tail(P), V) = Owed(P, V) \ {Head(P)} /\ Head(P) \in Owed(P, V)
<1>1. /\ Head(R) \notin Messages /\ (Head(R) \in Answered(I) => Head(R).to = Head(P))
      /\ Head(R) \in Replies(I) /\ I \in SUBSET Commands
  BY Zenon, HeadMatches
<1>2. /\ P \in Seq(Regulars(I)) /\ V \in Seq(Regulars(I)) /\ Older(O, I) /\ Increasing(P, O)
      /\ Range(P) \cap Range(V) = {}
  BY Zenon DEF InStep, Typed, InOrder, Matched
<1>3. /\ Tail(P) \in Seq(Regulars(I)) /\ Head(P) \in Range(P)
      /\ Range(Tail(P)) = Range(P) \ {Head(P)} /\ Part(Tail(P), P)
  BY Zenon, <1>2, TailOfOrdered
<1>4. /\ Tail(R) \in Seq(Replies(I)) /\ Part(Tail(R), R)
      /\ Range(R) = {Head(R)} \cup Range(Tail(R))
      /\ AnswersIn(Tail(R)) = AnswersIn(R) \ {Head(R).to}
      /\ Due(Tail(R), G) = Due(R, G) \ {Head(R).to}
      /\ Head(R) \in Closing => Range(Tail(R)) = {} /\ Range(G) = {} /\ shut
  <2>1. TailOf(P, R, G, shut, I, O)
    BY Zenon, TailOfReplies
  <2>2. QED
    BY Zenon, <2>1 DEF TailOf
<1>5. Range(V) = Range(V) \ {Head(P)} /\ Part(V, V)
  BY Zenon, <1>2, <1>3 DEF Part
<1>6. \/ AnswersIn(Tail(R)) = AnswersIn(R) \ {Head(P)} /\ Due(Tail(R), G) = Due(R, G) \ {Head(P)}
      \/ shut /\ Range(Tail(R)) = {} /\ Range(G) = {}
  BY Zenon, <1>1, <1>4 DEF Replies
<1>7. Range(R) \cap Messages \subseteq Range(Tail(R))
  BY Zenon, <1>1, <1>4
<1>8. InStep(Tail(P), V, Tail(R), G, S, T, shut, on, I, O)
  BY Zenon, <1>2, <1>3, <1>4, <1>5, <1>6, <1>7, Shifted
<1>9. Head(P) \in Regulars(I)
  BY Zenon, <1>2, TailParts
<1>10. Head(R) # Garbage => Head(R) \in Own(Head(P))
  BY Zenon, <1>1, ReplyShapes DEF Replies, Closing, Own
<1>11. QED
  BY Zenon, <1>3, <1>5, <1>8, <1>9, <1>10 DEF Owed

(* A reply is read by the oldest callback of sub.invalid. *)
LEMMA InvalidTaken ==
  ASSUME NEW P, NEW V, NEW R, NEW G, NEW S, NEW T, NEW shut, NEW on, NEW I, NEW O,
         InStep(P, V, R, G, S, T, shut, on, I, O), R # <<>>, P = <<>>, Head(R) \in Answered(I)
  PROVE  /\ V # <<>> /\ InStep(P, Tail(V), Tail(R), G, S, T, shut, on, I, O)
         /\ Head(V) \in Regulars(I) /\ Head(R) \in Own(Head(V))
         /\ Owed(P, Tail(V)) = Owed(P, V) \ {Head(V)} /\ Head(V) \in Owed(P, V)
<1>1. V # <<>> /\ Head(R).to = Head(V) /\ I \in SUBSET Commands
  BY ZenonT(60), HeadMatches
<1>2. P \in Seq(Regulars(I)) /\ V \in Seq(Regulars(I)) /\ Older(O, I) /\ Increasing(V, O)
  BY Zenon DEF InStep, Typed, InOrder, Matched
<1>3. /\ Tail(V) \in Seq(Regulars(I)) /\ Head(V) \in Range(V)
      /\ Range(Tail(V)) = Range(V) \ {Head(V)} /\ Part(Tail(V), V)
  BY Zenon, <1>1, <1>2, TailOfOrdered
<1>4. /\ Tail(R) \in Seq(Replies(I)) /\ Part(Tail(R), R)
      /\ Range(R) = {Head(R)} \cup Range(Tail(R))
      /\ AnswersIn(Tail(R)) = AnswersIn(R) \ {Head(R).to}
      /\ Due(Tail(R), G) = Due(R, G) \ {Head(R).to}
  <2>1. TailOf(P, R, G, shut, I, O)
    BY Zenon, TailOfReplies
  <2>2. QED
    BY Zenon, <2>1 DEF TailOf
<1>5. Range(P) = Range(P) \ {Head(V)} /\ Part(P, P)
  BY Zenon, EmptyParts DEF Part
<1>6. AnswersIn(Tail(R)) = AnswersIn(R) \ {Head(V)} /\ Due(Tail(R), G) = Due(R, G) \ {Head(V)}
  BY Zenon, <1>1, <1>4
<1>7. Range(R) \cap Messages \subseteq Range(Tail(R))
  BY Zenon, <1>1, <1>4, ReplyShapes
<1>8. InStep(P, Tail(V), Tail(R), G, S, T, shut, on, I, O)
  BY Zenon, <1>2, <1>3, <1>4, <1>5, <1>6, <1>7, Shifted
<1>9. Head(V) \in Regulars(I)
  BY Zenon, <1>1, <1>2, TailParts
<1>10. Head(R) \in Own(Head(V))
  BY Zenon, <1>1, ReplyShapes
<1>11. QED
  BY Zenon, <1>1, <1>3, <1>5, <1>8, <1>9, <1>10 DEF Owed

(* A message is read; when it ends a subscription, the topic loses its callback. *)
LEMMA MessageTaken ==
  ASSUME NEW P, NEW V, NEW R, NEW G, NEW S, NEW T, NEW shut, NEW on, NEW I, NEW O,
         InStep(P, V, R, G, S, T, shut, on, I, O), R # <<>>, Head(R) \in Messages,
         NEW S2, S2 = IF Unsubscribes(Head(R)) THEN S \ {Head(R).topic} ELSE S,
         NEW on2, on2 = (on /\ ~LeavesAll(Head(R)))
  PROVE  P = <<>> /\ on /\ Head(R).topic \in S /\ InStep(P, V, Tail(R), G, S2, T, shut, on2, I, O)
<1> DEFINE h == Head(R)
<1>0. P = <<>> /\ I \in SUBSET Commands /\ P \in Seq(Regulars(I))
  BY Zenon, HeadMatches DEF InStep, Typed
<1>1. Range(P) = {}
  BY Zenon, <1>0, EmptyParts
<1>2. /\ Tail(R) \in Seq(Replies(I)) /\ Part(Tail(R), R) /\ h \in Range(R)
      /\ Range(R) = {h} \cup Range(Tail(R))
      /\ \A y \in Range(Tail(R)) : MayFollow(h, y, P, O)
      /\ AnswersIn(Tail(R)) = AnswersIn(R) \ {h.to}
      /\ Due(Tail(R), G) = Due(R, G) \ {h.to}
  <2>1. TailOf(P, R, G, shut, I, O)
    BY Zenon, TailOfReplies
  <2>2. QED
    BY Zenon, <2>1 DEF TailOf
<1>3. h.to = None /\ h.topic \in S /\ on
  BY Zenon, <1>0, <1>2, ReplyShapes DEF InStep, Topical
<1>4. AnswersIn(Tail(R)) = AnswersIn(R) /\ Due(Tail(R), G) = Due(R, G)
  <2>1. None \notin AnswersIn(R) /\ None \notin Range(G)
    BY AsyncAssumption DEF AnswersIn, InStep, Typed, Range
  <2>2. QED
    BY Zenon, <1>2, <1>3, <2>1 DEF Due
<1>5. LeavesAll(h) => /\ Range(Tail(R)) \cap Messages = {} /\ Range(G) = {} /\ Due(R, G) = {}
  <2>1. SUFFICES ASSUME LeavesAll(h) PROVE Range(Tail(R)) \cap Messages = {} /\ Range(G) = {} /\ Due(R, G) = {}
    BY Zenon
  <2>2. \A y \in Range(Tail(R)) : y \in Closing
    BY Zenon, <1>2, <2>1 DEF MayFollow
  <2>3. Range(G) = {}
    BY Zenon, <1>2, <2>1 DEF InStep, Topical, LeavesAll
  <2>4. \A y \in Range(Tail(R)) : y \notin Messages /\ y.to = None
    BY Zenon, <1>0, <2>2, ReplyShapes
  <2>5. AnswersIn(Tail(R)) = {}
    BY Zenon, <2>4, AsyncAssumption DEF AnswersIn
  <2>6. QED
    BY Zenon, <1>4, <2>3, <2>4, <2>5 DEF Due
<1>6. Unsubscribes(h) => Range(G) = {} /\ \A y \in Range(Tail(R)) \cap Messages : y.topic # h.topic
  BY Zenon, <1>2 DEF InStep, Topical, MayFollow
<1>7. Typed(P, V, Tail(R), G, S2, T, I) /\ Older(O, I)
  <2>1. S2 \in SUBSET Topics
    BY Zenon DEF InStep, Typed
  <2>2. QED
    BY Zenon, <1>2, <2>1 DEF InStep, Typed
<1>8. InOrder(P, V, Tail(R), G, O)
  BY Zenon, <1>2, <1>4 DEF InStep, InOrder, Part
<1>9. Matched(P, V, Tail(R), G, shut, on2)
  <2>1. Due(Tail(R), G) \subseteq Owed(P, V) /\ (~shut => Owed(P, V) \subseteq Due(Tail(R), G))
    BY Zenon, <1>4 DEF InStep, Matched
  <2>2. ~on2 => Due(Tail(R), G) \cap Range(V) = {}
    BY Zenon, <1>3, <1>4, <1>5
  <2>3. QED
    BY Zenon, <1>2, <2>1, <2>2 DEF InStep, Matched, Part
<1>10. Topical(P, Tail(R), G, S2, T, shut, on2, I)
  <2>1. ASSUME NEW r \in Range(Tail(R)) \cap Messages
        PROVE  r.topic \in S2 /\ on2 /\ Range(P) \subseteq AnswersIn(Tail(R))
    <3>1. r.topic \in S
      BY Zenon, <1>2, <2>1 DEF InStep, Topical
    <3>2. r.topic \in S2
      BY Zenon, <1>6, <2>1, <3>1
    <3>3. QED
      BY Zenon, <1>1, <1>3, <1>5, <3>2
  <2>2. \A r \in Range(Tail(R)) : Unsubscribes(r) =>
          Range(G) = {} /\ \E u \in I : Kind[u] = "unsubscribe" /\ r.topic \in Names[u]
    BY Zenon, <1>2 DEF InStep, Topical
  <2>3. \A c \in Range(G) : Kind[c] # "regular" => on2 /\ Names[c] \subseteq S2
    <3>1. Range(G) # {} => on2 /\ S2 = S
      BY Zenon, <1>3, <1>5, <1>6
    <3>2. QED
      BY Zenon, <3>1 DEF InStep, Topical
  <2>4. ASSUME ~shut
        PROVE  /\ T \subseteq S2
               /\ T # {} => on2 /\ Range(P) \cap Range(G) = {}
               /\ \A r \in Range(Tail(R)) : Unsubscribes(r) => r.topic \notin T
               /\ \A r \in Range(Tail(R)) : LeavesAll(r) => T = {}
    <3>1. T \subseteq S /\ (Unsubscribes(h) => h.topic \notin T) /\ (LeavesAll(h) => T = {})
      BY Zenon, <1>2, <2>4 DEF InStep, Topical
    <3>2. T \subseteq S2 /\ (T # {} => on2 /\ Range(P) \cap Range(G) = {})
      BY Zenon, <1>1, <1>3, <3>1
    <3>3. QED
      BY Zenon, <1>2, <2>4, <3>2 DEF InStep, Topical
  <2>5. ASSUME ~shut, NEW t \in S2
        PROVE  \/ t \in T
               \/ \E r \in Range(Tail(R)) : Unsubscribes(r) /\ r.topic = t
               \/ \E c \in Range(G) : Kind[c] = "subscribe" /\ t \in Names[c]
    <3>1. t \in S /\ (Unsubscribes(h) => h.topic # t)
      BY Zenon, <2>5
    <3>2. QED
      BY Zenon, <1>2, <2>5, <3>1 DEF InStep, Topical
  <2>6. QED
    BY Zenon, <2>1, <2>2, <2>3, <2>4, <2>5 DEF Topical
<1>11. QED
  BY Zenon, <1>0, <1>3, <1>7, <1>8, <1>9, <1>10 DEF InStep

------------------------------------------------------------------------------
(* The program issues a command c that does not confuse the library. *)
Issues(c, P, V, G, S, shut, on, I, P2, V2, G2, S2, on2) ==
  /\ c \in Commands \ I /\ Kind[c] \in {"regular", "subscribe", "unsubscribe"}
  /\ Kind[c] = "unsubscribe" => on /\ Names[c] \subseteq S
  /\ \A u \in I : Kind[u] = "unsubscribe" => Names[u] \cap S = {}
  /\ P2 = IF Kind[c] = "regular" /\ ~on THEN Append(P, c) ELSE P
  /\ V2 = IF Kind[c] = "regular" /\ on THEN Append(V, c) ELSE V
  /\ G2 = IF shut THEN G ELSE Append(G, c)
  /\ S2 = IF Kind[c] = "subscribe" THEN S \cup Names[c] ELSE S
  /\ on2 = (on \/ Kind[c] = "subscribe")

(* The new command is the youngest. *)
LEMMA Youngest ==
  ASSUME NEW O, NEW I, Older(O, I), NEW c, c \notin I
  PROVE  \E O2 : /\ Older(O2, I \cup {c})
                 /\ \A x, y : <<x, y>> \in O2 <=> <<x, y>> \in O \/ (x \in I /\ y = c)
<1> DEFINE O2 == O \cup (I \X {c})
<1>1. ASSUME NEW x, NEW y PROVE <<x, y>> \in O2 <=> <<x, y>> \in O \/ (x \in I /\ y = c)
  BY SMT
<1>2. O2 \in SUBSET ((I \cup {c}) \X (I \cup {c}))
  BY SMT DEF Older
<1> HIDE DEF O2
<1>3. ASSUME NEW x, NEW y, <<x, y>> \in O2 PROVE <<y, x>> \notin O2
  BY Zenon, <1>1, <1>3, OrderParts
<1>4. Older(O2, I \cup {c})
  BY Zenon, <1>2, <1>3 DEF Older
<1>5. QED
  BY Zenon, <1>1, <1>4

(* A queue over a set is one over any larger set. *)
LEMMA SeqWider ==
  ASSUME NEW X, NEW Y, X \subseteq Y, NEW s \in Seq(X)
  PROVE  s \in Seq(Y)
OBVIOUS

(* The order with c as the youngest. *)
Extends(O2, O, I, c) == \A x, y : <<x, y>> \in O2 <=> <<x, y>> \in O \/ (x \in I /\ y = c)

(* The queue s with c as its last element. *)
Pushes(s, c, Y, O2) ==
  /\ Append(s, c) \in Seq(Y) /\ Increasing(Append(s, c), O2)
  /\ Range(Append(s, c)) = Range(s) \cup {c}

(* A queue of older commands stays ordered when c is issued. *)
LEMMA Kept ==
  ASSUME NEW I, NEW X, X \subseteq I, NEW Y, X \subseteq Y, NEW s \in Seq(X), NEW c,
         NEW O, NEW O2, Increasing(s, O), Extends(O2, O, I, c)
  PROVE  s \in Seq(Y) /\ Range(s) \subseteq I /\ Increasing(s, O2)
<1>1. s \in Seq(Y)
  BY Zenon, SeqWider
<1>2. Range(s) \subseteq I
  BY DEF Range
<1>3. Increasing(s, O2)
  BY Zenon DEF Increasing, Extends
<1>4. QED
  BY Zenon, <1>1, <1>2, <1>3

(* __redisPushCallback keeps a queue ordered when c is the youngest command. *)
LEMMA Pushed ==
  ASSUME NEW I, NEW Y, NEW s \in Seq(Y), Range(s) \subseteq I, NEW c \in Y,
         NEW O, NEW O2, Increasing(s, O2), Extends(O2, O, I, c)
  PROVE  Pushes(s, c, Y, O2)
<1>1. /\ Append(s, c) \in Seq(Y)
      /\ Range(Append(s, c)) = Range(s) \cup {c}
      /\ \A x, y : Before(Append(s, c), x, y) <=> Before(s, x, y) \/ (x \in Range(s) /\ y \in {c})
  BY Zenon, AppendParts
<1>2. \A x \in Range(s) : <<x, c>> \in O2
  BY Zenon DEF Extends
<1>3. \A x, y : Before(Append(s, c), x, y) => <<x, y>> \in O2
  BY SMT, <1>1, <1>2 DEF Increasing
<1>4. QED
  BY Zenon, <1>1, <1>3 DEF Increasing, Pushes

(* __redisAsyncCommand keeps callbacks, replies and commands in step. *)
LEMMA Issue ==
  ASSUME NEW P, NEW V, NEW R, NEW G, NEW S, NEW T, NEW shut, NEW on, NEW I, NEW O,
         InStep(P, V, R, G, S, T, shut, on, I, O),
         NEW c, NEW P2, NEW V2, NEW G2, NEW S2, NEW on2,
         Issues(c, P, V, G, S, shut, on, I, P2, V2, G2, S2, on2)
  PROVE  \E O2 : InStep(P2, V2, R, G2, S2, T, shut, on2, I \cup {c}, O2)
<1> DEFINE I2 == I \cup {c}
<1>1. Typed(P, V, R, G, S, T, I) /\ Older(O, I) /\ c \in Commands \ I
  BY Zenon DEF InStep, Issues
<1>2. PICK O2 : Older(O2, I2) /\ Extends(O2, O, I, c)
  BY Zenon, <1>1, Youngest DEF Extends
<1>3. /\ Regulars(I) \subseteq Regulars(I2) /\ Regulars(I) \subseteq I
      /\ Kind[c] = "regular" => c \in Regulars(I2)
      /\ P \in Seq(Regulars(I)) /\ V \in Seq(Regulars(I)) /\ G \in Seq(I)
      /\ Increasing(P, O) /\ Increasing(V, O) /\ Increasing(G, O)
  BY Zenon DEF Regulars, InStep, Typed, InOrder
<1>4. /\ P2 \in Seq(Regulars(I2)) /\ Range(P) \subseteq I /\ Increasing(P2, O2)
      /\ \A d : d \in Range(P2) <=> d \in Range(P) \/ (Kind[c] = "regular" /\ ~on /\ d = c)
  <2>1. P \in Seq(Regulars(I2)) /\ Range(P) \subseteq I /\ Increasing(P, O2)
    <3>1. Regulars(I) \subseteq I /\ Regulars(I) \subseteq Regulars(I2) /\ P \in Seq(Regulars(I)) /\ Increasing(P, O)
      BY Zenon, <1>3
    <3>2. QED
      BY Zenon, <1>2, <3>1, Kept
  <2>2. CASE Kind[c] = "regular" /\ ~on
    <3>1. P2 = Append(P, c) /\ c \in Regulars(I2)
      BY Zenon, <1>3, <2>2 DEF Issues
    <3>2. Pushes(P, c, Regulars(I2), O2)
      BY Zenon, <1>2, <2>1, <3>1, Pushed
    <3>3. QED
      BY Zenon, <2>1, <2>2, <3>1, <3>2 DEF Pushes
  <2>3. CASE ~(Kind[c] = "regular" /\ ~on)
    <3>1. P2 = P
      BY Zenon, <2>3 DEF Issues
    <3>2. QED
      BY Zenon, <2>1, <2>3, <3>1
  <2>4. QED
    BY Zenon, <2>2, <2>3
<1>5. /\ V2 \in Seq(Regulars(I2)) /\ Range(V) \subseteq I /\ Increasing(V2, O2)
      /\ \A d : d \in Range(V2) <=> d \in Range(V) \/ (Kind[c] = "regular" /\ on /\ d = c)
  <2>1. V \in Seq(Regulars(I2)) /\ Range(V) \subseteq I /\ Increasing(V, O2)
    <3>1. Regulars(I) \subseteq I /\ Regulars(I) \subseteq Regulars(I2) /\ V \in Seq(Regulars(I)) /\ Increasing(V, O)
      BY Zenon, <1>3
    <3>2. QED
      BY Zenon, <1>2, <3>1, Kept
  <2>2. CASE Kind[c] = "regular" /\ on
    <3>1. V2 = Append(V, c) /\ c \in Regulars(I2)
      BY Zenon, <1>3, <2>2 DEF Issues
    <3>2. Pushes(V, c, Regulars(I2), O2)
      BY Zenon, <1>2, <2>1, <3>1, Pushed
    <3>3. QED
      BY Zenon, <2>1, <2>2, <3>1, <3>2 DEF Pushes
  <2>3. CASE ~(Kind[c] = "regular" /\ on)
    <3>1. V2 = V
      BY Zenon, <2>3 DEF Issues
    <3>2. QED
      BY Zenon, <2>1, <2>3, <3>1
  <2>4. QED
    BY Zenon, <2>2, <2>3
<1>6. /\ G2 \in Seq(I2) /\ Range(G) \subseteq I /\ Increasing(G2, O2)
      /\ \A d : d \in Range(G2) <=> d \in Range(G) \/ (~shut /\ d = c)
  <2>1. G \in Seq(I2) /\ Range(G) \subseteq I /\ Increasing(G, O2)
    <3>1. I \subseteq I /\ I \subseteq I2 /\ G \in Seq(I) /\ Increasing(G, O)
      BY Zenon, <1>3
    <3>2. QED
      BY Zenon, <1>2, <3>1, Kept
  <2>2. CASE ~shut
    <3>1. G2 = Append(G, c) /\ c \in I2
      BY Zenon, <1>3, <2>2 DEF Issues
    <3>2. Pushes(G, c, I2, O2)
      BY Zenon, <1>2, <2>1, <3>1, Pushed
    <3>3. QED
      BY Zenon, <2>1, <2>2, <3>1, <3>2 DEF Pushes
  <2>3. CASE shut
    <3>1. G2 = G
      BY Zenon, <2>3 DEF Issues
    <3>2. QED
      BY Zenon, <2>1, <2>3, <3>1
  <2>4. QED
    BY Zenon, <2>2, <2>3
<1>7. /\ R \in Seq(Replies(I2)) /\ \A r \in Range(R) : r \in Replies(I)
      /\ \A r \in Range(R) : r.to \in I \/ r.to = None
  <2>1. R \in Seq(Replies(I)) /\ Range(R) \subseteq Replies(I) /\ I \in SUBSET Commands
    BY <1>1 DEF Typed, Range
  <2>2. Replies(I) \subseteq Replies(I2)
    BY Zenon, <1>3 DEF Replies, Answered
  <2>3. R \in Seq(Replies(I2))
    BY Zenon, <2>1, <2>2, SeqWider
  <2>4. \A r \in Replies(I) : r.to \in I \/ r.to = None
    BY Zenon, <1>3, <2>1, ReplyShapes DEF Replies
  <2>5. QED
    BY Zenon, <2>1, <2>3, <2>4
<1>8. AnswersIn(R) \subseteq I /\ Due(R, G) \subseteq I /\ None \notin Commands /\ None # c
  BY Zenon, <1>1, <1>6, <1>7, AsyncAssumption DEF AnswersIn, Due
<1>9. \A d : d \in Due(R, G2) <=> d \in Due(R, G) \/ (Kind[c] = "regular" /\ ~shut /\ d = c)
  BY Zenon, <1>6 DEF Due
<1>10. Typed(P2, V2, R, G2, S2, T, I2)
  <2>1. S2 \in SUBSET Topics
    BY Zenon, <1>1, AsyncAssumption DEF Typed, Issues
  <2>2. I2 \in SUBSET Commands /\ \A d \in I2 : Kind[d] # "monitor"
    BY Zenon, <1>1 DEF Typed, Issues
  <2>3. QED
    BY Zenon, <1>1, <1>4, <1>5, <1>6, <1>7, <2>1, <2>2 DEF Typed
<1>11. \A r \in Range(R) : ~Unsubscribes(r)
  <2>1. SUFFICES ASSUME NEW r \in Range(R), Unsubscribes(r) PROVE FALSE
    BY Zenon
  <2>2. r.topic \in S
    BY Zenon, <2>1 DEF InStep, Topical, Unsubscribes
  <2>3. QED
    BY Zenon, <2>1, <2>2 DEF InStep, Topical, Issues
<1>12. InOrder(P2, V2, R, G2, O2)
  <2>1. ASSUME NEW x, NEW y, Before(R, x, y) PROVE MayFollow(x, y, P2, O2)
    <3>1. MayFollow(x, y, P, O) /\ y \in Range(R)
      BY Zenon, <2>1 DEF InStep, InOrder, Before, Range
    <3>2. y.to # c
      BY Zenon, <1>1, <1>7, <1>8, <3>1
    <3>3. QED
      BY Zenon, <1>2, <1>4, <3>1, <3>2 DEF MayFollow, Extends
  <2>2. ASSUME NEW d \in AnswersIn(R), NEW e \in Range(G2) PROVE <<d, e>> \in O2
    BY Zenon, <1>2, <1>6, <1>8, <2>2 DEF InStep, InOrder, Extends
  <2>3. ASSUME NEW d \in Due(R, G2), NEW e \in Owed(P2, V2), <<e, d>> \in O2 PROVE e \in Due(R, G2)
    <3>1. CASE ~shut /\ e = c
      BY Zenon, <1>1, <1>4, <1>5, <1>9, <2>3, <3>1 DEF Owed
    <3>2. CASE ~shut /\ e # c
      BY Zenon, <1>4, <1>5, <1>9, <2>3, <3>2 DEF InStep, Matched, Owed
    <3>3. CASE shut
      <4>1. d \in Due(R, G) /\ d # c
        BY Zenon, <1>1, <1>8, <1>9, <2>3, <3>3
      <4>2. <<e, d>> \in O /\ e \in I
        BY Zenon, <1>1, <1>2, <2>3, <4>1, OrderParts DEF Extends
      <4>3. e \in Owed(P, V)
        BY Zenon, <1>1, <1>4, <1>5, <2>3, <4>2 DEF Owed
      <4>4. QED
        BY Zenon, <1>9, <4>1, <4>2, <4>3 DEF InStep, InOrder
    <3>4. QED
      BY Zenon, <3>1, <3>2, <3>3
  <2>4. ASSUME NEW d \in Due(R, G2) \cap Range(V2), NEW e \in Range(P2) PROVE <<e, d>> \in O2
    <3>1. CASE d = c
      BY Zenon, <1>1, <1>2, <1>4, <1>5, <2>4, <3>1 DEF Extends
    <3>2. CASE d # c
      <4>1. d \in Range(V)
        BY Zenon, <1>5, <2>4, <3>2
      <4>2. d \in Due(R, G) \cap Range(V)
        BY Zenon, <1>9, <2>4, <3>2, <4>1
      <4>3. on
        BY Zenon, <4>2 DEF InStep, Matched
      <4>4. QED
        BY Zenon, <1>2, <1>4, <2>4, <4>2, <4>3 DEF InStep, InOrder, Extends
    <3>3. QED
      BY Zenon, <3>1, <3>2
  <2>5. ASSUME NEW d \in Range(G2), NEW e \in Range(P2), Kind[d] # "regular" PROVE <<e, d>> \in O2
    <3>1. CASE d = c
      BY Zenon, <1>1, <1>2, <1>4, <2>5, <3>1 DEF Extends
    <3>2. CASE d # c
      <4>1. d \in Range(G)
        BY Zenon, <1>6, <2>5, <3>2
      <4>2. on
        BY Zenon, <4>1, <2>5 DEF InStep, Topical
      <4>3. QED
        BY Zenon, <1>2, <1>4, <2>5, <4>1, <4>2 DEF InStep, InOrder, Extends
    <3>3. QED
      BY Zenon, <3>1, <3>2
  <2>6. ASSUME NEW d \in Range(G2), NEW e \in Range(G2), Kind[d] = "unsubscribe", Names[d] # {}, <<d, e>> \in O2
        PROVE  FALSE
    <3>1. d \in I
      BY Zenon, <1>1, <1>2, <2>6, OrderParts DEF Extends
    <3>2. d # c
      BY Zenon, <1>1, <3>1
    <3>3. d \in Range(G)
      BY Zenon, <1>6, <3>2
    <3>4. Names[d] \subseteq S
      BY Zenon, <2>6, <3>3 DEF InStep, Topical
    <3>5. QED
      BY Zenon, <2>6, <3>1, <3>4 DEF Issues
  <2>7. QED
    BY Zenon, <1>4, <1>5, <1>6, <2>1, <2>2, <2>3, <2>4, <2>5, <2>6 DEF InOrder
<1>13. Matched(P2, V2, R, G2, shut, on2)
  <2>1. Due(R, G2) \subseteq Owed(P2, V2)
    BY Zenon, <1>4, <1>5, <1>9 DEF InStep, Matched, Owed
  <2>2. ~shut => Owed(P2, V2) \subseteq Due(R, G2)
    BY Zenon, <1>4, <1>5, <1>9 DEF InStep, Matched, Owed
  <2>3. ASSUME ~on2 PROVE Due(R, G2) \cap Range(V2) = {}
    <3>1. ~on
      BY Zenon, <2>3 DEF Issues
    <3>2. QED
      BY Zenon, <1>1, <1>5, <1>9, <3>1 DEF InStep, Matched
  <2>4. Range(P2) \cap Range(V2) = {}
    BY Zenon, <1>1, <1>4, <1>5 DEF InStep, Matched
  <2>5. (shut => Range(G2) = {}) /\ (~shut => Range(R) \cap Closing = {})
    BY Zenon, <1>6 DEF InStep, Matched
  <2>6. QED
    BY Zenon, <2>1, <2>2, <2>3, <2>4, <2>5 DEF Matched
<1>14. Topical(P2, R, G2, S2, T, shut, on2, I2)
  <2>1. S \subseteq S2 /\ (on => on2) /\ (on => Range(P2) = Range(P))
    BY Zenon, <1>4 DEF Issues
  <2>2. \A r \in Range(R) \cap Messages : r.topic \in S2 /\ on2 /\ Range(P2) \subseteq AnswersIn(R)
    BY Zenon, <2>1 DEF InStep, Topical
  <2>3. ASSUME NEW d \in Range(G2), Kind[d] # "regular" PROVE on2 /\ Names[d] \subseteq S2
    <3>1. CASE d = c
      BY Zenon, <2>3, <3>1 DEF Issues
    <3>2. CASE d \in Range(G)
      BY Zenon, <2>1, <2>3, <3>2 DEF InStep, Topical
    <3>3. QED
      BY Zenon, <1>6, <2>3, <3>1, <3>2
  <2>4. ASSUME ~shut
        PROVE  /\ T \subseteq S2
               /\ T # {} => on2 /\ Range(P2) \cap Range(G2) = {}
    BY Zenon, <1>1, <1>4, <1>6, <2>1, <2>4 DEF InStep, Topical
  <2>5. ASSUME ~shut, NEW t \in S2
        PROVE  \/ t \in T
               \/ \E r \in Range(R) : Unsubscribes(r) /\ r.topic = t
               \/ \E d \in Range(G2) : Kind[d] = "subscribe" /\ t \in Names[d]
    <3>1. CASE t \in S
      BY Zenon, <1>6, <2>5, <3>1 DEF InStep, Topical
    <3>2. CASE t \notin S
      BY Zenon, <1>6, <2>5, <3>2 DEF Issues
    <3>3. QED
      BY Zenon, <3>1, <3>2
  <2>6. QED
    BY Zenon, <1>11, <2>2, <2>3, <2>4, <2>5 DEF Topical, LeavesAll
<1>15. QED
  BY Zenon, <1>2, <1>10, <1>12, <1>13, <1>14 DEF InStep

------------------------------------------------------------------------------
(* What the server has told, up to now, of the topics T it sends messages of. *)
Known(P, R, G, S, T, on) ==
  /\ T \subseteq S
  /\ T # {} => on /\ Range(P) \cap Range(G) = {}
  /\ \A r \in Range(R) : Unsubscribes(r) => r.topic \notin T
  /\ \A r \in Range(R) : LeavesAll(r) => T = {}
  /\ \A t \in S : \/ t \in T
                  \/ \E r \in Range(R) : Unsubscribes(r) /\ r.topic = t
                  \/ \E c \in Range(G) : Kind[c] = "subscribe" /\ t \in Names[c]

(* The server may send the messages M after the replies R. *)
Sendable(M, P, R, G2, S, on, I) ==
  /\ M \in Seq(Messages)
  /\ Range(M) # {} => on /\ Range(P) \subseteq AnswersIn(R)
  /\ \A r \in Range(M) : r.topic \in S
  /\ \A x \in Range(R), y \in Range(M) : ~LeavesAll(x) /\ (Unsubscribes(x) => y.topic # x.topic)
  /\ \A x, y : Before(M, x, y) => ~LeavesAll(x) /\ (Unsubscribes(x) => y.topic # x.topic)
  /\ \A r \in Range(M) : Unsubscribes(r) =>
       Range(G2) = {} /\ \E u \in I : Kind[u] = "unsubscribe" /\ r.topic \in Names[u]

(* The server sends messages that have callbacks, having read the commands that
   are no longer in G2. *)
LEMMA MessagesSent ==
  ASSUME NEW P, NEW V, NEW R, NEW G, NEW S, NEW T, NEW shut, NEW on, NEW I, NEW O,
         InStep(P, V, R, G, S, T, shut, on, I, O), ~shut,
         NEW M, NEW G2 \in Seq(I), NEW T2 \in SUBSET Topics,
         Part(G2, G), \A c \in Range(G) : c \in Range(G2) \/ Kind[c] # "regular",
         Sendable(M, P, R, G2, S, on, I), Known(P, R \o M, G2, S, T2, on)
  PROVE  InStep(P, V, R \o M, G2, S, T2, shut, on, I, O)
<1>0. I \in SUBSET Commands /\ R \in Seq(Replies(I)) /\ Older(O, I)
  BY Zenon DEF InStep, Typed
<1>1. /\ R \o M \in Seq(Replies(I)) /\ Range(M) \subseteq Messages
      /\ Range(R \o M) = Range(R) \cup Range(M)
      /\ \A x, y : Before(R \o M, x, y) <=>
           Before(R, x, y) \/ Before(M, x, y) \/ (x \in Range(R) /\ y \in Range(M))
  <2>1. M \in Seq(Messages) /\ Messages \subseteq Replies(I)
    BY Zenon DEF Sendable, Replies
  <2>2. M \in Seq(Replies(I))
    BY Zenon, <2>1, SeqWider
  <2>3. Range(M) \subseteq Messages
    BY <2>1 DEF Range
  <2>4. QED
    BY Zenon, <1>0, <2>2, <2>3, ConcatParts
<1>2. \A r \in Range(M) : r \in Messages /\ r.to = None /\ r \notin Closing
  BY Zenon, <1>0, <1>1, ReplyShapes
<1>3. AnswersIn(R \o M) = AnswersIn(R)
  <2>1. None \notin Commands
    BY Zenon, AsyncAssumption
  <2>2. QED
    BY Zenon, <1>1, <1>2, <2>1 DEF AnswersIn
<1>4. Due(R \o M, G2) = Due(R, G)
  BY Zenon, <1>3 DEF Due, Part
<1>5. Typed(P, V, R \o M, G2, S, T2, I)
  BY Zenon, <1>1 DEF InStep, Typed
<1>6. InOrder(P, V, R \o M, G2, O)
  <2>1. Increasing(P, O) /\ Increasing(V, O) /\ Increasing(G2, O)
    BY Zenon DEF InStep, InOrder, Increasing, Part
  <2>2. ASSUME NEW x, NEW y, Before(R \o M, x, y) PROVE MayFollow(x, y, P, O)
    <3>0. None \notin Range(P)
      BY AsyncAssumption DEF InStep, Typed, Regulars, Range
    <3>1. CASE Before(R, x, y)
      BY Zenon, <3>1 DEF InStep, InOrder
    <3>2. CASE Before(M, x, y)
      <4>1. x \in Range(M) /\ y \in Range(M)
        BY Zenon, <3>2 DEF Before, Range
      <4>2. ~LeavesAll(x) /\ (Unsubscribes(x) => y.topic # x.topic)
        BY Zenon, <3>2 DEF Sendable
      <4>3. QED
        BY Zenon, <1>2, <3>0, <4>1, <4>2 DEF MayFollow
    <3>3. CASE x \in Range(R) /\ y \in Range(M)
      <4>1. ~LeavesAll(x) /\ (Unsubscribes(x) => y.topic # x.topic)
        BY Zenon, <3>3 DEF Sendable
      <4>2. x \notin Closing
        BY Zenon, <3>3 DEF InStep, Matched
      <4>3. QED
        BY Zenon, <1>2, <3>0, <3>3, <4>1, <4>2 DEF MayFollow
    <3>4. QED
      BY Zenon, <1>1, <2>2, <3>1, <3>2, <3>3
  <2>3. \A d, e : d \in Range(G2) => d \in Range(G)
    BY Zenon DEF Part
  <2>4. \A d \in AnswersIn(R \o M), e \in Range(G2) : <<d, e>> \in O
    BY Zenon, <1>3, <2>3 DEF InStep, InOrder
  <2>5. /\ \A c \in Due(R \o M, G2), d \in Owed(P, V) : <<d, c>> \in O => d \in Due(R \o M, G2)
        /\ \A c \in Due(R \o M, G2) \cap Range(V), d \in Range(P) : <<d, c>> \in O
    BY Zenon, <1>4 DEF InStep, InOrder
  <2>6. \A c \in Range(G2), d \in Range(P) : Kind[c] # "regular" => <<d, c>> \in O
    BY Zenon, <2>3 DEF InStep, InOrder
  <2>7. \A c, d \in Range(G2) : Kind[c] = "unsubscribe" /\ Names[c] # {} => <<c, d>> \notin O
    BY Zenon, <2>3 DEF InStep, InOrder
  <2>8. QED
    BY Zenon, <2>1, <2>2, <2>4, <2>5, <2>6, <2>7 DEF InOrder
<1>7. Matched(P, V, R \o M, G2, shut, on)
  <2>1. Range(R \o M) \cap Closing = {}
    BY Zenon, <1>1, <1>2 DEF InStep, Matched
  <2>2. QED
    BY Zenon, <1>4, <2>1 DEF InStep, Matched
<1>8. Topical(P, R \o M, G2, S, T2, shut, on, I)
  <2>1. ASSUME NEW r \in Range(R \o M) \cap Messages
        PROVE  r.topic \in S /\ on /\ Range(P) \subseteq AnswersIn(R \o M)
    <3>1. CASE r \in Range(R)
      BY Zenon, <1>3, <2>1, <3>1 DEF InStep, Topical
    <3>2. CASE r \in Range(M)
      BY Zenon, <1>3, <3>2 DEF Sendable
    <3>3. QED
      BY Zenon, <1>1, <2>1, <3>1, <3>2
  <2>2. ASSUME NEW r \in Range(R \o M), Unsubscribes(r)
        PROVE  Range(G2) = {} /\ \E u \in I : Kind[u] = "unsubscribe" /\ r.topic \in Names[u]
    <3>1. CASE r \in Range(R)
      BY Zenon, <2>2, <3>1 DEF InStep, Topical, Part
    <3>2. CASE r \in Range(M)
      BY Zenon, <2>2, <3>2 DEF Sendable
    <3>3. QED
      BY Zenon, <1>1, <2>2, <3>1, <3>2
  <2>3. \A c \in Range(G2) : Kind[c] # "regular" => on /\ Names[c] \subseteq S
    BY Zenon DEF InStep, Topical, Part
  <2>4. QED
    BY Zenon, <2>1, <2>2, <2>3 DEF Topical, Known
<1>9. QED
  BY Zenon, <1>0, <1>5, <1>6, <1>7, <1>8 DEF InStep

(* The server sends a message of a topic in T. *)
LEMMA Spoken ==
  ASSUME NEW P, NEW V, NEW R, NEW G, NEW S, NEW T, NEW shut, NEW on, NEW I, NEW O,
         InStep(P, V, R, G, S, T, shut, on, I, O), ~shut, NEW t \in T
  PROVE  InStep(P, V, R \o <<Message("message", t, 0)>>, G, S, T, shut, on, I, O)
<1> DEFINE m == Message("message", t, 0)
<1>1. /\ T \in SUBSET Topics /\ G \in Seq(I) /\ I \in SUBSET Commands /\ R \in Seq(Replies(I))
      /\ Known(P, R, G, S, T, on)
  BY Zenon DEF InStep, Typed, Topical, Known
<1>2. m \in Messages /\ m.topic = t /\ m.what = "message"
  BY SMT, <1>1 DEF Messages, Message
<1>3. ~Unsubscribes(m)
  BY SMT, <1>2 DEF Unsubscribes
<1> HIDE DEF m
<1>4. <<m>> \in Seq(Messages) /\ Range(<<m>>) = {m} /\ \A x, y : ~Before(<<m>>, x, y)
  BY <1>2 DEF Range, Before
<1>5. Range(R \o <<m>>) = Range(R) \cup {m}
  <2>1. <<m>> \in Seq(Replies(I))
    BY Zenon, <1>4, SeqWider DEF Replies
  <2>2. QED
    BY Zenon, <1>1, <1>4, <2>1, ConcatParts
<1>6. Sendable(<<m>>, P, R, G, S, on, I)
  <2>1. on /\ Range(P) \subseteq AnswersIn(R)
    BY Zenon, <1>1 DEF InStep, Matched, Due, Owed, Known
  <2>2. \A x \in Range(R) : ~LeavesAll(x) /\ (Unsubscribes(x) => t # x.topic)
    BY Zenon, <1>1 DEF Known
  <2>3. QED
    BY Zenon, <1>1, <1>2, <1>3, <1>4, <2>1, <2>2 DEF Sendable, Known
<1>7. Known(P, R \o <<m>>, G, S, T, on)
  BY Zenon, <1>1, <1>3, <1>5 DEF Known, LeavesAll
<1>8. Part(G, G)
  BY Zenon DEF Part
<1>9. InStep(P, V, R \o <<m>>, G, S, T, shut, on, I, O)
  BY Zenon, <1>1, <1>6, <1>7, <1>8, MessagesSent
<1>10. QED
  BY Zenon, <1>9 DEF m

(* The next command that the server reads. *)
Oldest(P, R, G, S, on, I, O) ==
  /\ Tail(G) \in Seq(I) /\ Part(Tail(G), G) /\ Range(Tail(G)) = Range(G) \ {Head(G)}
  /\ Head(G) \in Range(G) /\ Head(G) \in I
  /\ \A d \in Range(Tail(G)) : <<Head(G), d>> \in O
  /\ \A r \in Range(R) : ~Unsubscribes(r)
  /\ Kind[Head(G)] # "regular" =>
       on /\ Names[Head(G)] \subseteq S /\ Range(P) \subseteq AnswersIn(R) /\ Range(P) \cap Range(Tail(G)) = {}
  /\ Kind[Head(G)] = "unsubscribe" /\ Names[Head(G)] # {} => Range(Tail(G)) = {}

(* The first command on its way is older than all those behind it, and all that
   was due before it has been sent. *)
LEMMA OldestGoing ==
  ASSUME NEW P, NEW V, NEW R, NEW G, NEW S, NEW T, NEW shut, NEW on, NEW I, NEW O,
         InStep(P, V, R, G, S, T, shut, on, I, O), ~shut, G # <<>>
  PROVE  Oldest(P, R, G, S, on, I, O)
<1> DEFINE c == Head(G)
<1>1. G \in Seq(I) /\ Older(O, I) /\ Increasing(G, O)
  BY Zenon DEF InStep, Typed, InOrder
<1>2. Tail(G) \in Seq(I) /\ c \in Range(G) /\ Range(Tail(G)) = Range(G) \ {c} /\ Part(Tail(G), G)
  BY Zenon, <1>1, TailOfOrdered
<1>3. c \in I /\ \A d \in Range(Tail(G)) : <<c, d>> \in O
  BY Zenon, <1>1, TailParts DEF Increasing
<1>4. \A r \in Range(R) : ~Unsubscribes(r)
  BY Zenon, <1>2 DEF InStep, Topical
<1>5. ASSUME Kind[c] # "regular"
      PROVE  on /\ Names[c] \subseteq S /\ Range(P) \subseteq AnswersIn(R) /\ Range(P) \cap Range(Tail(G)) = {}
  <2>1. on /\ Names[c] \subseteq S
    BY Zenon, <1>2, <1>5 DEF InStep, Topical
  <2>2. \A d \in Range(P) : <<d, c>> \in O
    BY Zenon, <1>2, <1>5 DEF InStep, InOrder
  <2>3. Range(P) \cap Range(Tail(G)) = {}
    BY Zenon, <1>1, <1>3, <2>2, OrderParts
  <2>4. \A d \in Range(P) : d \in Due(R, G)
    BY Zenon DEF InStep, Matched, Owed
  <2>5. \A d \in Range(P) : d \in AnswersIn(R)
    BY Zenon, <1>2, <1>5, <2>3, <2>4 DEF Due
  <2>6. QED
    BY Zenon, <2>1, <2>3, <2>5
<1>6. ASSUME Kind[c] = "unsubscribe", Names[c] # {} PROVE Range(Tail(G)) = {}
  BY Zenon, <1>2, <1>3, <1>6 DEF InStep, InOrder
<1>7. QED
  BY Zenon, <1>2, <1>3, <1>4, <1>5, <1>6 DEF Oldest

(* The answer a to a regular command. *)
IsAnswer(a, c) == Kind[c] = "regular" /\ (a = Data(c) \/ a = Error(c))

(* The server answers a regular command. *)
LEMMA RegularAnswered ==
  ASSUME NEW P, NEW V, NEW R, NEW G, NEW S, NEW T, NEW shut, NEW on, NEW I, NEW O,
         InStep(P, V, R, G, S, T, shut, on, I, O), ~shut, G # <<>>, NEW a, IsAnswer(a, Head(G))
  PROVE  InStep(P, V, R \o <<a>>, Tail(G), S, T, shut, on, I, O)
<1> DEFINE c == Head(G)
           R2 == R \o <<a>>
<1>0. Oldest(P, R, G, S, on, I, O)
  BY SMT, OldestGoing
<1>1. I \in SUBSET Commands /\ R \in Seq(Replies(I)) /\ Older(O, I)
  BY Zenon DEF InStep, Typed
<1>2. /\ c \in Range(G) /\ c \in I /\ Range(Tail(G)) = Range(G) \ {c} /\ Part(Tail(G), G)
      /\ Tail(G) \in Seq(I) /\ \A d \in Range(Tail(G)) : <<c, d>> \in O
      /\ \A r \in Range(R) : ~Unsubscribes(r)
  BY Zenon, <1>0 DEF Oldest
<1>3. a \in Answered(I) /\ a.to = c
  <2>1. a.to = c
    BY SMT DEF IsAnswer, Data, Error
  <2>2. QED
    BY Zenon, <1>2, <2>1 DEF IsAnswer, Answered, Regulars
<1>4. a \notin Messages /\ a \notin Closing /\ ~Unsubscribes(a) /\ c # None
  BY Zenon, <1>1, <1>3, ReplyShapes DEF Unsubscribes
<1>5. /\ R2 \in Seq(Replies(I)) /\ Range(R2) = Range(R) \cup {a}
      /\ \A x, y : Before(R2, x, y) <=> Before(R, x, y) \/ (x \in Range(R) /\ y \in {a})
  <2>1. a \in Replies(I)
    BY Zenon, <1>3 DEF Replies
  <2>2. <<a>> \in Seq(Replies(I)) /\ Range(<<a>>) = {a} /\ \A x, y : ~Before(<<a>>, x, y)
    BY <2>1 DEF Range, Before
  <2>3. /\ R \o <<a>> \in Seq(Replies(I))
        /\ Range(R \o <<a>>) = Range(R) \cup Range(<<a>>)
        /\ \A x, y : Before(R \o <<a>>, x, y) <=>
             Before(R, x, y) \/ Before(<<a>>, x, y) \/ (x \in Range(R) /\ y \in Range(<<a>>))
    BY Zenon, <1>1, <2>2, ConcatParts
  <2>4. QED
    BY Zenon, <2>2, <2>3
<1> HIDE DEF R2
<1>6. \A d : d \in AnswersIn(R2) <=> d \in AnswersIn(R) \/ d = c
  <2>1. c \in Commands
    BY Zenon, <1>1, <1>2
  <2>2. QED
    BY Zenon, <1>3, <1>5, <2>1 DEF AnswersIn
<1>7. Due(R2, Tail(G)) = Due(R, G)
  BY Zenon, <1>2, <1>6 DEF Due, IsAnswer
<1>8. c \notin AnswersIn(R)
  <2>1. SUFFICES ASSUME c \in AnswersIn(R) PROVE FALSE
    BY Zenon
  <2>2. <<c, c>> \in O
    BY Zenon, <1>2, <2>1 DEF InStep, InOrder
  <2>3. QED
    BY Zenon, <1>1, <2>2, OrderParts
<1>9. Typed(P, V, R2, Tail(G), S, T, I)
  BY Zenon, <1>2, <1>5 DEF InStep, Typed
<1>10. InOrder(P, V, R2, Tail(G), O)
  <2>1. Increasing(P, O) /\ Increasing(V, O) /\ Increasing(Tail(G), O)
    BY Zenon, <1>2 DEF InStep, InOrder, Increasing, Part
  <2>2. ASSUME NEW x, NEW y, Before(R2, x, y) PROVE MayFollow(x, y, P, O)
    <3>1. CASE Before(R, x, y)
      BY Zenon, <3>1 DEF InStep, InOrder
    <3>2. CASE x \in Range(R) /\ y \in {a}
      <4>1. x \notin Closing
        BY Zenon, <3>2 DEF InStep, Matched
      <4>2. ASSUME x.to # None PROVE <<x.to, c>> \in O
        <5>1. x.to \in AnswersIn(R)
          <6>1. x \in Replies(I)
            BY <1>1, <3>2 DEF Range
          <6>2. x.to \in Commands
            BY Zenon, <1>1, <4>2, <6>1, ReplyShapes DEF Replies, Regulars
          <6>3. QED
            BY Zenon, <3>2, <6>2 DEF AnswersIn
        <5>2. QED
          BY Zenon, <1>2, <5>1 DEF InStep, InOrder
      <4>3. x \in Messages => c \notin Range(P)
        BY Zenon, <1>8, <3>2 DEF InStep, Topical
      <4>4. y = a
        BY Zenon, <3>2
      <4>5. QED
        BY Zenon, <1>2, <1>3, <1>4, <3>2, <4>1, <4>2, <4>3, <4>4 DEF MayFollow, LeavesAll
    <3>3. QED
      BY Zenon, <1>5, <2>2, <3>1, <3>2
  <2>3. \A d \in AnswersIn(R2), e \in Range(Tail(G)) : <<d, e>> \in O
    BY Zenon, <1>2, <1>6 DEF InStep, InOrder
  <2>4. /\ \A d \in Due(R2, Tail(G)), e \in Owed(P, V) : <<e, d>> \in O => e \in Due(R2, Tail(G))
        /\ \A d \in Due(R2, Tail(G)) \cap Range(V), e \in Range(P) : <<e, d>> \in O
    BY Zenon, <1>7 DEF InStep, InOrder
  <2>5. \A d \in Range(Tail(G)), e \in Range(P) : Kind[d] # "regular" => <<e, d>> \in O
    BY Zenon, <1>2 DEF InStep, InOrder
  <2>6. \A d, e \in Range(Tail(G)) : Kind[d] = "unsubscribe" /\ Names[d] # {} => <<d, e>> \notin O
    BY Zenon, <1>2 DEF InStep, InOrder
  <2>7. QED
    BY Zenon, <2>1, <2>2, <2>3, <2>4, <2>5, <2>6 DEF InOrder
<1>11. Matched(P, V, R2, Tail(G), shut, on)
  <2>1. Range(R2) \cap Closing = {}
    BY Zenon, <1>4, <1>5 DEF InStep, Matched
  <2>2. QED
    BY Zenon, <1>7, <2>1 DEF InStep, Matched
<1>12. Topical(P, R2, Tail(G), S, T, shut, on, I)
  <2>1. ASSUME NEW r \in Range(R2) \cap Messages
        PROVE  r.topic \in S /\ on /\ Range(P) \subseteq AnswersIn(R2)
    BY Zenon, <1>4, <1>5, <1>6, <2>1 DEF InStep, Topical
  <2>2. \A r \in Range(R2) : ~Unsubscribes(r) /\ ~LeavesAll(r)
    BY Zenon, <1>2, <1>4, <1>5 DEF LeavesAll
  <2>3. \A d \in Range(Tail(G)) : Kind[d] # "regular" => on /\ Names[d] \subseteq S
    BY Zenon, <1>2 DEF InStep, Topical
  <2>4. T \subseteq S /\ (T # {} => on /\ Range(P) \cap Range(Tail(G)) = {})
    BY Zenon, <1>2 DEF InStep, Topical
  <2>5. ASSUME NEW t \in S
        PROVE  \/ t \in T
               \/ \E d \in Range(Tail(G)) : Kind[d] = "subscribe" /\ t \in Names[d]
    <3>1. \/ t \in T
          \/ \E d \in Range(G) : Kind[d] = "subscribe" /\ t \in Names[d]
      BY Zenon, <1>2, <2>5 DEF InStep, Topical
    <3>2. \A d \in Range(G) : Kind[d] = "subscribe" => d \in Range(Tail(G))
      BY Zenon, <1>2 DEF IsAnswer
    <3>3. QED
      BY Zenon, <3>1, <3>2
  <2>6. QED
    BY Zenon, <2>1, <2>2, <2>3, <2>4, <2>5 DEF Topical
<1>13. QED
  BY Zenon, <1>1, <1>9, <1>10, <1>11, <1>12 DEF InStep, R2

(* What the proofs use of cardinalities. *)
Counting ==
  /\ Cardinality({}) = 0 /\ \A x : Cardinality({x}) = 1
  /\ \A X : IsFiniteSet(X) => Cardinality(X) \in Nat /\ (Cardinality(X) = 0 => X = {})
  /\ \A X, Y : IsFiniteSet(X) /\ Y \subseteq X => IsFiniteSet(Y)

(* The messages M about the topics N, one for each. *)
About(M, w, N) ==
  /\ M \in Seq(Messages)
  /\ \A r \in Range(M) : r.what = w /\ r.topic \in N
  /\ \A t \in N : \E r \in Range(M) : r.topic = t
  /\ \A x, y : Before(M, x, y) => y.topic # x.topic

(* Confirmations sent in the order of a bijection name every topic once. *)
LEMMA MessagesAbout ==
  ASSUME NEW N \in SUBSET Topics, NEW k \in Nat, NEW f \in Bijection(1 .. k, N),
         NEW M, DOMAIN M = 1 .. k, M = [i \in 1 .. k |-> M[i]], NEW w,
         \A i \in 1 .. k : M[i] \in Messages /\ M[i].what = w /\ M[i].topic = f[i]
  PROVE  About(M, w, N)
<1>1. /\ f \in [1 .. k -> N] /\ \A i, j \in 1 .. k : f[i] = f[j] => i = j
      /\ \A t \in N : \E i \in 1 .. k : f[i] = t
  BY SMT DEF Bijection, Injection, Surjection, IsInjective
<1>2. M \in Seq(Messages)
  BY SMT
<1>3. \A i, j \in 1 .. k : i < j => i # j
  BY SMT
<1>4. \A r : r \in Range(M) <=> \E i \in 1 .. k : r = M[i]
  BY Zenon DEF Range
<1>5. ASSUME NEW r \in Range(M) PROVE r.what = w /\ r.topic \in N
  <2>1. PICK i \in 1 .. k : r = M[i]
    BY Zenon, <1>4, <1>5
  <2>2. f[i] \in N
    BY Zenon, <1>1
  <2>3. QED
    BY Zenon, <2>1, <2>2
<1>6. ASSUME NEW t \in N PROVE \E r \in Range(M) : r.topic = t
  BY ZenonT(60), <1>1, <1>4
<1>7. ASSUME NEW x, NEW y, Before(M, x, y) PROVE y.topic # x.topic
  <2>1. PICK i, j \in 1 .. k : i < j /\ M[i] = x /\ M[j] = y
    BY Zenon, <1>7 DEF Before
  <2>2. x.topic = f[i] /\ y.topic = f[j] /\ i # j
    BY Zenon, <1>3, <2>1
  <2>3. QED
    BY ZenonT(60), <1>1, <2>2
<1>8. QED
  BY Zenon, <1>2, <1>5, <1>6, <1>7 DEF About

(* The replies on their way after the server has sent messages. *)
LEMMA MessagesAdded ==
  ASSUME NEW I, NEW R \in Seq(Replies(I)), NEW M \in Seq(Messages)
  PROVE  Range(R \o M) = Range(R) \cup Range(M)
<1>1. M \in Seq(Replies(I))
  BY Zenon, SeqWider DEF Replies
<1>2. QED
  BY Zenon, <1>1, ConcatParts

(* The confirmations M of a subscription. *)
LEMMA Subscribed ==
  ASSUME NEW P, NEW V, NEW R, NEW G, NEW S, NEW T, NEW shut, NEW on, NEW I, NEW O,
         InStep(P, V, R, G, S, T, shut, on, I, O), ~shut, G # <<>>, Kind[Head(G)] = "subscribe",
         NEW M, About(M, "subscribe", Names[Head(G)])
  PROVE  InStep(P, V, R \o M, Tail(G), S, T \cup Names[Head(G)], shut, on, I, O)
<1> DEFINE c == Head(G)
           T2 == T \cup Names[Head(G)]
<1>0. Oldest(P, R, G, S, on, I, O)
  BY SMT, OldestGoing
<1>1. /\ Tail(G) \in Seq(I) /\ Part(Tail(G), G) /\ Range(Tail(G)) = Range(G) \ {c}
      /\ \A r \in Range(R) : ~Unsubscribes(r) /\ ~LeavesAll(r)
      /\ on /\ Names[c] \subseteq S /\ Range(P) \subseteq AnswersIn(R) /\ Range(P) \cap Range(Tail(G)) = {}
  <2>1. Kind[c] # "regular"
    OBVIOUS
  <2>2. QED
    BY Zenon, <1>0, <2>1 DEF Oldest, LeavesAll
<1>2. S \in SUBSET Topics /\ T \in SUBSET Topics /\ R \in Seq(Replies(I)) /\ Known(P, R, G, S, T, on)
  BY Zenon DEF InStep, Typed, Topical, Known
<1>3. \A r \in Range(M) : ~Unsubscribes(r) /\ ~LeavesAll(r) /\ r.topic \in Names[c]
  <2>1. "subscribe" # "unsubscribe"
    OBVIOUS
  <2>2. QED
    BY Zenon, <2>1 DEF About, Unsubscribes, LeavesAll
<1>4. M \in Seq(Messages) /\ Range(R \o M) = Range(R) \cup Range(M)
  BY Zenon, <1>2, MessagesAdded DEF About
<1>5. \A x, y : Before(M, x, y) => x \in Range(M)
  BY Zenon DEF Before, Range
<1>6. Sendable(M, P, R, Tail(G), S, on, I)
  BY Zenon, <1>1, <1>3, <1>4, <1>5 DEF Sendable
<1>7. Known(P, R \o M, Tail(G), S, T2, on)
  <2>1. \A r \in Range(R \o M) : ~Unsubscribes(r) /\ ~LeavesAll(r)
    BY Zenon, <1>1, <1>3, <1>4
  <2>2. T2 \subseteq S
    BY Zenon, <1>1, <1>2 DEF Known
  <2>3. ASSUME NEW t \in S PROVE t \in T2 \/ \E d \in Range(Tail(G)) : Kind[d] = "subscribe" /\ t \in Names[d]
    <3>1. t \in T \/ \E d \in Range(G) : Kind[d] = "subscribe" /\ t \in Names[d]
      BY Zenon, <1>1, <1>2 DEF Known
    <3>2. QED
      BY Zenon, <1>1, <3>1
  <2> HIDE DEF T2
  <2>4. QED
    BY Zenon, <1>1, <2>1, <2>2, <2>3 DEF Known
<1>8. T2 \in SUBSET Topics /\ \A d \in Range(G) : d \in Range(Tail(G)) \/ Kind[d] # "regular"
  <2>1. Kind[c] # "regular"
    OBVIOUS
  <2>2. QED
    BY Zenon, <1>1, <1>2, <2>1
<1> HIDE DEF T2
<1>9. InStep(P, V, R \o M, Tail(G), S, T2, shut, on, I, O)
  BY Zenon, <1>1, <1>6, <1>7, <1>8, MessagesSent
<1>10. QED
  BY Zenon, <1>9 DEF T2

(* The confirmations M of an unsubscription.  Each one counts the topics that
   are left: only the last can count none. *)
LEMMA Unsubscribed ==
  ASSUME NEW P, NEW V, NEW R, NEW G, NEW S, NEW T, NEW shut, NEW on, NEW I, NEW O,
         InStep(P, V, R, G, S, T, shut, on, I, O), ~shut, G # <<>>, Kind[Head(G)] = "unsubscribe",
         NEW M, About(M, "unsubscribe", Names[Head(G)]),
         \A r \in Range(M) : LeavesAll(r) => T \subseteq Names[Head(G)],
         \A x, y : Before(M, x, y) /\ LeavesAll(x) => y.topic \notin T
  PROVE  InStep(P, V, R \o M, Tail(G), S, T \ Names[Head(G)], shut, on, I, O)
<1> DEFINE c == Head(G)
           T2 == T \ Names[Head(G)]
<1>0. Oldest(P, R, G, S, on, I, O)
  BY SMT, OldestGoing
<1>1. /\ Tail(G) \in Seq(I) /\ Part(Tail(G), G) /\ Range(Tail(G)) = Range(G) \ {c} /\ c \in I
      /\ \A r \in Range(R) : ~Unsubscribes(r) /\ ~LeavesAll(r)
      /\ on /\ Names[c] \subseteq S /\ Range(P) \subseteq AnswersIn(R) /\ Range(P) \cap Range(Tail(G)) = {}
      /\ Names[c] # {} => Range(Tail(G)) = {}
  <2>1. Kind[c] # "regular"
    OBVIOUS
  <2>2. QED
    BY Zenon, <1>0, <2>1 DEF Oldest, LeavesAll
<1>2. S \in SUBSET Topics /\ T \in SUBSET Topics /\ R \in Seq(Replies(I)) /\ Known(P, R, G, S, T, on)
  BY Zenon DEF InStep, Typed, Topical, Known
<1>3. \A r \in Range(M) : Unsubscribes(r) /\ r.topic \in Names[c] /\ Range(Tail(G)) = {}
  <2>1. \A r \in Range(M) : r \in Messages
    BY SMT DEF About, Range
  <2>2. QED
    BY Zenon, <1>1, <2>1 DEF About, Unsubscribes
<1>4. M \in Seq(Messages) /\ Range(R \o M) = Range(R) \cup Range(M)
  BY Zenon, <1>2, MessagesAdded DEF About
<1>5. \A x, y : Before(M, x, y) => x \in Range(M) /\ y \in Range(M)
  BY Zenon DEF Before, Range
<1>6. \A t \in S : t \in T \/ \E d \in Range(Tail(G)) : Kind[d] = "subscribe" /\ t \in Names[d]
  <2>1. ASSUME NEW t \in S PROVE t \in T \/ \E d \in Range(G) : Kind[d] = "subscribe" /\ t \in Names[d]
    BY Zenon, <1>1, <1>2, <2>1 DEF Known
  <2>2. \A d \in Range(G) : Kind[d] = "subscribe" => d \in Range(Tail(G))
    <3>1. Kind[c] # "subscribe"
      OBVIOUS
    <3>2. QED
      BY Zenon, <1>1, <3>1
  <2>3. QED
    BY Zenon, <2>1, <2>2
<1>7. \A x, y : Before(M, x, y) => ~LeavesAll(x) /\ (Unsubscribes(x) => y.topic # x.topic)
  <2>1. \A y \in Range(M) : y.topic \in T
    BY Zenon, <1>1, <1>3, <1>6
  <2>2. QED
    BY Zenon, <1>5, <2>1 DEF About
<1>8. Sendable(M, P, R, Tail(G), S, on, I)
  <2>1. \A r \in Range(M) : \E u \in I : Kind[u] = "unsubscribe" /\ r.topic \in Names[u]
    BY Zenon, <1>1, <1>3
  <2>2. QED
    BY Zenon, <1>1, <1>3, <1>4, <1>7, <2>1 DEF Sendable
<1>9. Known(P, R \o M, Tail(G), S, T2, on)
  <2>1. T2 \subseteq S /\ T2 \subseteq T
    BY Zenon, <1>1, <1>2 DEF Known
  <2>2. \A r \in Range(R \o M) : Unsubscribes(r) => r.topic \notin T2
    BY Zenon, <1>1, <1>3, <1>4
  <2>3. \A r \in Range(R \o M) : LeavesAll(r) => T2 = {}
    BY Zenon, <1>1, <1>4
  <2>4. ASSUME NEW t \in S
        PROVE  \/ t \in T2
               \/ \E r \in Range(R \o M) : Unsubscribes(r) /\ r.topic = t
               \/ \E d \in Range(Tail(G)) : Kind[d] = "subscribe" /\ t \in Names[d]
    <3>1. CASE t \in Names[c]
      BY Zenon, <1>3, <1>4, <3>1 DEF About
    <3>2. CASE t \notin Names[c]
      BY Zenon, <1>6, <3>2
    <3>3. QED
      BY Zenon, <3>1, <3>2
  <2> HIDE DEF T2
  <2>5. QED
    BY Zenon, <1>1, <2>1, <2>2, <2>3, <2>4 DEF Known
<1>10. T2 \in SUBSET Topics /\ \A d \in Range(G) : d \in Range(Tail(G)) \/ Kind[d] # "regular"
  <2>1. Kind[c] # "regular"
    OBVIOUS
  <2>2. QED
    BY Zenon, <1>1, <1>2, <2>1
<1> HIDE DEF T2
<1>11. InStep(P, V, R \o M, Tail(G), S, T2, shut, on, I, O)
  BY Zenon, <1>1, <1>8, <1>9, <1>10, MessagesSent
<1>12. QED
  BY Zenon, <1>11 DEF T2

(* The connection ends, and with it what was still to come after R. *)
LEMMA CutOff ==
  ASSUME NEW P, NEW V, NEW R, NEW U, NEW G, NEW S, NEW T, NEW shut, NEW on, NEW I, NEW O,
         R \in Seq(Replies(I)), U \in Seq(Replies(I)),
         InStep(P, V, R \o U, G, S, T, shut, on, I, O)
  PROVE  InStep(P, V, R, <<>>, S, T, TRUE, on, I, O)
<1>1. /\ Range(R \o U) = Range(R) \cup Range(U)
      /\ \A x, y : Before(R \o U, x, y) <=>
           Before(R, x, y) \/ Before(U, x, y) \/ (x \in Range(R) /\ y \in Range(U))
  BY Zenon, ConcatParts
<1>2. I \in SUBSET Commands /\ Older(O, I) /\ Range(<<>>) = {} /\ None \notin Commands
  BY Zenon, EmptyParts, AsyncAssumption DEF InStep, Typed
<1>3. AnswersIn(R) \subseteq AnswersIn(R \o U)
  BY Zenon, <1>1 DEF AnswersIn
<1>4. Due(R, <<>>) = AnswersIn(R) /\ AnswersIn(R) \subseteq Due(R \o U, G)
  BY Zenon, <1>2, <1>3 DEF Due
<1>5. \A x \in Range(R), y \in Range(U) : MayFollow(x, y, P, O)
  BY Zenon, <1>1 DEF InStep, InOrder
<1>6. Typed(P, V, R, <<>>, S, T, I)
  <2>1. <<>> \in Seq(I)
    OBVIOUS
  <2>2. QED
    BY Zenon, <2>1 DEF InStep, Typed
<1>7. InOrder(P, V, R, <<>>, O)
  <2>1. Increasing(P, O) /\ Increasing(V, O) /\ Increasing(<<>>, O)
    BY Zenon, EmptyParts DEF InStep, InOrder, Increasing
  <2>2. \A x, y : Before(R, x, y) => MayFollow(x, y, P, O)
    BY Zenon, <1>1 DEF InStep, InOrder
  <2>3. ASSUME NEW c \in AnswersIn(R), NEW d \in Owed(P, V), <<d, c>> \in O PROVE d \in AnswersIn(R)
    <3>1. <<c, d>> \notin O
      BY Zenon, <1>2, <2>3, OrderParts
    <3>2. d \in Due(R \o U, G)
      BY Zenon, <1>4, <2>3 DEF InStep, InOrder
    <3>3. d \notin Range(G)
      BY Zenon, <1>3, <3>1 DEF InStep, InOrder
    <3>4. PICK r \in Range(R \o U) : r.to = d
      BY Zenon, <3>2, <3>3 DEF Due, AnswersIn
    <3>5. c # None /\ d # None /\ d \in Commands
      <4>1. d \in I
        BY Zenon, <1>2, <2>3, OrderParts
      <4>2. c \in Commands
        BY Zenon DEF AnswersIn
      <4>3. QED
        BY Zenon, <1>2, <4>1, <4>2
    <3>6. PICK q \in Range(R) : q.to = c
      BY Zenon DEF AnswersIn
    <3>7. r \notin Range(U)
      BY Zenon, <1>5, <3>1, <3>4, <3>5, <3>6 DEF MayFollow
    <3>8. QED
      BY Zenon, <1>1, <3>4, <3>5, <3>7 DEF AnswersIn
  <2>4. \A c \in AnswersIn(R) \cap Range(V), d \in Range(P) : <<d, c>> \in O
    BY Zenon, <1>4 DEF InStep, InOrder
  <2>5. QED
    BY Zenon, <1>2, <1>4, <2>1, <2>2, <2>3, <2>4 DEF InOrder
<1>8. Matched(P, V, R, <<>>, TRUE, on)
  BY Zenon, <1>2, <1>4 DEF InStep, Matched
<1>9. Topical(P, R, <<>>, S, T, TRUE, on, I)
  <2>1. ASSUME NEW r \in Range(R) \cap Messages
        PROVE  r.topic \in S /\ on /\ Range(P) \subseteq AnswersIn(R)
    <3>1. r.topic \in S /\ on /\ Range(P) \subseteq AnswersIn(R \o U)
      BY Zenon, <1>1, <2>1 DEF InStep, Topical
    <3>2. ASSUME NEW d \in Range(P) PROVE d \in AnswersIn(R)
      <4>1. PICK q \in Range(R \o U) : q.to = d /\ d \in Commands
        BY Zenon, <3>1, <3>2 DEF AnswersIn
      <4>2. q \notin Range(U)
        BY Zenon, <1>5, <2>1, <3>2, <4>1 DEF MayFollow
      <4>3. QED
        BY Zenon, <1>1, <4>1, <4>2 DEF AnswersIn
    <3>3. QED
      BY Zenon, <3>1, <3>2
  <2>2. \A r \in Range(R) : Unsubscribes(r) => \E u \in I : Kind[u] = "unsubscribe" /\ r.topic \in Names[u]
    BY Zenon, <1>1 DEF InStep, Topical
  <2>3. QED
    BY Zenon, <1>2, <2>1, <2>2 DEF Topical
<1>10. QED
  BY Zenon, <1>2, <1>6, <1>7, <1>8, <1>9 DEF InStep

(* The last thing to come is an error that answers nothing, or nonsense. *)
LEMMA LastWords ==
  ASSUME NEW P, NEW V, NEW R, NEW S, NEW T, NEW on, NEW I, NEW O,
         InStep(P, V, R, <<>>, S, T, TRUE, on, I, O), Range(R) \cap Closing = {}, NEW e \in Closing
  PROVE  InStep(P, V, R \o <<e>>, <<>>, S, T, TRUE, on, I, O)
<1>1. I \in SUBSET Commands /\ Older(O, I) /\ R \in Seq(Replies(I)) /\ Range(<<>>) = {} /\ None \notin Commands
  BY Zenon, EmptyParts, AsyncAssumption DEF InStep, Typed
<1>2. e.to = None /\ e \notin Messages /\ ~Unsubscribes(e)
  BY Zenon, <1>1, ReplyShapes DEF Unsubscribes
<1>3. /\ R \o <<e>> \in Seq(Replies(I))
      /\ Range(R \o <<e>>) = Range(R) \cup {e}
      /\ \A x, y : Before(R \o <<e>>, x, y) <=> Before(R, x, y) \/ (x \in Range(R) /\ y \in {e})
  <2>1. e \in Replies(I)
    BY Zenon DEF Replies
  <2>2. <<e>> \in Seq(Replies(I)) /\ Range(<<e>>) = {e} /\ \A x, y : ~Before(<<e>>, x, y)
    BY <2>1 DEF Range, Before
  <2>3. /\ R \o <<e>> \in Seq(Replies(I))
        /\ Range(R \o <<e>>) = Range(R) \cup Range(<<e>>)
        /\ \A x, y : Before(R \o <<e>>, x, y) <=>
             Before(R, x, y) \/ Before(<<e>>, x, y) \/ (x \in Range(R) /\ y \in Range(<<e>>))
    BY Zenon, <1>1, <2>2, ConcatParts
  <2>4. QED
    BY Zenon, <2>2, <2>3
<1> DEFINE R2 == R \o <<e>>
<1> HIDE DEF R2
<1>4. AnswersIn(R2) = AnswersIn(R) /\ Due(R2, <<>>) = Due(R, <<>>)
  <2>1. AnswersIn(R2) = AnswersIn(R)
    BY Zenon, <1>1, <1>2, <1>3 DEF AnswersIn, R2
  <2>2. QED
    BY Zenon, <2>1 DEF Due
<1>5. Typed(P, V, R2, <<>>, S, T, I)
  BY Zenon, <1>3 DEF InStep, Typed, R2
<1>6. InOrder(P, V, R2, <<>>, O)
  <2>1. ASSUME NEW x, NEW y, Before(R2, x, y) PROVE MayFollow(x, y, P, O)
    <3>1. CASE Before(R, x, y)
      BY Zenon, <3>1 DEF InStep, InOrder
    <3>2. CASE x \in Range(R) /\ y \in {e}
      <4>1. None \notin Range(P)
        BY AsyncAssumption DEF InStep, Typed, Regulars, Range
      <4>2. y = e /\ x \notin Closing
        BY Zenon, <3>2
      <4>3. QED
        BY Zenon, <1>2, <3>2, <4>1, <4>2 DEF MayFollow
    <3>3. QED
      BY Zenon, <1>3, <2>1, <3>1, <3>2 DEF R2
  <2>2. QED
    BY Zenon, <1>4, <2>1 DEF InStep, InOrder
<1>7. Matched(P, V, R2, <<>>, TRUE, on)
  BY Zenon, <1>4 DEF InStep, Matched
<1>8. Topical(P, R2, <<>>, S, T, TRUE, on, I)
  BY Zenon, <1>2, <1>3, <1>4 DEF InStep, Topical, R2
<1>9. QED
  BY Zenon, <1>1, <1>5, <1>6, <1>7, <1>8 DEF InStep, R2

------------------------------------------------------------------------------
(* The types of the variables, whatever the program does. *)
Callbacks == Commands \cup {None}
AnyReply == {Data(c) : c \in Callbacks} \cup {Error(c) : c \in Callbacks} \cup Messages \cup {Garbage}
Contexts ==
  [status : {"none", "open", "freed", "unclean", "unexpected", "dangling"},
   flags : SUBSET {"SUBSCRIBED", "MONITORING", "CONNECTED", "DISCONNECTING", "FREEING"},
   cerr : BOOLEAN, err : BOOLEAN, attached : BOOLEAN, reading : BOOLEAN, writing : BOOLEAN,
   onConnect : BOOLEAN, onDisconnect : BOOLEAN,
   told : Seq({"connect", "disconnect"} \X BOOLEAN),
   replies : Seq(Callbacks), invalid : Seq(Callbacks), sub : [Topics -> Callbacks],
   obuf : Seq(Commands), input : Seq(AnyReply)]

TypeOK ==
  /\ ac \in Contexts /\ cb \in Callbacks \cup {"out"} /\ adapter \in Adapters
  /\ sock \in {"connecting", "up", "failed", "closed"}
  /\ toServer \in Seq(Commands) /\ toClient \in Seq(AnyReply)
  /\ srv \in [subs : SUBSET Topics, mon : BOOLEAN, sent : Nat]
  /\ issued \in SUBSET Commands /\ sloppy \in BOOLEAN

(* The contexts a and b do not differ in what the proofs are about. *)
SameLists(b, a) ==
  /\ b.replies = a.replies /\ b.invalid = a.invalid
  /\ b.sub = a.sub /\ b.obuf = a.obuf /\ b.input = a.input
  /\ "SUBSCRIBED" \in b.flags <=> "SUBSCRIBED" \in a.flags
  /\ "MONITORING" \in b.flags <=> "MONITORING" \in a.flags
SameQueues(b, a) == b.status = a.status /\ SameLists(b, a)

(* Two changes that keep the queues keep them together. *)
LEMMA Trans ==
  ASSUME NEW a, NEW b, NEW c, SameQueues(c, b), SameQueues(b, a)
  PROVE  SameQueues(c, a)
BY Zenon DEF SameQueues, SameLists

(* The hooks and the flags of the connection leave the queues alone. *)
LEMMA EventUpdates ==
  ASSUME NEW a \in Contexts
  PROVE  /\ AddRead(a) \in Contexts /\ SameQueues(AddRead(a), a)
         /\ AddWrite(a) \in Contexts /\ SameQueues(AddWrite(a), a)
         /\ DelWrite(a) \in Contexts /\ SameQueues(DelWrite(a), a)
         /\ CopyError(a) \in Contexts /\ SameQueues(CopyError(a), a)
         /\ [a EXCEPT !.cerr = TRUE] \in Contexts /\ SameQueues([a EXCEPT !.cerr = TRUE], a)
<1>1. AddRead(a) \in Contexts /\ SameQueues(AddRead(a), a)
  BY Zenon DEF Contexts, SameQueues, SameLists, AddRead
<1>2. AddWrite(a) \in Contexts /\ SameQueues(AddWrite(a), a)
  BY Zenon DEF Contexts, SameQueues, SameLists, AddWrite
<1>3. DelWrite(a) \in Contexts /\ SameQueues(DelWrite(a), a)
  BY Zenon DEF Contexts, SameQueues, SameLists, DelWrite
<1>4. CopyError(a) \in Contexts /\ SameQueues(CopyError(a), a)
  BY Zenon DEF Contexts, SameQueues, SameLists, CopyError
<1>5. [a EXCEPT !.cerr = TRUE] \in Contexts /\ SameQueues([a EXCEPT !.cerr = TRUE], a)
  BY Zenon DEF Contexts, SameQueues, SameLists
<1>6. QED
  BY Zenon, <1>1, <1>2, <1>3, <1>4, <1>5

(* Setting a flag of the connection keeps the queues. *)
LEMMA FlagUpdates ==
  ASSUME NEW a \in Contexts, NEW x \in {"CONNECTED", "DISCONNECTING", "FREEING"}
  PROVE  [a EXCEPT !.flags = @ \cup {x}] \in Contexts /\ SameQueues([a EXCEPT !.flags = @ \cup {x}], a)
BY Zenon DEF Contexts, SameQueues, SameLists

(* Calling onConnect or onDisconnect keeps the queues. *)
LEMMA ToldUpdates ==
  ASSUME NEW a \in Contexts, NEW w \in {"connect", "disconnect"}, NEW ok \in BOOLEAN
  PROVE  Told(a, w, ok) \in Contexts /\ SameQueues(Told(a, w, ok), a)
<1>1. a.told \in Seq({"connect", "disconnect"} \X BOOLEAN) /\ <<w, ok>> \in {"connect", "disconnect"} \X BOOLEAN
  BY Zenon DEF Contexts
<1>2. Append(a.told, <<w, ok>>) \in Seq({"connect", "disconnect"} \X BOOLEAN)
  BY Zenon, <1>1, AppendParts
<1>3. QED
  BY Zenon, <1>2 DEF Contexts, SameQueues, SameLists, Told

(* __redisAsyncCommand, field by field. *)
Accepts(a, c, b) ==
  /\ b \in Contexts
  /\ b.status = a.status /\ b.input = a.input /\ b.obuf = Append(a.obuf, c)
  /\ b.flags = a.flags \cup {x \in {"SUBSCRIBED"} : Kind[c] = "subscribe"}
                       \cup {x \in {"MONITORING"} : Kind[c] = "monitor"}
  /\ b.sub = IF Kind[c] = "subscribe" THEN [t \in Topics |-> IF t \in Names[c] THEN c ELSE a.sub[t]]
             ELSE a.sub
  /\ b.invalid = IF Kind[c] = "regular" /\ "SUBSCRIBED" \in a.flags THEN Append(a.invalid, c) ELSE a.invalid
  /\ b.replies = IF Kind[c] = "monitor" \/ (Kind[c] = "regular" /\ "SUBSCRIBED" \notin a.flags)
                 THEN Append(a.replies, c) ELSE a.replies

(* __redisAsyncCommand puts the callback into one queue or the dictionary of
   topics, and the command into the output buffer. *)
LEMMA CommandFields ==
  ASSUME NEW a \in Contexts, NEW c \in Commands, ~Refuses(a, c), NEW b, b = AsyncCommand(a, c)
  PROVE  Accepts(a, c, b)
<1> DEFINE r == Register(a, c)
           q == AppendCommand(r, c)
<1>1. c \in Callbacks /\ Kind[c] \in Kinds /\ a.replies \in Seq(Callbacks) /\ a.invalid \in Seq(Callbacks)
      /\ a.obuf \in Seq(Commands) /\ a.sub \in [Topics -> Callbacks]
      /\ a.flags \in SUBSET {"SUBSCRIBED", "MONITORING", "CONNECTED", "DISCONNECTING", "FREEING"}
  BY Zenon, AsyncAssumption DEF Callbacks, Contexts
<1>2. Append(a.replies, c) \in Seq(Callbacks) /\ Append(a.invalid, c) \in Seq(Callbacks) /\ Append(a.obuf, c) \in Seq(Commands)
  BY Zenon, <1>1, AppendParts
<1>3. [t \in Topics |-> IF t \in Names[c] THEN c ELSE a.sub[t]] \in [Topics -> Callbacks]
  BY Zenon, <1>1
<1>4. /\ r \in Contexts
      /\ r.status = a.status /\ r.input = a.input /\ r.obuf = a.obuf
      /\ r.flags = a.flags \cup {x \in {"SUBSCRIBED"} : Kind[c] = "subscribe"}
                           \cup {x \in {"MONITORING"} : Kind[c] = "monitor"}
      /\ r.sub = IF Kind[c] = "subscribe" THEN [t \in Topics |-> IF t \in Names[c] THEN c ELSE a.sub[t]]
                 ELSE a.sub
      /\ r.invalid = IF Kind[c] = "regular" /\ "SUBSCRIBED" \in a.flags THEN Append(a.invalid, c) ELSE a.invalid
      /\ r.replies = IF Kind[c] = "monitor" \/ (Kind[c] = "regular" /\ "SUBSCRIBED" \notin a.flags)
                     THEN Append(a.replies, c) ELSE a.replies
  <2>1. CASE Kind[c] = "subscribe"
    <3>1. r = [a EXCEPT !.flags = @ \cup {"SUBSCRIBED"},
                        !.sub = [t \in Topics |-> IF t \in Names[c] THEN c ELSE @[t]]]
      BY Zenon, <2>1 DEF Register
    <3>2. Kind[c] # "regular" /\ Kind[c] # "monitor"
      BY <2>1
    <3>3. r.flags = a.flags \cup {"SUBSCRIBED"}
      BY Zenon, <3>1 DEF Contexts
    <3>4. a.flags \cup {"SUBSCRIBED"} \in SUBSET {"SUBSCRIBED", "MONITORING", "CONNECTED", "DISCONNECTING", "FREEING"}
      BY Zenon, <1>1
    <3>5. r \in Contexts
      BY ZenonT(60), <1>1, <1>3, <3>1, <3>4 DEF Contexts
    <3> HIDE DEF r
    <3>6. r.flags = a.flags \cup {x \in {"SUBSCRIBED"} : Kind[c] = "subscribe"}
                            \cup {x \in {"MONITORING"} : Kind[c] = "monitor"}
      BY Zenon, <2>1, <3>2, <3>3
    <3>7. QED
      BY Zenon, <2>1, <3>1, <3>2, <3>5, <3>6 DEF Contexts
  <2>2. CASE Kind[c] = "unsubscribe"
    <3>1. Kind[c] # "regular" /\ Kind[c] # "monitor" /\ Kind[c] # "subscribe"
      BY <2>2
    <3>2. r = a
      BY Zenon, <2>2, <3>1 DEF Register
    <3> HIDE DEF r
    <3>3. r.flags = a.flags \cup {x \in {"SUBSCRIBED"} : Kind[c] = "subscribe"}
                            \cup {x \in {"MONITORING"} : Kind[c] = "monitor"}
      BY Zenon, <3>1, <3>2
    <3>4. QED
      BY Zenon, <3>1, <3>2, <3>3
  <2>3. CASE Kind[c] = "monitor"
    <3>1. Kind[c] # "regular" /\ Kind[c] # "unsubscribe" /\ Kind[c] # "subscribe"
      BY <2>3
    <3>2. r = [a EXCEPT !.flags = @ \cup {"MONITORING"}, !.replies = Append(@, c)]
      BY Zenon, <2>3, <3>1 DEF Register, PushCallback
    <3>3. r.flags = a.flags \cup {"MONITORING"}
      BY Zenon, <3>2 DEF Contexts
    <3>4. a.flags \cup {"MONITORING"} \in SUBSET {"SUBSCRIBED", "MONITORING", "CONNECTED", "DISCONNECTING", "FREEING"}
      BY Zenon, <1>1
    <3>5. r \in Contexts
      BY ZenonT(60), <1>1, <1>2, <3>2, <3>4 DEF Contexts
    <3> HIDE DEF r
    <3>6. r.flags = a.flags \cup {x \in {"SUBSCRIBED"} : Kind[c] = "subscribe"}
                            \cup {x \in {"MONITORING"} : Kind[c] = "monitor"}
      BY Zenon, <2>3, <3>1, <3>3
    <3>7. QED
      BY Zenon, <2>3, <3>1, <3>2, <3>5, <3>6 DEF Contexts
  <2>4. CASE Kind[c] = "regular"
    <3>1. Kind[c] # "monitor" /\ Kind[c] # "unsubscribe" /\ Kind[c] # "subscribe"
      BY <2>4
    <3>2. r = IF "SUBSCRIBED" \in a.flags THEN [a EXCEPT !.invalid = Append(@, c)]
              ELSE [a EXCEPT !.replies = Append(@, c)]
      BY Zenon, <2>4, <3>1 DEF Register, PushCallback
    <3>3. a.flags = a.flags \cup {x \in {"SUBSCRIBED"} : Kind[c] = "subscribe"}
                            \cup {x \in {"MONITORING"} : Kind[c] = "monitor"}
      BY Zenon, <3>1
    <3> HIDE DEF r
    <3>4. CASE "SUBSCRIBED" \in a.flags
      <4>1. r = [a EXCEPT !.invalid = Append(@, c)]
        BY Zenon, <3>2, <3>4
      <4>2. r \in Contexts /\ r.flags = a.flags
        BY Zenon, <1>2, <4>1 DEF Contexts
      <4>3. QED
        BY Zenon, <2>4, <3>1, <3>3, <3>4, <4>1, <4>2 DEF Contexts
    <3>5. CASE "SUBSCRIBED" \notin a.flags
      <4>1. r = [a EXCEPT !.replies = Append(@, c)]
        BY Zenon, <3>2, <3>5
      <4>2. r \in Contexts /\ r.flags = a.flags
        BY Zenon, <1>2, <4>1 DEF Contexts
      <4>3. QED
        BY Zenon, <2>4, <3>1, <3>3, <3>5, <4>1, <4>2 DEF Contexts
    <3>6. QED
      BY Zenon, <3>4, <3>5
  <2>5. QED
    BY Zenon, <1>1, <2>1, <2>2, <2>3, <2>4 DEF Kinds
<1> HIDE DEF r
<1>5. /\ q \in Contexts /\ q.obuf = Append(a.obuf, c)
      /\ q.status = r.status /\ q.input = r.input /\ q.flags = r.flags /\ q.sub = r.sub
      /\ q.invalid = r.invalid /\ q.replies = r.replies
  BY Zenon, <1>2, <1>4 DEF Contexts, AppendCommand
<1>6. b = AddWrite(q)
  BY Zenon DEF AsyncCommand, r
<1> HIDE DEF q
<1>7. b \in Contexts /\ b.flags = q.flags /\ b.status = q.status /\ b.input = q.input /\ b.obuf = q.obuf
      /\ b.sub = q.sub /\ b.invalid = q.invalid /\ b.replies = q.replies
  BY Zenon, <1>5, <1>6 DEF AddWrite, Contexts
<1>8. QED
  BY Zenon, <1>4, <1>5, <1>7 DEF Accepts

------------------------------------------------------------------------------
(* The callbacks of the commands I have run once, except those of X. *)
CalledOnce(h, I, X) ==
  \A c \in Commands : IF Regular(c) /\ c \in I \ X THEN \E r \in Own(c) : h[c] = <<r>> ELSE h[c] = <<>>

(* The history of a callback that runs no time, or once. *)
LEMMA SingleSeq ==
  ASSUME NEW r
  PROVE  /\ <<>> \o [n \in 1 .. 0 |-> r] = <<>> /\ <<>> \o [n \in 1 .. 1 |-> r] = <<r>>
         /\ \A q : <<q>> \o [n \in 1 .. 0 |-> r] = <<q>>
<1>1. [n \in 1 .. 0 |-> r] = <<>>
  OBVIOUS
<1>2. [n \in 1 .. 1 |-> r] = <<r>>
  OBVIOUS
<1>3. <<>> \o <<>> = <<>> /\ <<>> \o <<r>> = <<r>> /\ \A q : <<q>> \o <<>> = <<q>>
  OBVIOUS
<1>4. QED
  BY Zenon, <1>1, <1>2, <1>3

(* A command that is in a queue at most once. *)
OnceIn(s, c) ==
  c \in Range(s) => \E n \in DOMAIN s : \A m \in DOMAIN s : s[m] = c <=> m = n

(* How often a callback runs when its queue is emptied: as often as it is in it. *)
LEMMA TimesOne ==
  ASSUME Counting, NEW s, NEW c, OnceIn(s, c)
  PROVE  /\ c \in Range(s) => Times(s, c) = 1
         /\ c \notin Range(s) => Times(s, c) = 0
<1>1. ASSUME c \notin Range(s) PROVE Times(s, c) = 0
  <2>1. {n \in DOMAIN s : s[n] = c} = {}
    BY Zenon, <1>1 DEF Range
  <2>2. QED
    BY Zenon, <2>1 DEF Times, Counting
<1>2. ASSUME c \in Range(s) PROVE Times(s, c) = 1
  <2>1. PICK n \in DOMAIN s : \A m \in DOMAIN s : s[m] = c <=> m = n
    BY Zenon, <1>2 DEF OnceIn
  <2>2. {m \in DOMAIN s : s[m] = c} = {n}
    BY Zenon, <2>1
  <2>3. QED
    BY Zenon, <2>2 DEF Times, Counting
<1>3. QED
  BY Zenon, <1>1, <1>2

(* Callbacks run that have not run before. *)
LEMMA RunsOnce ==
  ASSUME NEW h, NEW I, NEW X, NEW Y, NEW s, NEW r, CalledOnce(h, I, X),
         \A c \in Commands : Regular(c) => Times(s, c) = IF c \in X \ Y THEN 1 ELSE 0,
         Y \subseteq X, X \subseteq I, \A c \in X \ Y : r \in Own(c)
  PROVE  CalledOnce(Ran(h, s, r), I, Y)
<1>1. SUFFICES ASSUME NEW c \in Commands
               PROVE IF Regular(c) /\ c \in I \ Y THEN \E q \in Own(c) : Ran(h, s, r)[c] = <<q>> ELSE Ran(h, s, r)[c] = <<>>
  BY Zenon DEF CalledOnce
<1>2. Ran(h, s, r)[c] = IF Regular(c) THEN h[c] \o [n \in 1 .. Times(s, c) |-> r] ELSE h[c]
  BY Zenon DEF Ran
<1>3. IF Regular(c) /\ c \in I \ X THEN \E q \in Own(c) : h[c] = <<q>> ELSE h[c] = <<>>
  BY Zenon DEF CalledOnce
<1>4. CASE ~Regular(c)
  BY Zenon, <1>2, <1>3, <1>4
<1>5. CASE Regular(c) /\ c \in X \ Y
  <2>1. h[c] = <<>> /\ Times(s, c) = 1 /\ r \in Own(c)
    BY Zenon, <1>3, <1>5
  <2>2. Ran(h, s, r)[c] = <<r>>
    BY Zenon, <1>2, <1>5, <2>1, SingleSeq
  <2>3. QED
    BY Zenon, <1>5, <2>1, <2>2
<1>6. CASE Regular(c) /\ c \notin X \ Y
  <2>1. Times(s, c) = 0
    BY Zenon, <1>6
  <2>2. Ran(h, s, r)[c] = h[c]
    <3>1. h[c] = <<>> \/ \E q : h[c] = <<q>>
      BY Zenon, <1>3
    <3>2. Ran(h, s, r)[c] = h[c] \o [n \in 1 .. 0 |-> r]
      BY Zenon, <1>2, <1>6, <2>1
    <3>3. QED
      BY Zenon, <3>1, <3>2, SingleSeq
  <2>3. c \in I \ Y <=> c \in I \ X
    BY Zenon, <1>6
  <2>4. QED
    BY Zenon, <1>3, <2>2, <2>3
<1>7. QED
  BY Zenon, <1>4, <1>5, <1>6

(* Callbacks of subscriptions do not count among those that run once. *)
LEMMA CalledOnceDrop ==
  ASSUME NEW h, NEW I, NEW X, NEW fn, CalledOnce(h, I, X), ~Regular(fn)
  PROVE  CalledOnce(h, I, X \ {fn})
BY Zenon DEF CalledOnce

(* A new command has not been called back; a regular one is owed a call. *)
LEMMA CalledOnceIssue ==
  ASSUME NEW h, NEW I, NEW X, NEW c, CalledOnce(h, I, X), X \subseteq I, c \notin I, NEW Y,
         Y = IF Kind[c] = "regular" THEN X \cup {c} ELSE X
  PROVE  CalledOnce(h, I \cup {c}, Y)
<1>1. \A d \in Commands : Regular(d) /\ d \in (I \cup {c}) \ Y <=> Regular(d) /\ d \in I \ X
  BY Zenon DEF Regular
<1>2. QED
  BY Zenon, <1>1 DEF CalledOnce

(* One callback runs with its reply. *)
LEMMA RunsOne ==
  ASSUME Counting, NEW h, NEW I, NEW X, CalledOnce(h, I, X), X \subseteq I, NEW fn, NEW r,
         Regular(fn) => fn \in X /\ r \in Own(fn)
  PROVE  CalledOnce(Ran(h, <<fn>>, r), I, X \ {fn})
<1>1. DOMAIN <<fn>> = {1} /\ <<fn>>[1] = fn /\ Range(<<fn>>) = {fn}
  BY DEF Range
<1>2. ASSUME NEW c \in Commands PROVE (c = fn => Times(<<fn>>, c) = 1) /\ (c # fn => Times(<<fn>>, c) = 0)
  <2>1. OnceIn(<<fn>>, c)
    BY Zenon, <1>1 DEF OnceIn
  <2>2. (c \in Range(<<fn>>) => Times(<<fn>>, c) = 1) /\ (c \notin Range(<<fn>>) => Times(<<fn>>, c) = 0)
    BY Zenon, <2>1, TimesOne
  <2>3. QED
    BY Zenon, <1>1, <2>2
<1>3. CASE Regular(fn)
  <2>1. \A c \in Commands : Regular(c) => Times(<<fn>>, c) = IF c \in X \ (X \ {fn}) THEN 1 ELSE 0
    BY Zenon, <1>2, <1>3
  <2>2. \A c \in X \ (X \ {fn}) : r \in Own(c)
    BY Zenon, <1>3
  <2>3. X \ {fn} \subseteq X
    BY Zenon
  <2>4. QED
    BY Zenon, <2>1, <2>2, <2>3, RunsOnce
<1>4. CASE ~Regular(fn)
  <2>0. CalledOnce(h, I, X \ {fn})
    BY Zenon, <1>4, CalledOnceDrop
  <2> DEFINE Y == X \ {fn}
  <2>1. \A c \in Commands : Regular(c) => Times(<<fn>>, c) = IF c \in Y \ Y THEN 1 ELSE 0
    BY Zenon, <1>2, <1>4
  <2>2. \A c \in Y \ Y : r \in Own(c)
    BY Zenon
  <2>3. Y \subseteq Y /\ Y \subseteq I
    BY Zenon
  <2>4. QED
    BY Zenon, <2>0, <2>1, <2>2, <2>3, RunsOnce
<1>5. QED
  BY Zenon, <1>3, <1>4

(* Nothing is in the two ordered queues twice. *)
LEMMA OnceInQueues ==
  ASSUME NEW P, NEW V, NEW X, P \in Seq(X), V \in Seq(X), NEW O, NEW I, Older(O, I),
         Increasing(P, O), Increasing(V, O), Range(P) \cap Range(V) = {},
         NEW c
  PROVE  OnceIn(P \o V, c)
<1> DEFINE s == P \o V
<1>0. SUFFICES ASSUME c \in Range(s) PROVE \E n \in DOMAIN s : \A m \in DOMAIN s : s[m] = c <=> m = n
  BY Zenon DEF OnceIn
<1>1. PICK n \in DOMAIN s : s[n] = c
  BY Zenon, <1>0 DEF Range
<1>2. \A m, k \in DOMAIN s : m # k => m < k \/ k < m
  BY SMT
<1>3. ~Before(s, c, c)
  <2>1. SUFFICES ASSUME Before(s, c, c) PROVE FALSE
    BY Zenon
  <2>2. Before(P, c, c) \/ Before(V, c, c) \/ (c \in Range(P) /\ c \in Range(V))
    BY Zenon, <2>1, ConcatParts
  <2>3. <<c, c>> \in O
    BY Zenon, <2>2 DEF Increasing
  <2>4. QED
    BY Zenon, <2>3, OrderParts
<1> HIDE DEF s
<1>4. ASSUME NEW m \in DOMAIN s, s[m] = c PROVE m = n
  BY Zenon, <1>1, <1>2, <1>3, <1>4 DEF Before
<1>5. QED
  BY Zenon, <1>1, <1>4 DEF s

(* __redisAsyncFree runs every callback that is left. *)
LEMMA FreeRuns ==
  ASSUME Counting, NEW P, NEW V, NEW R, NEW G, NEW S, NEW T, NEW shut, NEW on, NEW I, NEW O,
         InStep(P, V, R, G, S, T, shut, on, I, O), NEW h, CalledOnce(h, I, Owed(P, V))
  PROVE  CalledOnce(Ran(h, P \o V, NoReply), I, {})
<1>1. /\ P \in Seq(Regulars(I)) /\ V \in Seq(Regulars(I)) /\ Older(O, I)
      /\ Increasing(P, O) /\ Increasing(V, O) /\ Range(P) \cap Range(V) = {}
  BY Zenon DEF InStep, Typed, InOrder, Matched
<1>2. Range(P \o V) = Owed(P, V)
  BY Zenon, <1>1, ConcatParts DEF Owed
<1>3. ASSUME NEW c
      PROVE  (c \in Owed(P, V) => Times(P \o V, c) = 1) /\ (c \notin Owed(P, V) => Times(P \o V, c) = 0)
  <2>1. OnceIn(P \o V, c)
    BY Zenon, <1>1, OnceInQueues
  <2>2. (c \in Range(P \o V) => Times(P \o V, c) = 1) /\ (c \notin Range(P \o V) => Times(P \o V, c) = 0)
    BY Zenon, <2>1, TimesOne
  <2>3. QED
    BY Zenon, <1>2, <2>2
<1>4. Owed(P, V) \subseteq I
  BY <1>1 DEF Owed, Range, Regulars
<1>5. \A c : NoReply \in Own(c)
  BY Zenon DEF Own
<1>6. QED
  <2> DEFINE X == Owed(P, V)
  <2>1. \A c \in Commands : Regular(c) => Times(P \o V, c) = IF c \in X \ {} THEN 1 ELSE 0
    BY Zenon, <1>3
  <2>2. {} \subseteq X /\ X \subseteq I /\ \A c \in X \ {} : NoReply \in Own(c)
    BY Zenon, <1>4, <1>5
  <2>3. CalledOnce(h, I, X)
    OBVIOUS
  <2> HIDE DEF X
  <2>4. QED
    BY Zenon, <2>1, <2>2, <2>3, RunsOnce

------------------------------------------------------------------------------
(* The context a is in step with the socket and the server. *)
Going(a, sk, ts) == IF sk = "closed" THEN <<>> ELSE ts \o a.obuf
HasCallback(a) == {t \in Topics : a.sub[t] # None}

InTouch(a, sk, ts, tc, sb, I, O) ==
  InStep(a.replies, a.invalid, a.input \o tc, Going(a, sk, ts), HasCallback(a), sb,
         sk = "closed", "SUBSCRIBED" \in a.flags, I, O)

Linked(a, sk, ts, tc, sb, I) ==
  /\ a.obuf \in Seq(I) /\ ts \in Seq(I)
  /\ a.input \in Seq(Replies(I)) /\ tc \in Seq(Replies(I))
  /\ a.sub \in [Topics -> {None} \cup {c \in I : Kind[c] = "subscribe"}]
  /\ "MONITORING" \notin a.flags
  /\ \E O : InTouch(a, sk, ts, tc, sb, I, O)

(* A change that keeps the queues keeps the context in step. *)
LEMMA LinkedSame ==
  ASSUME NEW a, NEW b, NEW sk, NEW ts, NEW tc, NEW sb, NEW I,
         Linked(a, sk, ts, tc, sb, I), SameLists(b, a)
  PROVE  Linked(b, sk, ts, tc, sb, I) /\ Owed(b.replies, b.invalid) = Owed(a.replies, a.invalid)
<1>1. ("SUBSCRIBED" \in b.flags) = ("SUBSCRIBED" \in a.flags)
  BY DEF SameLists
<1>2. Going(b, sk, ts) = Going(a, sk, ts) /\ HasCallback(b) = HasCallback(a) /\ b.input \o tc = a.input \o tc
  BY Zenon DEF Going, HasCallback, SameLists
<1>3. b.replies = a.replies /\ b.invalid = a.invalid
  BY Zenon DEF SameLists
<1>4. \A O : InTouch(b, sk, ts, tc, sb, I, O) = InTouch(a, sk, ts, tc, sb, I, O)
  BY Zenon, <1>1, <1>2, <1>3 DEF InTouch
<1>5. \E O : InTouch(b, sk, ts, tc, sb, I, O)
  BY Zenon, <1>4 DEF Linked
<1>6. QED
  BY Zenon, <1>3, <1>5 DEF Linked, SameLists

(* A new connection. *)
LEMMA Idle == InStep(<<>>, <<>>, <<>>, <<>>, {}, {}, FALSE, FALSE, {}, {})
<1>1. Range(<<>>) = {} /\ \A x, y : ~Before(<<>>, x, y)
  BY Zenon, EmptyParts
<1>2. <<>> \in Seq(Regulars({})) /\ <<>> \in Seq(Replies({})) /\ <<>> \in Seq({})
  OBVIOUS
<1>3. AnswersIn(<<>>) = {} /\ Due(<<>>, <<>>) = {} /\ Owed(<<>>, <<>>) = {}
  BY Zenon, <1>1 DEF AnswersIn, Due, Owed
<1>4. Typed(<<>>, <<>>, <<>>, <<>>, {}, {}, {})
  BY Zenon, <1>2 DEF Typed
<1>5. Older({}, {})
  BY Zenon DEF Older
<1>6. InOrder(<<>>, <<>>, <<>>, <<>>, {})
  BY Zenon, <1>1, <1>3 DEF InOrder, Increasing
<1>7. Matched(<<>>, <<>>, <<>>, <<>>, FALSE, FALSE)
  BY Zenon, <1>1, <1>3 DEF Matched
<1>8. Topical(<<>>, <<>>, <<>>, {}, {}, FALSE, FALSE, {})
  BY Zenon, <1>1 DEF Topical
<1>9. QED
  BY Zenon, <1>4, <1>5, <1>6, <1>7, <1>8 DEF InStep

(* Only commands that were issued wait for a reply. *)
LEMMA OwedIssued ==
  ASSUME NEW P, NEW V, NEW R, NEW G, NEW S, NEW T, NEW shut, NEW on, NEW I, NEW O,
         InStep(P, V, R, G, S, T, shut, on, I, O)
  PROVE  Owed(P, V) \subseteq I /\ I \in SUBSET Commands
<1>1. I \in SUBSET Commands /\ P \in Seq(Regulars(I)) /\ V \in Seq(Regulars(I))
  BY Zenon DEF InStep, Typed
<1>2. Range(P) \subseteq I /\ Range(V) \subseteq I
  BY SMT, <1>1 DEF Range, Regulars
<1>3. QED
  BY Zenon, <1>1, <1>2 DEF Owed

(* A command is issued. *)
LEMMA LinkedIssue ==
  ASSUME NEW a \in Contexts, NEW c \in Commands, ~Refuses(a, c), ~Confuses(a, c), c \notin issued,
         NEW sk, NEW ts, NEW tc, NEW sb, Linked(a, sk, ts, tc, sb, issued),
         NEW h, CalledOnce(h, issued, Owed(a.replies, a.invalid)), NEW b, b = AsyncCommand(a, c)
  PROVE  /\ Linked(b, sk, ts, tc, sb, issued \cup {c})
         /\ CalledOnce(h, issued \cup {c}, Owed(b.replies, b.invalid))
<1> DEFINE on == "SUBSCRIBED" \in a.flags
           on2 == "SUBSCRIBED" \in b.flags
           S == HasCallback(a)
           S2 == HasCallback(b)
           G == Going(a, sk, ts)
           G2 == Going(b, sk, ts)
           I2 == issued \cup {c}
           shut == sk = "closed"
<1>0. Accepts(a, c, b)
  BY Zenon, CommandFields
<1>1. /\ b.status = a.status /\ b.input = a.input /\ b.obuf = Append(a.obuf, c)
      /\ b.flags = a.flags \cup {x \in {"SUBSCRIBED"} : Kind[c] = "subscribe"}
                           \cup {x \in {"MONITORING"} : Kind[c] = "monitor"}
      /\ b.sub = IF Kind[c] = "subscribe" THEN [t \in Topics |-> IF t \in Names[c] THEN c ELSE a.sub[t]]
                 ELSE a.sub
      /\ b.invalid = IF Kind[c] = "regular" /\ "SUBSCRIBED" \in a.flags THEN Append(a.invalid, c) ELSE a.invalid
      /\ b.replies = IF Kind[c] = "monitor" \/ (Kind[c] = "regular" /\ "SUBSCRIBED" \notin a.flags)
                     THEN Append(a.replies, c) ELSE a.replies
  BY Zenon, <1>0 DEF Accepts
<1>2. /\ Kind[c] # "monitor" /\ Kind[c] \in {"regular", "subscribe", "unsubscribe"}
      /\ c # None /\ None \notin Commands
      /\ Names[c] \in SUBSET Topics
  BY Zenon, AsyncAssumption DEF Confuses, Kinds
<1>3. PICK O : InTouch(a, sk, ts, tc, sb, issued, O)
  BY Zenon DEF Linked
<1>4. /\ a.obuf \in Seq(issued) /\ ts \in Seq(issued) /\ a.input \in Seq(Replies(issued)) /\ tc \in Seq(Replies(issued))
      /\ a.sub \in [Topics -> {None} \cup {d \in issued : Kind[d] = "subscribe"}] /\ "MONITORING" \notin a.flags
  BY Zenon DEF Linked
<1>5. (on2 <=> on \/ Kind[c] = "subscribe") /\ "MONITORING" \notin b.flags
  <2>1. "MONITORING" # "SUBSCRIBED"
    OBVIOUS
  <2>2. QED
    BY Zenon, <1>1, <1>2, <1>4, <2>1
<1>6. S2 = IF Kind[c] = "subscribe" THEN S \cup Names[c] ELSE S
  <2>1. CASE Kind[c] = "subscribe"
    <3>1. \A t \in Topics : b.sub[t] = IF t \in Names[c] THEN c ELSE a.sub[t]
      BY Zenon, <1>1, <2>1
    <3>2. \A t : t \in S2 <=> t \in S \cup Names[c]
      BY Zenon, <1>2, <3>1 DEF HasCallback
    <3>3. QED
      BY Zenon, <2>1, <3>2
  <2>2. CASE Kind[c] # "subscribe"
    BY Zenon, <1>1, <2>2 DEF HasCallback
  <2>3. QED
    BY Zenon, <2>1, <2>2
<1>7. b.sub \in [Topics -> {None} \cup {d \in I2 : Kind[d] = "subscribe"}]
  BY ZenonT(60), <1>1, <1>4
<1>8. G2 = IF shut THEN G ELSE Append(G, c)
  <2>1. ts \o Append(a.obuf, c) = Append(ts \o a.obuf, c)
    BY SMT, <1>4
  <2>2. QED
    BY Zenon, <1>1, <2>1 DEF Going
<1>9. /\ b.replies = IF Kind[c] = "regular" /\ ~on THEN Append(a.replies, c) ELSE a.replies
      /\ b.invalid = IF Kind[c] = "regular" /\ on THEN Append(a.invalid, c) ELSE a.invalid
  BY Zenon, <1>1, <1>2
<1>10. /\ Kind[c] = "unsubscribe" => on /\ Names[c] \subseteq S
       /\ \A u \in issued : Kind[u] = "unsubscribe" => Names[u] \cap S = {}
  <2>1. Kind[c] = "unsubscribe" => on
    BY Zenon DEF Refuses
  <2>2. Kind[c] = "unsubscribe" => Names[c] \subseteq S
    BY Zenon, <1>2 DEF Confuses, HasCallback
  <2>3. \A u \in issued : Kind[u] = "unsubscribe" => Names[u] \cap S = {}
    BY Zenon DEF Confuses, HasCallback
  <2>4. QED
    BY Zenon, <2>1, <2>2, <2>3
<1>11. on2 = (on \/ Kind[c] = "subscribe")
  BY <1>5
<1>12. InStep(a.replies, a.invalid, a.input \o tc, G, S, sb, shut, on, issued, O)
  BY Zenon, <1>3 DEF InTouch
<1> HIDE DEF on, on2, S, S2, G, G2, shut
<1>13. Issues(c, a.replies, a.invalid, G, S, shut, on, issued, b.replies, b.invalid, G2, S2, on2)
  BY Zenon, <1>2, <1>6, <1>8, <1>9, <1>10, <1>11 DEF Issues
<1>14. PICK O2 : InStep(b.replies, b.invalid, a.input \o tc, G2, S2, sb, shut, on2, issued \cup {c}, O2)
  BY Zenon, <1>12, <1>13, Issue
<1>15. InTouch(b, sk, ts, tc, sb, I2, O2)
  BY Zenon, <1>1, <1>14 DEF InTouch, on2, S2, G2, shut
<1>16. b.obuf \in Seq(I2) /\ ts \in Seq(I2) /\ b.input \in Seq(Replies(I2)) /\ tc \in Seq(Replies(I2))
  <2>1. issued \subseteq I2 /\ c \in I2 /\ Replies(issued) \subseteq Replies(I2)
    BY Zenon DEF Replies, Answered, Regulars
  <2>2. a.obuf \in Seq(I2) /\ ts \in Seq(I2) /\ a.input \in Seq(Replies(I2)) /\ tc \in Seq(Replies(I2))
    BY Zenon, <1>4, <2>1, SeqWider
  <2>3. Append(a.obuf, c) \in Seq(I2)
    BY Zenon, <2>1, <2>2, AppendParts
  <2>4. QED
    BY Zenon, <1>1, <2>2, <2>3
<1>17. Linked(b, sk, ts, tc, sb, I2)
  BY Zenon, <1>5, <1>7, <1>15, <1>16 DEF Linked
<1>18. Owed(b.replies, b.invalid) = IF Kind[c] = "regular" THEN Owed(a.replies, a.invalid) \cup {c} ELSE Owed(a.replies, a.invalid)
  <2>1. a.replies \in Seq(Callbacks) /\ a.invalid \in Seq(Callbacks) /\ c \in Callbacks
    BY Zenon DEF Contexts, Callbacks
  <2>2. /\ Range(Append(a.replies, c)) = Range(a.replies) \cup {c}
        /\ Range(Append(a.invalid, c)) = Range(a.invalid) \cup {c}
    BY Zenon, <2>1, AppendParts
  <2>3. CASE Kind[c] = "regular" /\ on
    <3>1. b.replies = a.replies /\ b.invalid = Append(a.invalid, c)
      BY Zenon, <1>9, <2>3
    <3>2. QED
      BY Zenon, <2>2, <2>3, <3>1 DEF Owed
  <2>4. CASE Kind[c] = "regular" /\ ~on
    <3>1. b.replies = Append(a.replies, c) /\ b.invalid = a.invalid
      BY Zenon, <1>9, <2>4
    <3>2. QED
      BY Zenon, <2>2, <2>4, <3>1 DEF Owed
  <2>5. CASE Kind[c] # "regular"
    BY Zenon, <1>9, <2>5
  <2>6. QED
    BY Zenon, <2>3, <2>4, <2>5
<1>19. Owed(a.replies, a.invalid) \subseteq issued
  BY Zenon, <1>12, OwedIssued
<1>20. CalledOnce(h, I2, Owed(b.replies, b.invalid))
  BY Zenon, <1>18, <1>19, CalledOnceIssue
<1>21. QED
  BY Zenon, <1>17, <1>20

------------------------------------------------------------------------------
(* What the library makes of a context is a context. *)
LEMMA CommandTyped ==
  ASSUME NEW a \in Contexts, NEW c \in Commands
  PROVE  AsyncCommand(a, c) \in Contexts /\ AsyncCommand(a, c).status = a.status
<1>1. CASE Refuses(a, c)
  BY Zenon, <1>1 DEF AsyncCommand
<1>2. CASE ~Refuses(a, c)
  BY ZenonT(60), <1>2, CommandFields DEF Accepts
<1>3. QED
  BY Zenon, <1>1, <1>2

Answer(u, a) == u[1] \in Contexts /\ u[1].status = a.status /\ u[2] \in SUBSET Commands

(* What a program does in a callback leaves a context. *)
LEMMA InCallbackTyped ==
  ASSUME NEW a \in Contexts, NEW u \in InCallback(a)
  PROVE  Answer(u, a)
<1>1. CASE u = <<a, {}>>
  BY Zenon, <1>1 DEF Answer
<1>2. ASSUME NEW x \in {"CONNECTED", "DISCONNECTING", "FREEING"}, u = <<[a EXCEPT !.flags = @ \cup {x}], {}>> PROVE Answer(u, a)
  <2>1. u[1] = [a EXCEPT !.flags = @ \cup {x}] /\ u[2] = {}
    BY Zenon, <1>2
  <2>2. QED
    BY Zenon, <2>1, FlagUpdates DEF Answer, SameQueues
<1>3. ASSUME NEW c \in Open(a), u = <<AsyncCommand(a, c), {c}>> PROVE Answer(u, a)
  <2>1. c \in Commands /\ u[1] = AsyncCommand(a, c) /\ u[2] = {c}
    BY Zenon, <1>3 DEF Open
  <2>2. QED
    BY Zenon, <2>1, CommandTyped DEF Answer
<1>4. QED
  BY Zenon, <1>1, <1>2, <1>3 DEF InCallback

(* __redisAsyncFree marks the context freed. *)
LEMMA Freed ==
  ASSUME NEW a \in Contexts, NEW freeing \in BOOLEAN, NEW b, b = Torn(a, freeing)
  PROVE  b \in Contexts /\ b.status = "freed"
<1> DEFINE flags == IF freeing THEN a.flags \cup {"FREEING"} ELSE a.flags
           d == Cleanup([a EXCEPT !.flags = flags, !.status = "freed", !.replies = <<>>,
                             !.invalid = <<>>, !.sub = [t \in Topics |-> None],
                             !.obuf = <<>>, !.input = <<>>])
<1>1. flags \in SUBSET {"SUBSCRIBED", "MONITORING", "CONNECTED", "DISCONNECTING", "FREEING"}
  BY Zenon DEF Contexts
<1>2. <<>> \in Seq(Callbacks) /\ <<>> \in Seq(Commands) /\ <<>> \in Seq(AnyReply)
  OBVIOUS
<1>3. [t \in Topics |-> None] \in [Topics -> Callbacks]
  BY Zenon DEF Callbacks
<1>4. b = d \/ b = Told(d, "disconnect", "FREEING" \in flags \/ ~a.err)
  BY Zenon DEF Torn
<1> HIDE DEF flags
<1>5. d \in Contexts /\ d.status = "freed"
  BY Zenon, <1>1, <1>2, <1>3 DEF Contexts, Cleanup
<1>6. ("FREEING" \in flags \/ ~a.err) \in BOOLEAN
  OBVIOUS
<1> HIDE DEF d
<1>7. \A ok \in BOOLEAN : Told(d, "disconnect", ok) \in Contexts /\ Told(d, "disconnect", ok).status = d.status
  BY Zenon, <1>5, ToldUpdates DEF SameQueues
<1>8. QED
  BY Zenon, <1>4, <1>5, <1>6, <1>7

(* __redisAsyncFree runs the callbacks of both queues with no reply. *)
LEMMA FreeTyped ==
  ASSUME NEW a \in Contexts, NEW h, AsyncFree(a, h)
  PROVE  ac' \in Contexts /\ ac'.status = "freed" /\ calls' = Ran(h, a.replies \o a.invalid, NoReply)
BY Zenon, Freed DEF AsyncFree

(* __redisAsyncDisconnect frees the context, or stops at the assertion. *)
Frees(a, h) == \E b \in Contexts : SameQueues(b, a) /\ AsyncFree(b, h)
Stops(a, how) == ac' \in Contexts /\ ac'.status = how /\ UNCHANGED calls

(* __redisAsyncDisconnect frees the context unless replies are left without an
   error, where its assertion fails. *)
LEMMA Disconnects ==
  ASSUME NEW a \in Contexts, Disconnect(a)
  PROVE  Frees(a, calls) \/ (Stops(a, "unclean") /\ ~a.cerr)
<1> DEFINE b == CopyError(a)
           d == [b EXCEPT !.flags = @ \cup {"DISCONNECTING"}]
<1>1. b \in Contexts /\ SameQueues(b, a)
  BY Zenon, EventUpdates
<1>2. b.err = a.cerr
  BY Zenon DEF CopyError, Contexts
<1>3. \/ AsyncFree(d, calls)
      \/ AsyncFree(b, calls)
      \/ ~b.err /\ ac' = [b EXCEPT !.status = "unclean"] /\ UNCHANGED calls
  BY Zenon DEF Disconnect
<1> HIDE DEF b
<1>4. d \in Contexts /\ SameQueues(d, b)
  BY Zenon, <1>1, FlagUpdates
<1> HIDE DEF d
<1>5. SameQueues(d, a)
  BY Zenon, <1>1, <1>4, Trans
<1>6. ASSUME ~b.err /\ ac' = [b EXCEPT !.status = "unclean"] /\ UNCHANGED calls PROVE Stops(a, "unclean") /\ ~a.cerr
  BY Zenon, <1>1, <1>2, <1>6 DEF Stops, Contexts
<1>7. QED
  BY Zenon, <1>1, <1>3, <1>4, <1>5, <1>6 DEF Frees

(* Freeing a context that differs only in its flags has the same effect. *)
LEMMA FreesTyped ==
  ASSUME NEW a, NEW h, Frees(a, h)
  PROVE  ac' \in Contexts /\ ac'.status = "freed" /\ calls' = Ran(h, a.replies \o a.invalid, NoReply)
<1>1. PICK b \in Contexts : SameQueues(b, a) /\ AsyncFree(b, h)
  BY Zenon DEF Frees
<1>2. b.replies = a.replies /\ b.invalid = a.invalid
  BY Zenon, <1>1 DEF SameQueues, SameLists
<1>3. QED
  BY Zenon, <1>1, <1>2, FreeTyped

------------------------------------------------------------------------------
(* The context a is open and in step, and the history h says that all callbacks
   ran once except those that wait in it. *)
Served(a, h, I) ==
  /\ Linked(a, sock, toServer, toClient, srv.subs, I)
  /\ CalledOnce(h, I, Owed(a.replies, a.invalid))

(* The context is gone, or an assertion failed. *)
Ended(b, h, I) ==
  /\ b.status \in {"freed", "unclean", "unexpected"}
  /\ b.status = "freed" => CalledOnce(h, I, {})
  /\ \E X : CalledOnce(h, I, X)

Outcome(b, h, I) == (b.status = "open" /\ Served(b, h, I)) \/ Ended(b, h, I)

(* Freeing a context in step runs each callback that waits, once. *)
LEMMA ServedFrees ==
  ASSUME Counting, NEW a, NEW I, NEW h, Served(a, h, I), NEW b, b.replies = a.replies, b.invalid = a.invalid,
         Frees(b, h)
  PROVE  Ended(ac', calls', I)
<1>1. PICK O : InTouch(a, sock, toServer, toClient, srv.subs, I, O)
  BY Zenon DEF Served, Linked
<1>2. ac'.status = "freed" /\ calls' = Ran(h, a.replies \o a.invalid, NoReply)
  BY Zenon, FreesTyped
<1>3. CalledOnce(h, I, Owed(a.replies, a.invalid))
  BY Zenon DEF Served
<1>4. CalledOnce(Ran(h, a.replies \o a.invalid, NoReply), I, {})
  BY Zenon, <1>1, <1>3, FreeRuns DEF InTouch
<1>5. QED
  BY Zenon, <1>2, <1>4 DEF Ended

(* After a failed assertion no callback has run twice. *)
LEMMA ServedStops ==
  ASSUME NEW a, NEW I, Served(a, calls, I), NEW b, NEW how \in {"unclean", "unexpected"}, Stops(b, how)
  PROVE  Ended(ac', calls', I)
<1>1. ac'.status = how /\ how # "freed" /\ calls' = calls
  <2>1. how # "freed"
    OBVIOUS
  <2>2. QED
    BY Zenon, <2>1 DEF Stops
<1>2. QED
  BY Zenon, <1>1 DEF Ended, Served

(* Disconnecting a context in step ends it with every callback run once at most. *)
LEMMA ServedDisconnect ==
  ASSUME Counting, NEW a, Served(a, calls, issued), NEW b \in Contexts, b.replies = a.replies,
         b.invalid = a.invalid, Disconnect(b)
  PROVE  Ended(ac', calls', issued)
<1>1. CASE Frees(b, calls)
  BY Zenon, <1>1, ServedFrees
<1>2. CASE Stops(b, "unclean")
  BY Zenon, <1>2, ServedStops
<1>3. QED
  BY Zenon, <1>1, <1>2, Disconnects

(* A change that keeps the queues keeps what is known of the callbacks. *)
LEMMA ServedSame ==
  ASSUME NEW a, NEW b, NEW h, NEW I, Served(a, h, I), SameLists(b, a)
  PROVE  Served(b, h, I)
BY Zenon, LinkedSame DEF Served

(* A callback runs: the program may issue a command or end the connection. *)
LEMMA ServedInCallback ==
  ASSUME NEW a \in Contexts, NEW h, Served(a, h, issued), NEW u \in InCallback(a),
         Issued(u[2], a), ~sloppy'
  PROVE  Served(u[1], h, issued') /\ u[1] \in Contexts /\ u[1].status = a.status
<1>0. u[1] \in Contexts /\ u[1].status = a.status
  BY Zenon, InCallbackTyped DEF Answer
<1>1. CASE u = <<a, {}>>
  <2>1. u[1] = a /\ u[2] = {}
    BY Zenon, <1>1
  <2>2. issued' = issued
    BY Zenon, <2>1 DEF Issued
  <2>3. QED
    BY Zenon, <1>0, <2>1, <2>2
<1>2. ASSUME NEW x \in {"CONNECTED", "DISCONNECTING", "FREEING"}, u = <<[a EXCEPT !.flags = @ \cup {x}], {}>>
      PROVE Served(u[1], h, issued')
  <2>1. u[1] = [a EXCEPT !.flags = @ \cup {x}] /\ u[2] = {}
    BY Zenon, <1>2
  <2>2. issued' = issued
    BY Zenon, <2>1 DEF Issued
  <2>3. SameLists(u[1], a)
    BY Zenon, <2>1, FlagUpdates DEF SameQueues
  <2>4. Served(u[1], h, issued)
    BY Zenon, <2>3, ServedSame
  <2>5. QED
    BY Zenon, <2>2, <2>4
<1>3. ASSUME NEW c \in Open(a), u = <<AsyncCommand(a, c), {c}>>
      PROVE Served(u[1], h, issued')
  <2>1. c \in Commands /\ c \notin issued /\ ~Refuses(a, c)
    BY Zenon, <1>3 DEF Open
  <2>2. u[1] = AsyncCommand(a, c) /\ u[2] = {c}
    BY Zenon, <1>3
  <2>3. issued' = issued \cup {c} /\ ~Confuses(a, c)
    BY Zenon, <2>2 DEF Issued
  <2>4. /\ Linked(a, sock, toServer, toClient, srv.subs, issued)
        /\ CalledOnce(h, issued, Owed(a.replies, a.invalid))
    BY Zenon DEF Served
  <2>5. /\ Linked(u[1], sock, toServer, toClient, srv.subs, issued \cup {c})
        /\ CalledOnce(h, issued \cup {c}, Owed(u[1].replies, u[1].invalid))
    BY Zenon, <2>1, <2>2, <2>3, <2>4, LinkedIssue
  <2>6. QED
    BY Zenon, <2>3, <2>5 DEF Served
<1>4. QED
  BY Zenon, <1>0, <1>1, <1>2, <1>3 DEF InCallback

(* __redisRunCallback on the callback taken from the queue keeps the context in
   step, whatever the program does in it. *)
LEMMA ServedRun ==
  ASSUME Counting, NEW a \in Contexts, a.status = "open", NEW fn, NEW r, NEW X,
         Linked(a, sock, toServer, toClient, srv.subs, issued),
         CalledOnce(calls, issued, X), X \subseteq issued, Owed(a.replies, a.invalid) = X \ {fn},
         Regular(fn) => fn \in X /\ r \in Own(fn),
         RunCallback(fn, a, r), ~sloppy'
  PROVE  Outcome(ac', calls', issued')
<1>1. CASE fn \in NullFn \cup {None}
  <2>1. ac' = a /\ calls' = calls /\ issued' = issued
    BY Zenon, <1>1 DEF RunCallback
  <2>2. ~Regular(fn)
    BY Zenon, <1>1, AsyncAssumption DEF Regular
  <2>3. CalledOnce(calls, issued, X \ {fn})
    BY Zenon, <2>2, CalledOnceDrop
  <2>4. QED
    BY Zenon, <2>1, <2>3 DEF Outcome, Served
<1>2. CASE fn \notin NullFn \cup {None}
  <2> DEFINE h == Ran(calls, <<fn>>, r)
  <2>1. PICK u \in InCallback(a) :
          /\ Issued(u[2], a)
          /\ IF "FREEING" \in u[1].flags
               THEN AsyncFree(u[1], h) /\ cb' = "out"
               ELSE calls' = h /\ ac' = u[1] /\ cb' = fn
    BY Zenon, <1>2 DEF RunCallback
  <2>2. CalledOnce(h, issued, X \ {fn})
    BY Zenon, RunsOne
  <2> HIDE DEF h
  <2>3. Served(a, h, issued)
    BY Zenon, <2>2 DEF Served
  <2>4. Served(u[1], h, issued') /\ u[1] \in Contexts /\ u[1].status = a.status
    BY Zenon, <2>1, <2>3, ServedInCallback
  <2>5. CASE "FREEING" \in u[1].flags
    <3>1. Frees(u[1], h)
      BY Zenon, <2>1, <2>4, <2>5 DEF Frees, SameQueues, SameLists
    <3>2. Ended(ac', calls', issued')
      BY Zenon, <2>4, <3>1, ServedFrees
    <3>3. QED
      BY Zenon, <3>2 DEF Outcome
  <2>6. CASE "FREEING" \notin u[1].flags
    BY Zenon, <2>1, <2>4, <2>6 DEF Outcome
  <2>7. QED
    BY Zenon, <2>5, <2>6
<1>3. QED
  BY Zenon, <1>1, <1>2

------------------------------------------------------------------------------
(* The first reply r is taken from the context, which leaves a. *)
Takes(a, r) ==
  /\ a \in Contexts /\ a.status = "open" /\ a.input = Tail(ac.input) /\ r = Head(ac.input)
  /\ a.flags = ac.flags /\ a.replies = ac.replies /\ a.invalid = ac.invalid /\ a.sub = ac.sub
  /\ a.obuf = ac.obuf /\ a.err = ac.err /\ a.cerr = ac.cerr

(* redisGetReply takes the first reply of the reader. *)
LEMMA TakesReply ==
  ASSUME ac \in Contexts, ac.status = "open", ac.input # <<>>
  PROVE  Takes([ac EXCEPT !.input = Tail(@)], Head(ac.input)) /\ Head(ac.input) \in AnyReply
<1>1. ac.input \in Seq(AnyReply)
  BY Zenon DEF Contexts
<1>2. Tail(ac.input) \in Seq(AnyReply) /\ Head(ac.input) \in AnyReply
  BY SMT, <1>1
<1>3. QED
  BY Zenon, <1>2 DEF Takes, Contexts

(* What is left when r has been taken from all that comes. *)
LEMMA TakesFirst ==
  ASSUME NEW a, NEW r, Takes(a, r), ac.input # <<>>, NEW I, Linked(ac, sock, toServer, toClient, srv.subs, I)
  PROVE  /\ ac.input \o toClient # <<>> /\ Head(ac.input \o toClient) = r
         /\ Tail(ac.input \o toClient) = a.input \o toClient
         /\ a.input \in Seq(Replies(I)) /\ r \in Replies(I)
         /\ Going(a, sock, toServer) = Going(ac, sock, toServer) /\ HasCallback(a) = HasCallback(ac)
<1>1. ac.input \in Seq(Replies(I)) /\ toClient \in Seq(Replies(I))
  BY Zenon DEF Linked
<1>2. /\ ac.input \o toClient # <<>> /\ Head(ac.input \o toClient) = Head(ac.input)
      /\ Tail(ac.input \o toClient) = Tail(ac.input) \o toClient
      /\ Tail(ac.input) \in Seq(Replies(I)) /\ Head(ac.input) \in Replies(I)
  <2> DEFINE X == Replies(I)
             s == ac.input
  <2>1. s \in Seq(X) /\ toClient \in Seq(X) /\ s # <<>>
    BY Zenon, <1>1
  <2> HIDE DEF X, s
  <2>2. /\ s \o toClient # <<>> /\ Head(s \o toClient) = Head(s)
        /\ Tail(s \o toClient) = Tail(s) \o toClient
        /\ Tail(s) \in Seq(X) /\ Head(s) \in X
    BY SMT, <2>1
  <2>3. QED
    BY Zenon, <2>2 DEF X, s
<1>3. QED
  BY Zenon, <1>2 DEF Takes, Going, HasCallback

(* A reply for the callback at the head of replies. *)
LEMMA ServedRegular ==
  ASSUME Counting, Served(ac, calls, issued), NEW a, NEW r, Takes(a, r), ac.input # <<>>, r # Garbage,
         a.replies # <<>>, RunCallback(Head(a.replies), [a EXCEPT !.replies = ShiftCallback(@)], r), ~sloppy'
  PROVE  Outcome(ac', calls', issued')
<1> DEFINE b == [a EXCEPT !.replies = Tail(@)]
           X == Owed(ac.replies, ac.invalid)
           fn == Head(a.replies)
<1>1. Linked(ac, sock, toServer, toClient, srv.subs, issued) /\ CalledOnce(calls, issued, X)
  BY Zenon DEF Served
<1>2. PICK O : InTouch(ac, sock, toServer, toClient, srv.subs, issued, O)
  BY Zenon, <1>1 DEF Linked
<1>3. /\ ac.input \o toClient # <<>> /\ Head(ac.input \o toClient) = r
      /\ Tail(ac.input \o toClient) = a.input \o toClient
      /\ a.input \in Seq(Replies(issued)) /\ r \in Replies(issued)
      /\ Going(a, sock, toServer) = Going(ac, sock, toServer) /\ HasCallback(a) = HasCallback(ac)
  BY Zenon, <1>1, TakesFirst
<1>4. a \in Contexts /\ a.replies = ac.replies /\ a.replies \in Seq(Callbacks)
  BY Zenon DEF Takes, Contexts
<1>5. Tail(a.replies) \in Seq(Callbacks)
  BY SMT, <1>4
<1>6. /\ b \in Contexts /\ b.status = "open" /\ b.replies = Tail(ac.replies) /\ b.invalid = ac.invalid
      /\ b.input = a.input /\ b.obuf = ac.obuf /\ b.sub = ac.sub /\ b.flags = ac.flags
  BY Zenon, <1>5 DEF Takes, Contexts
<1>7. RunCallback(fn, b, r)
  BY Zenon DEF ShiftCallback
<1> HIDE DEF b
<1>8. Going(b, sock, toServer) = Going(ac, sock, toServer) /\ HasCallback(b) = HasCallback(ac)
  BY Zenon, <1>6 DEF Going, HasCallback
<1>9. InStep(ac.replies, ac.invalid, ac.input \o toClient, Going(ac, sock, toServer), HasCallback(ac), srv.subs,
             sock = "closed", "SUBSCRIBED" \in ac.flags, issued, O)
  BY Zenon, <1>2 DEF InTouch
<1>10. /\ InStep(Tail(ac.replies), ac.invalid, a.input \o toClient, Going(ac, sock, toServer), HasCallback(ac), srv.subs,
                 sock = "closed", "SUBSCRIBED" \in ac.flags, issued, O)
       /\ fn \in Regulars(issued) /\ r \in Own(fn)
       /\ Owed(Tail(ac.replies), ac.invalid) = X \ {fn} /\ fn \in X
  <2> DEFINE R == ac.input \o toClient
             P == ac.replies
             V == ac.invalid
             G == Going(ac, sock, toServer)
             S == HasCallback(ac)
             shut == sock = "closed"
             on == "SUBSCRIBED" \in ac.flags
  <2>1. InStep(P, V, R, G, S, srv.subs, shut, on, issued, O) /\ R # <<>> /\ P # <<>>
    BY Zenon, <1>3, <1>4, <1>9
  <2> HIDE DEF R, P, V, G, S, shut, on
  <2>2. /\ InStep(Tail(P), V, Tail(R), G, S, srv.subs, shut, on, issued, O)
        /\ Head(P) \in Regulars(issued) /\ (Head(R) # Garbage => Head(R) \in Own(Head(P)))
        /\ Owed(Tail(P), V) = Owed(P, V) \ {Head(P)} /\ Head(P) \in Owed(P, V)
    BY Zenon, <2>1, ReplyTaken
  <2>3. QED
    BY Zenon, <1>3, <1>4, <2>2 DEF R, P, V, G, S, shut, on
<1>11. InTouch(b, sock, toServer, toClient, srv.subs, issued, O)
  BY Zenon, <1>6, <1>8, <1>10 DEF InTouch
<1>12. Linked(b, sock, toServer, toClient, srv.subs, issued)
  BY Zenon, <1>1, <1>3, <1>6, <1>11 DEF Linked
<1>13. X \subseteq issued
  BY Zenon, <1>9, OwedIssued
<1>14. Owed(b.replies, b.invalid) = X \ {fn}
  BY Zenon, <1>6, <1>10
<1> HIDE DEF X, fn
<1>15. QED
  BY Zenon, <1>1, <1>6, <1>7, <1>10, <1>12, <1>13, <1>14, ServedRun

(* The reader or the server ends the connection. *)
LEMMA ServedReadFails ==
  ASSUME Counting, Served(ac, calls, issued), NEW a, NEW r, Takes(a, r), ReadFails(a)
  PROVE  Outcome(ac', calls', issued')
<1> DEFINE b == [a EXCEPT !.cerr = TRUE]
<1>1. a \in Contexts /\ a.replies = ac.replies /\ a.invalid = ac.invalid
  BY Zenon DEF Takes
<1>2. b \in Contexts /\ b.replies = ac.replies /\ b.invalid = ac.invalid
  BY Zenon, <1>1, EventUpdates DEF SameQueues, SameLists
<1>3. Disconnect(b) /\ issued' = issued
  BY Zenon DEF ReadFails
<1> HIDE DEF b
<1>4. Ended(ac', calls', issued)
  BY Zenon, <1>2, <1>3, ServedDisconnect
<1>5. QED
  BY Zenon, <1>3, <1>4 DEF Outcome

(* Only regular commands wait in replies and sub.invalid. *)
LEMMA OwedRegular ==
  ASSUME NEW P, NEW V, NEW R, NEW G, NEW S, NEW T, NEW shut, NEW on, NEW I, NEW O,
         InStep(P, V, R, G, S, T, shut, on, I, O)
  PROVE  \A c \in Owed(P, V) : Kind[c] = "regular"
<1>1. P \in Seq(Regulars(I)) /\ V \in Seq(Regulars(I))
  BY Zenon DEF InStep, Typed
<1>2. Range(P) \subseteq Regulars(I) /\ Range(V) \subseteq Regulars(I)
  BY SMT, <1>1 DEF Range
<1>3. QED
  BY Zenon, <1>2 DEF Owed, Regulars

(* A reply to a command that was sent while subscribed. *)
LEMMA ServedInvalid ==
  ASSUME Counting, Served(ac, calls, issued), NEW a, NEW r, Takes(a, r), ac.input # <<>>,
         r \in Answered(issued), a.replies = <<>>,
         RunCallback(Head(a.invalid), [a EXCEPT !.invalid = ShiftCallback(@)], r), ~sloppy'
  PROVE  Outcome(ac', calls', issued')
<1> DEFINE b == [a EXCEPT !.invalid = Tail(@)]
           X == Owed(ac.replies, ac.invalid)
           fn == Head(a.invalid)
<1>1. Linked(ac, sock, toServer, toClient, srv.subs, issued) /\ CalledOnce(calls, issued, X)
  BY Zenon DEF Served
<1>2. PICK O : InTouch(ac, sock, toServer, toClient, srv.subs, issued, O)
  BY Zenon, <1>1 DEF Linked
<1>3. /\ ac.input \o toClient # <<>> /\ Head(ac.input \o toClient) = r
      /\ Tail(ac.input \o toClient) = a.input \o toClient
      /\ a.input \in Seq(Replies(issued)) /\ r \in Replies(issued)
      /\ Going(a, sock, toServer) = Going(ac, sock, toServer) /\ HasCallback(a) = HasCallback(ac)
  BY Zenon, <1>1, TakesFirst
<1>4. a \in Contexts /\ a.invalid = ac.invalid /\ a.replies = ac.replies /\ a.invalid \in Seq(Callbacks)
  BY Zenon DEF Takes, Contexts
<1>5. InStep(ac.replies, ac.invalid, ac.input \o toClient, Going(ac, sock, toServer), HasCallback(ac), srv.subs,
             sock = "closed", "SUBSCRIBED" \in ac.flags, issued, O)
  BY Zenon, <1>2 DEF InTouch
<1>6. /\ InStep(ac.replies, Tail(ac.invalid), a.input \o toClient, Going(ac, sock, toServer), HasCallback(ac), srv.subs,
                 sock = "closed", "SUBSCRIBED" \in ac.flags, issued, O)
       /\ r \in Own(fn) /\ ac.invalid # <<>>
       /\ Owed(ac.replies, Tail(ac.invalid)) = X \ {fn} /\ fn \in X
  <2> DEFINE R == ac.input \o toClient
             P == ac.replies
             V == ac.invalid
             G == Going(ac, sock, toServer)
             S == HasCallback(ac)
             shut == sock = "closed"
             on == "SUBSCRIBED" \in ac.flags
  <2>1. InStep(P, V, R, G, S, srv.subs, shut, on, issued, O) /\ R # <<>> /\ P = <<>> /\ Head(R) \in Answered(issued)
    BY Zenon, <1>3, <1>4, <1>5
  <2> HIDE DEF R, P, V, G, S, shut, on
  <2>2. /\ V # <<>> /\ InStep(P, Tail(V), Tail(R), G, S, srv.subs, shut, on, issued, O)
        /\ Head(V) \in Regulars(issued) /\ Head(R) \in Own(Head(V))
        /\ Owed(P, Tail(V)) = Owed(P, V) \ {Head(V)} /\ Head(V) \in Owed(P, V)
    BY Zenon, <2>1, InvalidTaken
  <2>3. QED
    BY Zenon, <1>3, <1>4, <2>2 DEF R, P, V, G, S, shut, on
<1>7. Tail(a.invalid) \in Seq(Callbacks)
  BY SMT, <1>4, <1>6
<1>8. /\ b \in Contexts /\ b.status = "open" /\ b.replies = ac.replies /\ b.invalid = Tail(ac.invalid)
      /\ b.input = a.input /\ b.obuf = ac.obuf /\ b.sub = ac.sub /\ b.flags = ac.flags
  BY Zenon, <1>7 DEF Takes, Contexts
<1>9. RunCallback(fn, b, r)
  BY Zenon DEF ShiftCallback
<1> HIDE DEF b
<1>10. Going(b, sock, toServer) = Going(ac, sock, toServer) /\ HasCallback(b) = HasCallback(ac)
  BY Zenon, <1>8 DEF Going, HasCallback
<1>11. InTouch(b, sock, toServer, toClient, srv.subs, issued, O)
  BY Zenon, <1>8, <1>10, <1>6 DEF InTouch
<1>12. Linked(b, sock, toServer, toClient, srv.subs, issued)
  BY Zenon, <1>1, <1>3, <1>8, <1>11 DEF Linked
<1>13. X \subseteq issued
  BY Zenon, <1>5, OwedIssued
<1>14. Owed(b.replies, b.invalid) = X \ {fn}
  BY Zenon, <1>8, <1>6
<1> HIDE DEF X, fn
<1>15. QED
  BY Zenon, <1>1, <1>8, <1>9, <1>6, <1>12, <1>13, <1>14, ServedRun

(* The context without what the message r ends. *)
Without(a, r) == IF r.what # "unsubscribe" THEN a
                 ELSE [a EXCEPT !.sub[r.topic] = None,
                                !.flags = IF r.count = 0 THEN @ \ {"SUBSCRIBED"} ELSE @]

(* What __redisGetSubscribeCallback changes in the context. *)
LEMMA WithoutFields ==
  ASSUME NEW a \in Contexts, NEW r \in Messages, NEW b, b = Without(a, r)
  PROVE  /\ b \in Contexts /\ b.status = a.status /\ b.replies = a.replies /\ b.invalid = a.invalid
         /\ b.input = a.input /\ b.obuf = a.obuf /\ b.flags \subseteq a.flags
         /\ b.sub = IF Unsubscribes(r) THEN [a.sub EXCEPT ![r.topic] = None] ELSE a.sub
         /\ "SUBSCRIBED" \in b.flags <=> "SUBSCRIBED" \in a.flags /\ ~LeavesAll(r)
<1>1. CASE r.what # "unsubscribe"
  BY Zenon, <1>1 DEF Without, Unsubscribes, LeavesAll
<1>2. CASE r.what = "unsubscribe"
  <2> DEFINE s2 == [a.sub EXCEPT ![r.topic] = None]
             f2 == IF r.count = 0 THEN a.flags \ {"SUBSCRIBED"} ELSE a.flags
  <2>1. b = [a EXCEPT !.sub = s2, !.flags = f2]
    BY Zenon, <1>2 DEF Without
  <2>2. s2 \in [Topics -> Callbacks]
    BY Zenon DEF Contexts, Callbacks
  <2>3. f2 \in SUBSET {"SUBSCRIBED", "MONITORING", "CONNECTED", "DISCONNECTING", "FREEING"} /\ f2 \subseteq a.flags
    BY Zenon DEF Contexts
  <2>4. "SUBSCRIBED" \in f2 <=> "SUBSCRIBED" \in a.flags /\ r.count # 0
    BY Zenon
  <2> HIDE DEF s2, f2
  <2>5. /\ b \in Contexts /\ b.status = a.status /\ b.replies = a.replies /\ b.invalid = a.invalid
        /\ b.input = a.input /\ b.obuf = a.obuf /\ b.flags = f2 /\ b.sub = s2
    BY ZenonT(60), <2>1, <2>2, <2>3 DEF Contexts
  <2>6. QED
    BY Zenon, <1>2, <2>3, <2>4, <2>5 DEF Unsubscribes, LeavesAll, s2
<1>3. QED
  BY Zenon, <1>1, <1>2

(* A message of a subscription. *)
LEMMA ServedMessage ==
  ASSUME Counting, Served(ac, calls, issued), NEW a, NEW r, Takes(a, r), ac.input # <<>>, r \in Messages,
         a.sub[r.topic] # None => RunCallback(a.sub[r.topic], Without(a, r), r), ~sloppy'
  PROVE  Outcome(ac', calls', issued')
<1> DEFINE b == Without(a, r)
           X == Owed(ac.replies, ac.invalid)
           fn == a.sub[r.topic]
<1>1. Linked(ac, sock, toServer, toClient, srv.subs, issued) /\ CalledOnce(calls, issued, X)
  BY Zenon DEF Served
<1>2. PICK O : InTouch(ac, sock, toServer, toClient, srv.subs, issued, O)
  BY Zenon, <1>1 DEF Linked
<1>3. /\ ac.input \o toClient # <<>> /\ Head(ac.input \o toClient) = r
      /\ Tail(ac.input \o toClient) = a.input \o toClient
      /\ a.input \in Seq(Replies(issued))
  BY Zenon, <1>1, TakesFirst
<1>4. /\ a \in Contexts /\ a.status = "open" /\ a.invalid = ac.invalid /\ a.replies = ac.replies
      /\ a.sub = ac.sub /\ a.obuf = ac.obuf /\ a.flags = ac.flags
  BY Zenon DEF Takes
<1>5. /\ b \in Contexts /\ b.status = a.status /\ b.replies = a.replies /\ b.invalid = a.invalid
      /\ b.input = a.input /\ b.obuf = a.obuf /\ b.flags \subseteq a.flags
      /\ b.sub = IF Unsubscribes(r) THEN [a.sub EXCEPT ![r.topic] = None] ELSE a.sub
      /\ "SUBSCRIBED" \in b.flags <=> "SUBSCRIBED" \in a.flags /\ ~LeavesAll(r)
  BY Zenon, <1>4, WithoutFields
<1> HIDE DEF b
<1>6. a.sub \in [Topics -> {None} \cup {c \in issued : Kind[c] = "subscribe"}] /\ r.topic \in Topics
  <2>1. r.topic \in Topics
    BY Zenon, ReplyShapes
  <2>2. QED
    BY Zenon, <1>1, <1>4, <2>1 DEF Linked
<1>7. b.sub \in [Topics -> {None} \cup {c \in issued : Kind[c] = "subscribe"}]
  BY Zenon, <1>5, <1>6
<1>8. HasCallback(b) = IF Unsubscribes(r) THEN HasCallback(ac) \ {r.topic} ELSE HasCallback(ac)
  <2>1. CASE Unsubscribes(r)
    <3>1. \A t \in Topics : b.sub[t] = IF t = r.topic THEN None ELSE a.sub[t]
      BY Zenon, <1>5, <1>6, <2>1
    <3>2. \A t : t \in HasCallback(b) <=> t \in HasCallback(ac) \ {r.topic}
      BY Zenon, <1>4, <3>1 DEF HasCallback
    <3>3. QED
      BY Zenon, <2>1, <3>2
  <2>2. CASE ~Unsubscribes(r)
    BY Zenon, <1>4, <1>5, <2>2 DEF HasCallback
  <2>3. QED
    BY Zenon, <2>1, <2>2
<1>9. Going(b, sock, toServer) = Going(ac, sock, toServer)
  BY Zenon, <1>4, <1>5 DEF Going
<1>10. ("SUBSCRIBED" \in b.flags) = ("SUBSCRIBED" \in ac.flags /\ ~LeavesAll(r))
  BY SMT, <1>4, <1>5
<1>11. InStep(ac.replies, ac.invalid, ac.input \o toClient, Going(ac, sock, toServer), HasCallback(ac), srv.subs,
             sock = "closed", "SUBSCRIBED" \in ac.flags, issued, O)
  BY Zenon, <1>2 DEF InTouch
<1>12. /\ InStep(ac.replies, ac.invalid, a.input \o toClient, Going(ac, sock, toServer), HasCallback(b), srv.subs,
                 sock = "closed", "SUBSCRIBED" \in b.flags, issued, O)
       /\ r.topic \in HasCallback(ac)
  <2> DEFINE R == ac.input \o toClient
             P == ac.replies
             V == ac.invalid
             G == Going(ac, sock, toServer)
             S == HasCallback(ac)
             S2 == HasCallback(b)
             shut == sock = "closed"
             on == "SUBSCRIBED" \in ac.flags
             on2 == "SUBSCRIBED" \in b.flags
  <2>1. InStep(P, V, R, G, S, srv.subs, shut, on, issued, O) /\ R # <<>> /\ Head(R) = r
    BY Zenon, <1>3, <1>11
  <2>2. S2 = (IF Unsubscribes(r) THEN S \ {r.topic} ELSE S) /\ on2 = (on /\ ~LeavesAll(r))
    BY Zenon, <1>8, <1>10
  <2> HIDE DEF R, P, V, G, S, S2, shut, on, on2
  <2>3. S2 = (IF Unsubscribes(Head(R)) THEN S \ {Head(R).topic} ELSE S) /\ on2 = (on /\ ~LeavesAll(Head(R)))
        /\ Head(R) \in Messages
    BY Zenon, <2>1, <2>2
  <2>4. Head(R).topic \in S /\ InStep(P, V, Tail(R), G, S2, srv.subs, shut, on2, issued, O)
    BY Zenon, <2>1, <2>3, MessageTaken
  <2>5. r.topic \in S /\ InStep(P, V, Tail(R), G, S2, srv.subs, shut, on2, issued, O)
    BY Zenon, <2>1, <2>4
  <2>6. QED
    BY Zenon, <1>3, <2>5 DEF R, P, V, G, S, S2, shut, on, on2
<1>13. InTouch(b, sock, toServer, toClient, srv.subs, issued, O)
  BY Zenon, <1>4, <1>5, <1>9, <1>12 DEF InTouch
<1>14. Linked(b, sock, toServer, toClient, srv.subs, issued)
  BY Zenon, <1>1, <1>3, <1>4, <1>5, <1>7, <1>13 DEF Linked
<1>15. fn # None /\ Kind[fn] = "subscribe" /\ ~Regular(fn)
  <2>1. fn # None
    BY Zenon, <1>4, <1>12 DEF HasCallback
  <2>2. Kind[fn] = "subscribe"
    BY Zenon, <1>6, <2>1
  <2>3. QED
    BY <2>1, <2>2 DEF Regular
<1>16. Owed(b.replies, b.invalid) = X \ {fn} /\ X \subseteq issued
  <2>1. \A c \in X : Kind[c] = "regular"
    BY ZenonT(60), <1>11, OwedRegular
  <2>2. X \subseteq issued
    BY Zenon, <1>11, OwedIssued
  <2>3. fn \notin X
    BY <1>15, <2>1
  <2>4. QED
    BY Zenon, <1>4, <1>5, <2>2, <2>3
<1>17. RunCallback(fn, b, r)
  BY Zenon, <1>15 DEF b
<1> HIDE DEF X, fn
<1>18. QED
  BY Zenon, <1>1, <1>4, <1>5, <1>14, <1>15, <1>16, <1>17, ServedRun

(* A reply for which replies has no callback. *)
LEMMA ServedUnexpected ==
  ASSUME Counting, Served(ac, calls, issued), NEW a, NEW r, Takes(a, r), ac.input # <<>>, r # Garbage,
         a.replies = <<>>, Unexpected(a, r), ~sloppy'
  PROVE  Outcome(ac', calls', issued')
<1>1. CASE r.type = "error"
  <2>1. ReadFails(a)
    BY Zenon, <1>1 DEF Unexpected
  <2>2. QED
    BY Zenon, <2>1, ServedReadFails
<1>2. CASE r.type # "error" /\ a.flags \cap {"SUBSCRIBED", "MONITORING"} = {}
  <2>1. ac' = [a EXCEPT !.status = "unexpected"] /\ UNCHANGED <<calls, issued, sloppy>>
    BY Zenon, <1>2 DEF Unexpected
  <2>2. Stops(a, "unexpected")
    BY Zenon, <2>1 DEF Stops, Takes, Contexts
  <2>3. Ended(ac', calls', issued)
    BY Zenon, <2>2, ServedStops
  <2>4. QED
    BY Zenon, <2>1, <2>3 DEF Outcome
<1>3. CASE r.type # "error" /\ a.flags \cap {"SUBSCRIBED", "MONITORING"} # {}
  <2>1. a.flags = ac.flags /\ a.invalid = ac.invalid /\ a.replies = ac.replies
    BY Zenon DEF Takes
  <2>2. Linked(ac, sock, toServer, toClient, srv.subs, issued)
    BY Zenon DEF Served
  <2>3. "SUBSCRIBED" \in a.flags
    BY Zenon, <1>3, <2>1, <2>2 DEF Linked
  <2>4. RunCallback(SubscribeCallback(a, r)[1], SubscribeCallback(a, r)[2], r)
    BY Zenon, <1>3, <2>3 DEF Unexpected
  <2>5. r \in Replies(issued)
    BY Zenon, <2>2, TakesFirst
  <2>6. PICK O : InTouch(ac, sock, toServer, toClient, srv.subs, issued, O)
    BY Zenon, <2>2 DEF Linked
  <2>7. issued \in SUBSET Commands
    BY Zenon, <2>6 DEF InTouch, InStep, Typed
  <2>8. CASE r \in Messages
    <3>1. r.type = "array"
      BY Zenon, <2>7, <2>8, ReplyShapes
    <3>2. ASSUME a.sub[r.topic] # None PROVE SubscribeCallback(a, r) = <<a.sub[r.topic], Without(a, r)>>
      BY Zenon, <3>1, <3>2 DEF SubscribeCallback, Without
    <3>3. ASSUME a.sub[r.topic] # None PROVE RunCallback(a.sub[r.topic], Without(a, r), r)
      <4>1. SubscribeCallback(a, r)[1] = a.sub[r.topic] /\ SubscribeCallback(a, r)[2] = Without(a, r)
        BY SMT, <3>2, <3>3
      <4>2. QED
        BY Zenon, <2>4, <4>1
    <3>4. QED
      BY Zenon, <2>8, <3>3, ServedMessage
  <2>9. CASE r \in Answered(issued)
    <3>1. r.type # "array"
      <4>1. r.type \in {"data", "error"}
        BY Zenon, <2>7, <2>9, ReplyShapes
      <4>2. QED
        BY <4>1
    <3>2. a.invalid # <<>>
      <4> DEFINE R == ac.input \o toClient
                 G == Going(ac, sock, toServer)
                 S == HasCallback(ac)
                 shut == sock = "closed"
                 on == "SUBSCRIBED" \in ac.flags
      <4>1. InStep(ac.replies, ac.invalid, R, G, S, srv.subs, shut, on, issued, O)
        BY Zenon, <2>6 DEF InTouch
      <4>2. R # <<>> /\ Head(R) = r
        BY Zenon, <2>2, TakesFirst
      <4> HIDE DEF R, G, S, shut, on
      <4>3. Head(R) \in Answered(issued) /\ ac.replies = <<>>
        BY Zenon, <2>1, <2>9, <4>2
      <4>4. ac.invalid # <<>>
        BY Zenon, <4>1, <4>2, <4>3, InvalidTaken
      <4>5. QED
        BY Zenon, <2>1, <4>4
    <3>3. SubscribeCallback(a, r) = <<Head(a.invalid), [a EXCEPT !.invalid = ShiftCallback(@)]>>
      BY Zenon, <3>1, <3>2 DEF SubscribeCallback
    <3>4. RunCallback(Head(a.invalid), [a EXCEPT !.invalid = ShiftCallback(@)], r)
      <4>1. /\ SubscribeCallback(a, r)[1] = Head(a.invalid)
            /\ SubscribeCallback(a, r)[2] = [a EXCEPT !.invalid = ShiftCallback(@)]
        BY SMT, <3>3
      <4>2. QED
        BY Zenon, <2>4, <4>1
    <3>5. QED
      BY Zenon, <2>9, <3>4, ServedInvalid
  <2>10. CASE r \in Closing
    <3>1. r.type = "error"
      BY <2>10 DEF Closing, Error, Garbage
    <3>2. QED
      BY Zenon, <1>3, <3>1
  <2>11. QED
    BY Zenon, <2>5, <2>8, <2>9, <2>10 DEF Replies
<1>4. QED
  BY Zenon, <1>1, <1>2, <1>3

(* One turn of redisProcessCallbacks. *)
LEMMA ServedReply ==
  ASSUME Counting, ac \in Contexts, Served(ac, calls, issued), ProcessReply, ~sloppy'
  PROVE  Outcome(ac', calls', issued')
<1> DEFINE r == Head(ac.input)
           a == [ac EXCEPT !.input = Tail(@)]
<1>1. ac.status = "open" /\ ac.input # <<>>
  BY Zenon DEF ProcessReply
<1>2. Takes(a, r)
  BY Zenon, <1>1, TakesReply
<1>3. \/ r = Garbage /\ ReadFails(a)
      \/ /\ r # Garbage /\ a.replies # <<>>
         /\ RunCallback(Head(a.replies), [a EXCEPT !.replies = ShiftCallback(@)], r)
      \/ r # Garbage /\ a.replies = <<>> /\ Unexpected(a, r)
  BY Zenon DEF ProcessReply
<1> HIDE DEF a, r
<1>4. QED
  BY Zenon, <1>1, <1>2, <1>3, ServedReadFails, ServedRegular, ServedUnexpected

------------------------------------------------------------------------------
(* The socket and the server. *)
LEMMA SplitSeq ==
  ASSUME NEW X, NEW s \in Seq(X), NEW n \in 0 .. Len(s)
  PROVE  /\ SubSeq(s, 1, n) \in Seq(X) /\ SubSeq(s, n + 1, Len(s)) \in Seq(X)
         /\ SubSeq(s, 1, n) \o SubSeq(s, n + 1, Len(s)) = s
<1> DEFINE u == SubSeq(s, 1, n)
           v == SubSeq(s, n + 1, Len(s))
<1>1. u \in Seq(X) /\ Len(u) = n /\ \A i \in 1 .. n : u[i] = s[i]
  BY SMT
<1>2. v \in Seq(X) /\ Len(v) = Len(s) - n /\ \A i \in 1 .. Len(v) : v[i] = s[n + i]
  BY SMT
<1> HIDE DEF u, v
<1>3. u \o v \in Seq(X) /\ Len(u \o v) = Len(s)
  BY SMT, <1>1, <1>2
<1>4. \A i \in 1 .. Len(s) : (u \o v)[i] = s[i]
  BY SMT, <1>1, <1>2
<1>5. u \o v = s
  <2>1. \A w \in Seq(X) : w \in [1 .. Len(w) -> X]
    BY SMT
  <2>2. u \o v \in [1 .. Len(s) -> X] /\ s \in [1 .. Len(s) -> X]
    BY Zenon, <1>3, <2>1
  <2>3. u \o v = [i \in 1 .. Len(s) |-> (u \o v)[i]] /\ s = [i \in 1 .. Len(s) |-> s[i]]
    BY Zenon, <2>2
  <2>4. QED
    BY Zenon, <1>4, <2>3
<1>6. QED
  BY Zenon, <1>1, <1>2, <1>5 DEF u, v

(* Concatenation is associative. *)
LEMMA Associative ==
  ASSUME NEW X, NEW s \in Seq(X), NEW t \in Seq(X), NEW u \in Seq(X)
  PROVE  (s \o t) \o u = s \o (t \o u) /\ s \o t \in Seq(X)
BY SMT

(* A sequence of one element. *)
LEMMA SingleTyped ==
  ASSUME NEW X, NEW e \in X
  PROVE  <<e>> \in Seq(X)
BY SMT

(* Appending an element concatenates a sequence of one. *)
LEMMA AppendConcat ==
  ASSUME NEW X, NEW s \in Seq(X), NEW e \in X
  PROVE  Append(s, e) = s \o <<e>>
BY SMT

(* Concatenating the empty sequence changes nothing. *)
LEMMA NothingAdded ==
  ASSUME NEW X, NEW s \in Seq(X), NEW t \in Seq(X)
  PROVE  s \o t \in Seq(X) /\ (s \o t) \o <<>> = s \o t /\ s \o <<>> = s
BY SMT

(* The messages of the server, field by field. *)
LEMMA MessageTyped ==
  ASSUME NEW w \in {"subscribe", "unsubscribe", "message"}, NEW t \in Topics, NEW n \in Nat
  PROVE  /\ Message(w, t, n) \in Messages
         /\ Message(w, t, n).what = w /\ Message(w, t, n).topic = t /\ Message(w, t, n).count = n
BY SMT DEF Messages, Message

(* b is a after the first n replies of tc have been read, which leaves t2. *)
Reads(a, b, n, tc, t2) ==
  /\ a \in Contexts /\ n \in 0 .. Len(tc)
  /\ SameLists(b, [a EXCEPT !.input = b.input])
  /\ b.input = a.input \o SubSeq(tc, 1, n) /\ t2 = SubSeq(tc, n + 1, Len(tc))

(* redisBufferRead moves replies from the socket into the reader and keeps the
   context in step. *)
LEMMA LinkedRead ==
  ASSUME NEW a, NEW sk, NEW ts, NEW tc, NEW sb, NEW I, Linked(a, sk, ts, tc, sb, I),
         NEW n, NEW b, NEW t2, Reads(a, b, n, tc, t2)
  PROVE  /\ Linked(b, sk, ts, t2, sb, I)
         /\ Owed(b.replies, b.invalid) = Owed(a.replies, a.invalid)
<1> DEFINE s1 == SubSeq(tc, 1, n)
           s2 == SubSeq(tc, n + 1, Len(tc))
<1>1. a.input \in Seq(Replies(I)) /\ tc \in Seq(Replies(I))
  BY Zenon DEF Linked
<1>2. s1 \in Seq(Replies(I)) /\ s2 \in Seq(Replies(I)) /\ s1 \o s2 = tc
  BY Zenon, <1>1, SplitSeq DEF Reads
<1> HIDE DEF s1, s2
<1>3. (a.input \o s1) \o s2 = a.input \o tc /\ a.input \o s1 \in Seq(Replies(I))
  <2>1. (a.input \o s1) \o s2 = a.input \o (s1 \o s2) /\ a.input \o s1 \in Seq(Replies(I))
    BY Zenon, <1>1, <1>2, Associative
  <2>2. QED
    BY Zenon, <1>2, <2>1
<1>4. b.input \o s2 = a.input \o tc /\ b.input \in Seq(Replies(I))
  BY Zenon, <1>3 DEF s1, Reads
<1>5. /\ b.replies = a.replies /\ b.invalid = a.invalid /\ b.sub = a.sub /\ b.obuf = a.obuf
      /\ "SUBSCRIBED" \in b.flags <=> "SUBSCRIBED" \in a.flags
      /\ "MONITORING" \in b.flags <=> "MONITORING" \in a.flags
  BY Zenon DEF Reads, SameLists, Contexts
<1>6. ("SUBSCRIBED" \in b.flags) = ("SUBSCRIBED" \in a.flags)
  BY SMT, <1>5
<1>7. Going(b, sk, ts) = Going(a, sk, ts) /\ HasCallback(b) = HasCallback(a)
  BY Zenon, <1>5 DEF Going, HasCallback
<1>8. \A O : InTouch(b, sk, ts, s2, sb, I, O) = InTouch(a, sk, ts, tc, sb, I, O)
  BY Zenon, <1>4, <1>5, <1>6, <1>7 DEF InTouch
<1>9. \E O : InTouch(b, sk, ts, s2, sb, I, O)
  BY Zenon, <1>8 DEF Linked
<1>10. Linked(b, sk, ts, s2, sb, I)
  BY Zenon, <1>2, <1>4, <1>5, <1>9 DEF Linked
<1>11. QED
  BY Zenon, <1>5, <1>10 DEF s2, Reads

(* b is a after n commands have been written to the socket, which then holds t2. *)
Writes(a, b, n, sk, ts, t2) ==
  /\ a \in Contexts /\ n \in 0 .. Len(a.obuf) /\ sk \in {"up", "closed"}
  /\ SameLists(b, [a EXCEPT !.obuf = b.obuf])
  /\ b.obuf = SubSeq(a.obuf, n + 1, Len(a.obuf))
  /\ t2 = IF sk = "up" THEN ts \o SubSeq(a.obuf, 1, n) ELSE ts

(* redisBufferWrite moves commands from the buffer into the socket and keeps the
   context in step. *)
LEMMA LinkedWrite ==
  ASSUME NEW a, NEW sk, NEW ts, NEW tc, NEW sb, NEW I, Linked(a, sk, ts, tc, sb, I),
         NEW n, NEW b, NEW t2, Writes(a, b, n, sk, ts, t2)
  PROVE  /\ Linked(b, sk, t2, tc, sb, I)
         /\ Owed(b.replies, b.invalid) = Owed(a.replies, a.invalid)
<1> DEFINE s1 == SubSeq(a.obuf, 1, n)
           s2 == SubSeq(a.obuf, n + 1, Len(a.obuf))
<1>1. a.obuf \in Seq(I) /\ ts \in Seq(I)
  BY Zenon DEF Linked
<1>2. s1 \in Seq(I) /\ s2 \in Seq(I) /\ s1 \o s2 = a.obuf
  BY Zenon, <1>1, SplitSeq DEF Writes
<1>3. b.obuf = s2 /\ t2 = IF sk = "up" THEN ts \o s1 ELSE ts
  BY Zenon DEF Writes
<1> HIDE DEF s1, s2
<1>4. (ts \o s1) \o s2 = ts \o a.obuf /\ ts \o s1 \in Seq(I)
  <2>1. \A s, t, u \in Seq(I) : (s \o t) \o u = s \o (t \o u) /\ s \o t \in Seq(I)
    BY Zenon, Associative
  <2>2. (ts \o s1) \o s2 = ts \o (s1 \o s2) /\ ts \o s1 \in Seq(I)
    BY Zenon, <1>1, <1>2, <2>1
  <2>3. QED
    BY Zenon, <1>2, <2>2
<1>5. /\ b.replies = a.replies /\ b.invalid = a.invalid /\ b.sub = a.sub /\ b.input = a.input
      /\ "SUBSCRIBED" \in b.flags <=> "SUBSCRIBED" \in a.flags
      /\ "MONITORING" \in b.flags <=> "MONITORING" \in a.flags
  BY Zenon DEF Writes, SameLists, Contexts
<1>6. ("SUBSCRIBED" \in b.flags) = ("SUBSCRIBED" \in a.flags)
  BY SMT, <1>5
<1>7. Going(b, sk, t2) = Going(a, sk, ts) /\ HasCallback(b) = HasCallback(a) /\ t2 \in Seq(I)
  <2>1. CASE sk = "up"
    <3>1. sk # "closed"
      BY <2>1
    <3>2. t2 = ts \o s1
      BY Zenon, <1>3, <2>1
    <3>3. QED
      BY Zenon, <1>3, <1>4, <1>5, <3>1, <3>2 DEF Going, HasCallback
  <2>2. CASE sk = "closed"
    <3>1. sk # "up"
      BY <2>2
    <3>2. QED
      BY Zenon, <1>1, <1>3, <1>5, <2>2, <3>1 DEF Going, HasCallback
  <2>3. QED
    BY Zenon, <2>1, <2>2 DEF Writes
<1>8. \A O : InTouch(b, sk, t2, tc, sb, I, O) = InTouch(a, sk, ts, tc, sb, I, O)
  BY Zenon, <1>5, <1>6, <1>7 DEF InTouch
<1>9. \E O : InTouch(b, sk, t2, tc, sb, I, O)
  BY Zenon, <1>8 DEF Linked
<1>10. QED
  BY Zenon, <1>2, <1>3, <1>5, <1>7, <1>9 DEF Linked

(* A socket that connects, or fails to, keeps the context in step. *)
LEMMA LinkedSocket ==
  ASSUME NEW a, NEW sk, NEW ts, NEW tc, NEW sb, NEW I, Linked(a, sk, ts, tc, sb, I), sk # "closed",
         NEW s2, s2 # "closed"
  PROVE  Linked(a, s2, ts, tc, sb, I)
<1>1. (sk = "closed") = FALSE /\ (s2 = "closed") = FALSE
  BY SMT
<1>2. Going(a, sk, ts) = Going(a, s2, ts)
  BY Zenon DEF Going
<1>3. \A O : InTouch(a, sk, ts, tc, sb, I, O) = InTouch(a, s2, ts, tc, sb, I, O)
  BY Zenon, <1>1, <1>2 DEF InTouch
<1>4. QED
  BY Zenon, <1>3 DEF Linked

(* The parameters of InTouch while the connection is up. *)
LEMMA TouchUp ==
  ASSUME NEW a, NEW ts, NEW tc, NEW sb, NEW I, NEW O
  PROVE  InTouch(a, "up", ts, tc, sb, I, O) <=>
         InStep(a.replies, a.invalid, a.input \o tc, ts \o a.obuf, HasCallback(a), sb,
                FALSE, "SUBSCRIBED" \in a.flags, I, O)
<1>1. ("up" = "closed") = FALSE
  OBVIOUS
<1>2. Going(a, "up", ts) = ts \o a.obuf
  BY Zenon, <1>1 DEF Going
<1>3. QED
  BY Zenon, <1>1, <1>2 DEF InTouch

(* The parameters of InTouch when the peer has closed. *)
LEMMA TouchClosed ==
  ASSUME NEW a, NEW ts, NEW tc, NEW sb, NEW I, NEW O
  PROVE  InTouch(a, "closed", ts, tc, sb, I, O) <=>
         InStep(a.replies, a.invalid, a.input \o tc, <<>>, HasCallback(a), sb,
                TRUE, "SUBSCRIBED" \in a.flags, I, O)
<1>1. ("closed" = "closed") = TRUE
  OBVIOUS
<1>2. Going(a, "closed", ts) = <<>>
  BY Zenon DEF Going
<1>3. QED
  BY Zenon, <1>1, <1>2 DEF InTouch

(* All that comes, when the server adds M. *)
LEMMA MoreComes ==
  ASSUME NEW a, NEW tc, NEW I, a.input \in Seq(Replies(I)), tc \in Seq(Replies(I)), NEW M \in Seq(Replies(I))
  PROVE  a.input \o (tc \o M) = (a.input \o tc) \o M /\ tc \o M \in Seq(Replies(I))
<1>1. \A s, t, u \in Seq(Replies(I)) : (s \o t) \o u = s \o (t \o u) /\ s \o t \in Seq(Replies(I))
  BY Zenon, Associative
<1>2. QED
  BY Zenon, <1>1

(* A message of a topic the client is subscribed to keeps the context in step. *)
LEMMA LinkedSpeaks ==
  ASSUME NEW a, NEW ts, NEW tc, NEW sb, NEW I, Linked(a, "up", ts, tc, sb, I), NEW t \in sb, sb \in SUBSET Topics
  PROVE  Linked(a, "up", ts, Append(tc, Message("message", t, 0)), sb, I)
<1> DEFINE m == Message("message", t, 0)
           R == a.input \o tc
           P == a.replies
           V == a.invalid
           G == ts \o a.obuf
           S == HasCallback(a)
           on == "SUBSCRIBED" \in a.flags
<1>1. PICK O : InTouch(a, "up", ts, tc, sb, I, O)
  BY Zenon DEF Linked
<1>2. InStep(P, V, R, G, S, sb, FALSE, on, I, O)
  BY Zenon, <1>1, TouchUp
<1>3. m \in Replies(I)
  <2>1. t \in Topics /\ 0 \in Nat
    OBVIOUS
  <2>2. m \in Messages
    BY Zenon, <2>1, MessageTyped
  <2>3. QED
    BY Zenon, <2>2 DEF Replies
<1>4. a.input \in Seq(Replies(I)) /\ tc \in Seq(Replies(I)) /\ <<m>> \in Seq(Replies(I))
  <2>1. <<m>> \in Seq(Replies(I))
    BY Zenon, <1>3, SingleTyped
  <2>2. QED
    BY Zenon, <2>1 DEF Linked
<1>5. Append(tc, m) = tc \o <<m>>
  BY Zenon, <1>3, <1>4, AppendConcat
<1>6. InStep(P, V, R \o <<m>>, G, S, sb, FALSE, on, I, O)
  <2> HIDE DEF R, P, V, G, S, on
  <2>1. QED
    BY Zenon, <1>2, Spoken
<1>7. a.input \o (tc \o <<m>>) = R \o <<m>> /\ tc \o <<m>> \in Seq(Replies(I))
  BY Zenon, <1>4, MoreComes
<1>8. InTouch(a, "up", ts, tc \o <<m>>, sb, I, O)
  BY Zenon, <1>6, <1>7, TouchUp
<1>9. QED
  BY Zenon, <1>5, <1>7, <1>8 DEF Linked

(* The peer closes, with or without a last word, and the context stays in step:
   what had not been answered will not be. *)
LEMMA LinkedCloses ==
  ASSUME NEW a, NEW ts, NEW tc, NEW sb, NEW I, Linked(a, "up", ts, tc, sb, I)
  PROVE  /\ Linked(a, "closed", ts, tc, sb, I) /\ Linked(a, "closed", ts, <<>>, sb, I)
         /\ Linked(a, "closed", ts, Append(tc, Error(None)), sb, I)
         /\ Linked(a, "closed", ts, Append(tc, Garbage), sb, I)
<1> DEFINE R == a.input \o tc
           P == a.replies
           V == a.invalid
           G == ts \o a.obuf
           S == HasCallback(a)
           on == "SUBSCRIBED" \in a.flags
<1>1. PICK O : InTouch(a, "up", ts, tc, sb, I, O)
  BY Zenon DEF Linked
<1>2. InStep(P, V, R, G, S, sb, FALSE, on, I, O)
  BY Zenon, <1>1, TouchUp
<1>3. a.input \in Seq(Replies(I)) /\ tc \in Seq(Replies(I)) /\ <<>> \in Seq(Replies(I))
  <2>1. <<>> \in Seq(Replies(I))
    OBVIOUS
  <2>2. QED
    BY Zenon, <2>1 DEF Linked
<1>4. R \in Seq(Replies(I)) /\ R \o <<>> = R /\ a.input \o <<>> = a.input
  BY Zenon, <1>3, NothingAdded
<1>5. InStep(P, V, R, <<>>, S, sb, TRUE, on, I, O)
  <2> HIDE DEF R, P, V, G, S, on
  <2>1. InStep(P, V, R \o <<>>, G, S, sb, FALSE, on, I, O)
    BY Zenon, <1>2, <1>4
  <2>2. QED
    BY Zenon, <1>3, <1>4, <2>1, CutOff
<1>6. InStep(P, V, a.input, <<>>, S, sb, TRUE, on, I, O)
  <2> HIDE DEF P, V, G, S, on
  <2>1. QED
    BY Zenon, <1>2, <1>3, CutOff DEF R
<1>7. Linked(a, "closed", ts, tc, sb, I)
  <2>1. InTouch(a, "closed", ts, tc, sb, I, O)
    BY Zenon, <1>5, TouchClosed
  <2>2. QED
    BY Zenon, <2>1 DEF Linked
<1>8. Linked(a, "closed", ts, <<>>, sb, I)
  <2>1. InStep(P, V, a.input \o <<>>, <<>>, S, sb, TRUE, on, I, O)
    BY Zenon, <1>4, <1>6
  <2>2. InTouch(a, "closed", ts, <<>>, sb, I, O)
    BY Zenon, <2>1, TouchClosed
  <2>3. QED
    BY Zenon, <1>3, <2>2 DEF Linked
<1>9. ASSUME NEW e \in Closing PROVE Linked(a, "closed", ts, Append(tc, e), sb, I)
  <2>1. Range(R) \cap Closing = {}
    BY Zenon, <1>2 DEF InStep, Matched
  <2>2. InStep(P, V, R \o <<e>>, <<>>, S, sb, TRUE, on, I, O)
    <3> HIDE DEF R, P, V, G, S, on
    <3>1. QED
      BY Zenon, <1>5, <1>9, <2>1, LastWords
  <2>3. e \in Replies(I)
    BY Zenon, <1>9 DEF Replies
  <2>4. <<e>> \in Seq(Replies(I)) /\ Append(tc, e) = tc \o <<e>>
    BY Zenon, <1>3, <2>3, SingleTyped, AppendConcat
  <2>5. a.input \o (tc \o <<e>>) = R \o <<e>> /\ tc \o <<e>> \in Seq(Replies(I))
    BY Zenon, <1>3, <2>4, MoreComes
  <2>6. InTouch(a, "closed", ts, tc \o <<e>>, sb, I, O)
    BY Zenon, <2>2, <2>5, TouchClosed
  <2>7. QED
    BY Zenon, <2>4, <2>5, <2>6 DEF Linked
<1>10. QED
  BY Zenon, <1>7, <1>8, <1>9 DEF Closing
==============================================================================
