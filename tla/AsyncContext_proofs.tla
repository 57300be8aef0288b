------------------------ MODULE AsyncContext_proofs -------------------------
(***************************************************************************)
(* One asynchronous connection, for any set of commands and topics: every  *)
(* callback runs once, with the reply of its own command.                  *)
(*                                                                         *)
(* The lemmas about the queues are used for the answers of the server and  *)
(* for each action in turn.                                                *)
(***************************************************************************)
EXTENDS AsyncQueues_proofs

------------------------------------------------------------------------------
(* The confirmations of a command that names the topics N, sent in the order f:
   each gives the number of topics that the client is left with. *)
Confirms(M, w, N, f, n) ==
  /\ f \in Bijection(1 .. Cardinality(N), N)
  /\ n \in [1 .. Cardinality(N) -> Nat]
  /\ M = [i \in 1 .. Cardinality(N) |-> Message(w, f[i], n[i])]

(* The numbers of topics left of T when those of N go in the order f. *)
Left(T, N, f) == [i \in 1 .. Cardinality(N) |-> Cardinality(T \ {f[j] : j \in 1 .. i})]

(* What such a sequence of confirmations is. *)
Confirmation(M, w, N, f, n) ==
  /\ About(M, w, N) /\ DOMAIN M = 1 .. Cardinality(N)
  /\ \A i \in 1 .. Cardinality(N) : M[i] \in Messages /\ M[i].topic = f[i] /\ M[i].count = n[i]

(* Topics can be counted. *)
LEMMA FiniteTopics ==
  ASSUME Counting, NEW X \in SUBSET Topics
  PROVE  Cardinality(X) \in Nat /\ (Cardinality(X) = 0 => X = {})
BY Zenon, AsyncAssumption DEF Counting

(* An order of the topics of a command names each of them once. *)
LEMMA BijectionParts ==
  ASSUME NEW k, NEW N, NEW f \in Bijection(1 .. k, N)
  PROVE  /\ f \in [1 .. k -> N] /\ DOMAIN f = 1 .. k
         /\ \A i, j \in 1 .. k : f[i] = f[j] => i = j
BY SMT DEF Bijection, Injection, Surjection, IsInjective

(* The confirmations that the server sends are messages, one for each topic. *)
LEMMA Confirmed ==
  ASSUME Counting, NEW N \in SUBSET Topics, NEW w \in {"subscribe", "unsubscribe"}, NEW f, NEW n, NEW M,
         Confirms(M, w, N, f, n)
  PROVE  Confirmation(M, w, N, f, n)
<1> DEFINE k == Cardinality(N)
<1>1. k \in Nat
  BY Zenon, FiniteTopics
<1>2. f \in Bijection(1 .. k, N) /\ n \in [1 .. k -> Nat] /\ M = [i \in 1 .. k |-> Message(w, f[i], n[i])]
  BY Zenon DEF Confirms
<1> HIDE DEF k
<1>3. f \in [1 .. k -> N]
  BY Zenon, <1>2, BijectionParts
<1>4. DOMAIN M = 1 .. k /\ M = [i \in 1 .. k |-> M[i]] /\ \A i \in 1 .. k : M[i] = Message(w, f[i], n[i])
  BY Zenon, <1>2
<1>5. \A i \in 1 .. k : f[i] \in Topics /\ n[i] \in Nat
  BY Zenon, <1>2, <1>3
<1>6. \A i \in 1 .. k : M[i] \in Messages /\ M[i].what = w /\ M[i].topic = f[i] /\ M[i].count = n[i]
  <2>1. w \in {"subscribe", "unsubscribe", "message"}
    BY Zenon
  <2>2. SUFFICES ASSUME NEW i \in 1 .. k
                 PROVE  M[i] \in Messages /\ M[i].what = w /\ M[i].topic = f[i] /\ M[i].count = n[i]
    BY Zenon
  <2>3. f[i] \in Topics /\ n[i] \in Nat /\ M[i] = Message(w, f[i], n[i])
    BY Zenon, <1>4, <1>5
  <2>4. ASSUME NEW t \in Topics, NEW q \in Nat, M[i] = Message(w, t, q)
        PROVE  M[i] \in Messages /\ M[i].what = w /\ M[i].topic = t /\ M[i].count = q
    BY SMT, <2>1, <2>4, MessageTyped
  <2>5. QED
    BY Zenon, <2>3, <2>4
<1>7. About(M, w, N)
  BY Zenon, <1>1, <1>2, <1>4, <1>6, MessagesAbout
<1>8. QED
  BY Zenon, <1>4, <1>6, <1>7 DEF k, Confirmation

(* What the server answers, by the kind of the command. *)
LEMMA AnswerOf ==
  ASSUME Counting, NEW c \in Commands, srv.subs \in SUBSET Topics, NEW s \in Answers(c)
  PROVE  /\ Kind[c] = "regular" => s[1] = srv.subs /\ (s[2] = <<Data(c)>> \/ s[2] = <<Error(c)>>)
         /\ Kind[c] = "monitor" => s[1] = srv.subs /\ s[2] = <<Data(c)>>
         /\ Kind[c] = "subscribe" => /\ s[1] = srv.subs \cup Names[c]
                                     /\ \E f, n : Confirms(s[2], "subscribe", Names[c], f, n)
         /\ Kind[c] = "unsubscribe" =>
              /\ s[1] = srv.subs \ Names[c]
              /\ \E f : Confirms(s[2], "unsubscribe", Names[c], f, Left(srv.subs, Names[c], f))
<1> DEFINE N == Names[c]
           k == Cardinality(N)
<1>1. N \in SUBSET Topics /\ Kind[c] \in Kinds
  BY Zenon, AsyncAssumption
<1>2. ASSUME Kind[c] = "regular" PROVE s[1] = srv.subs /\ (s[2] = <<Data(c)>> \/ s[2] = <<Error(c)>>)
  <2>1. s \in {<<srv.subs, <<Data(c)>>>>, <<srv.subs, <<Error(c)>>>>}
    BY Zenon, <1>2 DEF Answers
  <2>2. QED
    BY SMT, <2>1
<1>3. ASSUME Kind[c] = "monitor" PROVE s[1] = srv.subs /\ s[2] = <<Data(c)>>
  <2>1. Kind[c] # "regular"
    BY <1>3
  <2>2. s \in {<<srv.subs, <<Data(c)>>>>}
    BY Zenon, <1>3, <2>1 DEF Answers
  <2>3. QED
    BY SMT, <2>2
<1>4. ASSUME Kind[c] = "subscribe"
      PROVE s[1] = srv.subs \cup N /\ \E f, n : Confirms(s[2], "subscribe", N, f, n)
  <2>1. Kind[c] # "regular" /\ Kind[c] # "monitor"
    BY <1>4
  <2>2. PICK f \in Bijection(1 .. k, N) :
          s = <<srv.subs \cup N, [i \in DOMAIN f |-> Message("subscribe", f[i], Cardinality(srv.subs \cup {f[j] : j \in 1..i}))]>>
    BY Zenon, <1>4, <2>1 DEF Answers
  <2> DEFINE n == [i \in 1 .. k |-> Cardinality(srv.subs \cup {f[j] : j \in 1..i})]
  <2>3. k \in Nat
    BY Zenon, <1>1, FiniteTopics
  <2>4. f \in [1 .. k -> N] /\ DOMAIN f = 1 .. k
    BY Zenon, <2>2, BijectionParts
  <2>5. ASSUME NEW i \in 1 .. k PROVE Cardinality(srv.subs \cup {f[j] : j \in 1..i}) \in Nat
    <3>1. 1 .. i \subseteq 1 .. k
      BY SMT, <2>3
    <3>2. srv.subs \cup {f[j] : j \in 1..i} \in SUBSET Topics
      BY Zenon, <1>1, <2>4, <3>1
    <3>3. QED
      BY Zenon, <3>2, FiniteTopics
  <2>6. n \in [1 .. k -> Nat]
    BY Zenon, <2>5
  <2>7. s[1] = srv.subs \cup N /\ s[2] = [i \in 1 .. k |-> Message("subscribe", f[i], n[i])]
    BY Zenon, <2>2, <2>4
  <2> HIDE DEF n
  <2>8. Confirms(s[2], "subscribe", N, f, n)
    BY Zenon, <2>2, <2>6, <2>7 DEF Confirms
  <2>9. QED
    BY Zenon, <2>7, <2>8
<1>5. ASSUME Kind[c] = "unsubscribe"
      PROVE  /\ s[1] = srv.subs \ N
             /\ \E f : Confirms(s[2], "unsubscribe", N, f, Left(srv.subs, N, f))
  <2>1. Kind[c] # "regular" /\ Kind[c] # "monitor" /\ Kind[c] # "subscribe"
    BY <1>5
  <2>2. PICK f \in Bijection(1 .. k, N) :
          s = <<srv.subs \ N, [i \in DOMAIN f |-> Message("unsubscribe", f[i], Cardinality(srv.subs \ {f[j] : j \in 1..i}))]>>
    BY Zenon, <1>5, <2>1 DEF Answers
  <2> DEFINE n == [i \in 1 .. k |-> Cardinality(srv.subs \ {f[j] : j \in 1..i})]
  <2>3. DOMAIN f = 1 .. k
    BY Zenon, <2>2, BijectionParts
  <2>4. ASSUME NEW i \in 1 .. k PROVE Cardinality(srv.subs \ {f[j] : j \in 1..i}) \in Nat
    BY Zenon, FiniteTopics
  <2>5. n \in [1 .. k -> Nat]
    BY Zenon, <2>4
  <2>6. s[1] = srv.subs \ N /\ s[2] = [i \in 1 .. k |-> Message("unsubscribe", f[i], n[i])]
    BY Zenon, <2>2, <2>3
  <2>7. Confirms(s[2], "unsubscribe", N, f, n)
    <3> HIDE DEF n
    <3>1. QED
      BY Zenon, <2>2, <2>5, <2>6 DEF Confirms
  <2>8. Left(srv.subs, N, f) = n
    BY Zenon DEF Left
  <2>9. QED
    BY Zenon, <2>6, <2>7, <2>8
<1>6. QED
  BY Zenon, <1>2, <1>3, <1>4, <1>5

(* The head and the tail of two queues in a row. *)
LEMMA FirstOfTwo ==
  ASSUME NEW X, NEW s \in Seq(X), s # <<>>, NEW t \in Seq(X)
  PROVE  /\ s \o t # <<>> /\ Head(s \o t) = Head(s) /\ Tail(s \o t) = Tail(s) \o t
         /\ Head(s) \in X /\ Tail(s) \in Seq(X)
BY SMT

(* The number of topics that are left tells whether any is. *)
LEMMA LastConfirmed ==
  ASSUME Counting, NEW T \in SUBSET Topics, NEW N \in SUBSET Topics, NEW M, NEW f,
         Confirms(M, "unsubscribe", N, f, Left(T, N, f))
  PROVE  /\ \A r \in Range(M) : LeavesAll(r) => T \subseteq N
         /\ \A x, y : Before(M, x, y) /\ LeavesAll(x) => y.topic \notin T
<1> DEFINE k == Cardinality(N)
           n == Left(T, N, f)
<1>1. k \in Nat
  BY Zenon, FiniteTopics
<1>2. f \in Bijection(1 .. k, N)
  BY Zenon DEF Confirms
<1>3. /\ DOMAIN M = 1 .. k
      /\ \A i \in 1 .. k : M[i] \in Messages /\ M[i].topic = f[i] /\ M[i].count = n[i]
  <2> HIDE DEF n
  <2>1. Confirms(M, "unsubscribe", N, f, n)
    BY Zenon DEF n
  <2>2. "unsubscribe" \in {"subscribe", "unsubscribe"}
    OBVIOUS
  <2>3. Confirmation(M, "unsubscribe", N, f, n)
    BY Zenon, <2>1, <2>2, Confirmed
  <2>4. QED
    BY Zenon, <2>3 DEF Confirmation, k
<1>4. \A i \in 1 .. k : n[i] = Cardinality(T \ {f[j] : j \in 1 .. i})
  BY Zenon DEF Left, k
<1> HIDE DEF n, k
<1>5. /\ f \in [1 .. k -> N] /\ \A i, j \in 1 .. k : f[i] = f[j] => i = j
  BY Zenon, <1>2, BijectionParts
<1>6. ASSUME NEW i \in 1 .. k, LeavesAll(M[i]) PROVE T \subseteq {f[j] : j \in 1 .. i}
  <2>1. Cardinality(T \ {f[j] : j \in 1 .. i}) = 0
    BY Zenon, <1>3, <1>4, <1>6 DEF LeavesAll
  <2>2. T \ {f[j] : j \in 1 .. i} = {}
    BY Zenon, <2>1, FiniteTopics
  <2>3. QED
    BY Zenon, <2>2
<1>7. \A i \in 1 .. k : 1 .. i \subseteq 1 .. k
  BY SMT, <1>1
<1>8. ASSUME NEW r \in Range(M), LeavesAll(r) PROVE T \subseteq N
  <2>1. PICK i \in 1 .. k : r = M[i]
    BY Zenon, <1>3, <1>8 DEF Range
  <2>2. T \subseteq {f[j] : j \in 1 .. i}
    BY Zenon, <1>6, <1>8, <2>1
  <2>3. ASSUME NEW t \in T PROVE t \in N
    <3>1. PICK j \in 1 .. i : t = f[j]
      BY Zenon, <2>2, <2>3
    <3>2. QED
      BY Zenon, <1>5, <1>7, <3>1
  <2>4. QED
    BY Zenon, <2>3
<1>9. ASSUME NEW x, NEW y, Before(M, x, y), LeavesAll(x) PROVE y.topic \notin T
  <2>1. PICK i \in 1 .. k, j \in 1 .. k : i < j /\ x = M[i] /\ y = M[j]
    BY Zenon, <1>3, <1>9 DEF Before
  <2>2. T \subseteq {f[m] : m \in 1 .. i}
    BY Zenon, <1>6, <1>9, <2>1
  <2>3. y.topic = f[j] /\ j \notin 1 .. i
    <3>1. j \notin 1 .. i
      BY SMT, <1>1, <2>1
    <3>2. QED
      BY Zenon, <1>3, <2>1, <3>1
  <2>4. ASSUME f[j] \in {f[m] : m \in 1 .. i} PROVE FALSE
    <3>1. PICK m \in 1 .. i : f[j] = f[m]
      BY Zenon, <2>4
    <3>2. m \in 1 .. k
      BY Zenon, <1>7, <3>1
    <3>3. QED
      BY Zenon, <1>5, <2>1, <2>3, <3>1, <3>2
  <2>5. QED
    BY Zenon, <2>2, <2>3, <2>4
<1>10. QED
  BY Zenon, <1>8, <1>9

(* Whatever the server answers to the next command, the context stays in step. *)
LEMMA LinkedAnswers ==
  ASSUME Counting, NEW a, NEW ts, NEW tc, NEW I, Linked(a, "up", ts, tc, srv.subs, I), ts # <<>>,
         NEW s \in Answers(Head(ts))
  PROVE  Linked(a, "up", Tail(ts), tc \o s[2], s[1], I) /\ Kind[Head(ts)] # "monitor"
<1> DEFINE R == a.input \o tc
           P == a.replies
           V == a.invalid
           G == ts \o a.obuf
           S == HasCallback(a)
           T == srv.subs
           on == "SUBSCRIBED" \in a.flags
           c == Head(ts)
           M == s[2]
<1>1. PICK O : InTouch(a, "up", ts, tc, T, I, O)
  BY Zenon DEF Linked
<1>2. InStep(P, V, R, G, S, T, FALSE, on, I, O)
  BY Zenon, <1>1, TouchUp
<1>3. G # <<>> /\ Head(G) = c /\ Tail(G) = Tail(ts) \o a.obuf /\ c \in I /\ Tail(ts) \in Seq(I)
  BY Zenon, FirstOfTwo DEF Linked
<1>4. I \in SUBSET Commands /\ T \in SUBSET Topics /\ Kind[c] # "monitor"
  BY Zenon, <1>2, <1>3 DEF InStep, Typed
<1>5. c \in Commands /\ Names[c] \in SUBSET Topics /\ Kind[c] \in Kinds
  BY Zenon, <1>3, <1>4, AsyncAssumption
<1> HIDE DEF R, P, V, G, S, on, c, M
<1>6. M \in Seq(Replies(I)) /\ InStep(P, V, R \o M, Tail(G), S, s[1], FALSE, on, I, O)
  <2>0. s \in Answers(c)
    BY Zenon DEF c
  <2>1. CASE Kind[c] = "regular"
    <3>1. s[1] = T /\ (M = <<Data(c)>> \/ M = <<Error(c)>>)
      BY Zenon, <1>4, <1>5, <2>0, <2>1, AnswerOf DEF M
    <3>2. PICK e : e \in {Data(c), Error(c)} /\ M = <<e>>
      BY Zenon, <3>1
    <3>3. IsAnswer(e, Head(G))
      BY Zenon, <1>3, <2>1, <3>2 DEF IsAnswer
    <3>4. InStep(P, V, R \o <<e>>, Tail(G), S, T, FALSE, on, I, O)
      BY Zenon, <1>2, <1>3, <3>3, RegularAnswered
    <3>5. c \in Regulars(I)
      BY Zenon, <1>3, <2>1 DEF Regulars
    <3>6. e \in Replies(I)
      BY Zenon, <3>2, <3>5 DEF Replies, Answered
    <3>7. <<e>> \in Seq(Replies(I))
      BY Zenon, <3>6, SingleTyped
    <3>8. QED
      BY Zenon, <3>1, <3>2, <3>4, <3>7
  <2>2. CASE Kind[c] = "subscribe"
    <3>1. s[1] = T \cup Names[c] /\ \E f, n : Confirms(M, "subscribe", Names[c], f, n)
      BY Zenon, <1>4, <1>5, <2>0, <2>2, AnswerOf DEF M
    <3>2. "subscribe" \in {"subscribe", "unsubscribe"}
      OBVIOUS
    <3>3. About(M, "subscribe", Names[c])
      BY Zenon, <1>5, <3>1, <3>2, Confirmed DEF Confirmation
    <3>4. InStep(P, V, R \o M, Tail(G), S, T \cup Names[Head(G)], FALSE, on, I, O)
      BY Zenon, <1>2, <1>3, <2>2, <3>3, Subscribed
    <3>5. M \in Seq(Replies(I))
      BY Zenon, <3>3, SeqWider DEF About, Replies
    <3>6. QED
      BY Zenon, <1>3, <3>1, <3>4, <3>5
  <2>3. CASE Kind[c] = "unsubscribe"
    <3>1. s[1] = T \ Names[c] /\ \E f : Confirms(M, "unsubscribe", Names[c], f, Left(T, Names[c], f))
      BY Zenon, <1>4, <1>5, <2>0, <2>3, AnswerOf DEF M
    <3>2. PICK f : Confirms(M, "unsubscribe", Names[c], f, Left(T, Names[c], f))
      BY Zenon, <3>1
    <3>3. "unsubscribe" \in {"subscribe", "unsubscribe"}
      OBVIOUS
    <3>4. About(M, "unsubscribe", Names[c])
      BY Zenon, <1>5, <3>2, <3>3, Confirmed DEF Confirmation
    <3>5. /\ \A r \in Range(M) : LeavesAll(r) => T \subseteq Names[c]
          /\ \A x, y : Before(M, x, y) /\ LeavesAll(x) => y.topic \notin T
      BY Zenon, <1>4, <1>5, <3>2, LastConfirmed
    <3>6. InStep(P, V, R \o M, Tail(G), S, T \ Names[Head(G)], FALSE, on, I, O)
      BY Zenon, <1>2, <1>3, <2>3, <3>4, <3>5, Unsubscribed
    <3>7. M \in Seq(Replies(I))
      BY Zenon, <3>4, SeqWider DEF About, Replies
    <3>8. QED
      BY Zenon, <1>3, <3>1, <3>6, <3>7
  <2>4. QED
    BY Zenon, <1>4, <1>5, <2>1, <2>2, <2>3 DEF Kinds
<1>7. a.input \o (tc \o M) = R \o M /\ tc \o M \in Seq(Replies(I))
  BY Zenon, <1>6, MoreComes DEF Linked, R
<1>8. InTouch(a, "up", Tail(ts), tc \o M, s[1], I, O)
  <2>1. InStep(P, V, a.input \o (tc \o M), Tail(ts) \o a.obuf, S, s[1], FALSE, on, I, O)
    BY Zenon, <1>3, <1>6, <1>7
  <2>2. QED
    BY Zenon, <2>1, TouchUp DEF P, V, S, on
<1>9. Linked(a, "up", Tail(ts), tc \o M, s[1], I)
  BY Zenon, <1>3, <1>7, <1>8 DEF Linked
<1>10. QED
  BY Zenon, <1>4, <1>9 DEF M, c

(* The types of what the server answers. *)
LEMMA AnswersTyped ==
  ASSUME Counting, NEW c \in Commands, srv.subs \in SUBSET Topics, NEW s \in Answers(c)
  PROVE  s[1] \in SUBSET Topics /\ s[2] \in Seq(AnyReply)
<1>1. Kind[c] \in Kinds /\ Names[c] \in SUBSET Topics /\ c \in Callbacks
  BY Zenon, AsyncAssumption DEF Callbacks
<1>2. Data(c) \in AnyReply /\ Error(c) \in AnyReply
  BY Zenon, <1>1 DEF AnyReply
<1>3. <<Data(c)>> \in Seq(AnyReply) /\ <<Error(c)>> \in Seq(AnyReply)
  BY Zenon, <1>2, SingleTyped
<1>4. CASE Kind[c] \in {"regular", "monitor"}
  BY Zenon, <1>3, <1>4, AnswerOf
<1>5. CASE Kind[c] \in {"subscribe", "unsubscribe"}
  <2>1. s[1] \in SUBSET Topics /\ \E f, n : Confirms(s[2], Kind[c], Names[c], f, n)
    <3>1. CASE Kind[c] = "subscribe"
      <4>1. s[1] = srv.subs \cup Names[c] /\ \E f, n : Confirms(s[2], "subscribe", Names[c], f, n)
        BY Zenon, <3>1, AnswerOf
      <4>2. QED
        BY Zenon, <1>1, <3>1, <4>1
    <3>2. CASE Kind[c] = "unsubscribe"
      <4>1. s[1] = srv.subs \ Names[c] /\ \E f : Confirms(s[2], "unsubscribe", Names[c], f, Left(srv.subs, Names[c], f))
        BY Zenon, <3>2, AnswerOf
      <4>2. s[1] \in SUBSET Topics
        BY Zenon, <4>1
      <4>3. QED
        BY Zenon, <3>2, <4>1, <4>2
    <3>3. QED
      BY Zenon, <1>5, <3>1, <3>2
  <2>2. About(s[2], Kind[c], Names[c])
    BY Zenon, <1>1, <1>5, <2>1, Confirmed DEF Confirmation
  <2>3. s[2] \in Seq(Messages) /\ Messages \subseteq AnyReply
    BY Zenon, <2>2 DEF About, AnyReply
  <2>4. s[2] \in Seq(AnyReply)
    BY Zenon, <2>3, SeqWider
  <2>5. QED
    BY Zenon, <2>1, <2>4
<1>6. QED
  BY Zenon, <1>1, <1>4, <1>5 DEF Kinds

------------------------------------------------------------------------------
(* Types. *)
TypedStep ==
  /\ ac' \in Contexts /\ cb' \in Callbacks \cup {"out"}
  /\ issued' \in SUBSET Commands /\ sloppy' \in BOOLEAN

(* The type of the context after __redisAsyncDisconnect. *)
LEMMA DisconnectTyped ==
  ASSUME NEW a \in Contexts, Disconnect(a)
  PROVE  ac' \in Contexts /\ ac'.status \in {"freed", "unclean"}
<1>1. CASE Frees(a, calls)
  BY Zenon, <1>1, FreesTyped
<1>2. CASE Stops(a, "unclean")
  BY Zenon, <1>2 DEF Stops
<1>3. QED
  BY Zenon, <1>1, <1>2, Disconnects

(* The types of what a command issued by the program changes. *)
LEMMA IssuedTyped ==
  ASSUME TypeOK, NEW C \in SUBSET Commands, NEW a, Issued(C, a)
  PROVE  issued' \in SUBSET Commands /\ sloppy' \in BOOLEAN
<1>1. issued' \in SUBSET Commands
  BY Zenon DEF Issued, TypeOK
<1>2. sloppy' \in BOOLEAN
  BY SMT DEF Issued
<1>3. QED
  BY Zenon, <1>1, <1>2

(* The types after __redisRunCallback. *)
LEMMA RunTyped ==
  ASSUME TypeOK, NEW a \in Contexts, NEW fn \in Callbacks, NEW r, RunCallback(fn, a, r)
  PROVE  TypedStep
<1>1. CASE fn \in NullFn \cup {None}
  BY Zenon, <1>1 DEF RunCallback, TypedStep, TypeOK
<1>2. CASE fn \notin NullFn \cup {None}
  <2> DEFINE h == Ran(calls, <<fn>>, r)
  <2>1. PICK u \in InCallback(a) :
          /\ Issued(u[2], a)
          /\ IF "FREEING" \in u[1].flags
               THEN AsyncFree(u[1], h) /\ cb' = "out"
               ELSE calls' = h /\ ac' = u[1] /\ cb' = fn
    BY Zenon, <1>2 DEF RunCallback
  <2> HIDE DEF h
  <2>2. u[1] \in Contexts /\ u[2] \in SUBSET Commands
    BY Zenon, InCallbackTyped DEF Answer
  <2>3. issued' \in SUBSET Commands /\ sloppy' \in BOOLEAN
    BY Zenon, <2>1, <2>2, IssuedTyped
  <2>4. ac' \in Contexts /\ cb' \in Callbacks \cup {"out"}
    BY Zenon, <2>1, <2>2, FreeTyped
  <2>5. QED
    BY Zenon, <2>3, <2>4 DEF TypedStep
<1>3. QED
  BY Zenon, <1>1, <1>2

(* The types after a read error. *)
LEMMA ReadFailsTyped ==
  ASSUME TypeOK, NEW a \in Contexts, ReadFails(a)
  PROVE  TypedStep
<1>1. [a EXCEPT !.cerr = TRUE] \in Contexts
  BY Zenon, EventUpdates
<1>2. ac' \in Contexts
  BY Zenon, <1>1, DisconnectTyped DEF ReadFails
<1>3. QED
  BY Zenon, <1>2 DEF ReadFails, TypedStep, TypeOK

(* Only messages are arrays: redisProcessCallbacks may look into their elements. *)
LEMMA ArrayIsMessage ==
  ASSUME NEW r \in AnyReply, r.type = "array"
  PROVE  r \in Messages /\ r.topic \in Topics
<1>1. \A c : Data(c).type # "array" /\ Error(c).type # "array" /\ Garbage.type # "array"
  BY DEF Data, Error, Garbage
<1>2. r \in Messages
  BY Zenon, <1>1 DEF AnyReply
<1>3. QED
  BY Zenon, <1>2, ReplyShapes

(* The types of what __redisGetSubscribeCallback returns. *)
LEMMA SubscribeTyped ==
  ASSUME NEW a \in Contexts, NEW r \in AnyReply, cb \in Callbacks, NEW s, s = SubscribeCallback(a, r)
  PROVE  s[1] \in Callbacks /\ s[2] \in Contexts
<1>1. CASE r.type = "array"
  <2>1. r \in Messages /\ r.topic \in Topics
    BY Zenon, <1>1, ArrayIsMessage
  <2>2. s = <<cb, a>> \/ s = <<a.sub[r.topic], Without(a, r)>>
    BY Zenon, <1>1 DEF SubscribeCallback, Without
  <2>3. a.sub[r.topic] \in Callbacks /\ Without(a, r) \in Contexts
    BY Zenon, <2>1, WithoutFields DEF Contexts
  <2>4. QED
    BY SMT, <2>2, <2>3
<1>2. CASE r.type # "array"
  <2>1. CASE a.invalid = <<>>
    <3>1. s = <<cb, a>>
      BY Zenon, <1>2, <2>1 DEF SubscribeCallback
    <3>2. QED
      BY SMT, <3>1
  <2>2. CASE a.invalid # <<>>
    <3> DEFINE b == [a EXCEPT !.invalid = Tail(@)]
    <3>1. s = <<Head(a.invalid), b>>
      BY Zenon, <1>2, <2>2 DEF SubscribeCallback, ShiftCallback
    <3>2. a.invalid \in Seq(Callbacks)
      BY Zenon DEF Contexts
    <3>3. Head(a.invalid) \in Callbacks /\ Tail(a.invalid) \in Seq(Callbacks)
      BY Zenon, <2>2, <3>2, TailParts
    <3>4. b \in Contexts
      BY Zenon, <3>3 DEF Contexts
    <3> HIDE DEF b
    <3>5. QED
      BY SMT, <3>1, <3>3, <3>4
  <2>3. QED
    BY Zenon, <2>1, <2>2
<1>3. QED
  BY Zenon, <1>1, <1>2

(* The types after a reply for which replies has no callback. *)
LEMMA UnexpectedTyped ==
  ASSUME TypeOK, cb # "out", NEW a \in Contexts, NEW r \in AnyReply, Unexpected(a, r)
  PROVE  TypedStep
<1>1. CASE r.type = "error"
  BY Zenon, <1>1, ReadFailsTyped DEF Unexpected
<1>2. CASE r.type # "error" /\ a.flags \cap {"SUBSCRIBED", "MONITORING"} = {}
  <2>1. /\ ac' = [a EXCEPT !.status = "unexpected"] /\ cb' = "out" /\ UNCHANGED <<calls, issued, sloppy>>
    BY Zenon, <1>2 DEF Unexpected
  <2>2. ac' \in Contexts
    BY Zenon, <2>1 DEF Contexts
  <2>3. QED
    BY Zenon, <2>1, <2>2 DEF TypedStep, TypeOK
<1>3. CASE r.type # "error" /\ a.flags \cap {"SUBSCRIBED", "MONITORING"} # {}
  <2> DEFINE s == IF "SUBSCRIBED" \in a.flags THEN SubscribeCallback(a, r) ELSE <<cb, a>>
  <2>1. RunCallback(s[1], s[2], r)
    BY Zenon, <1>3 DEF Unexpected
  <2>2. cb \in Callbacks
    BY Zenon DEF TypeOK
  <2>3. s[1] \in Callbacks /\ s[2] \in Contexts
    <3>1. CASE "SUBSCRIBED" \in a.flags
      <4>1. s = SubscribeCallback(a, r)
        BY Zenon, <3>1
      <4> HIDE DEF s
      <4>2. QED
        BY Zenon, <2>2, <4>1, SubscribeTyped
    <3>2. CASE "SUBSCRIBED" \notin a.flags
      <4>1. s = <<cb, a>>
        BY Zenon, <3>2
      <4> HIDE DEF s
      <4>2. QED
        BY SMT, <2>2, <4>1
    <3>3. QED
      BY Zenon, <3>1, <3>2
  <2> HIDE DEF s
  <2>4. QED
    BY Zenon, <2>1, <2>3, RunTyped
<1>4. QED
  BY Zenon, <1>1, <1>2, <1>3

(* The types after one turn of redisProcessCallbacks. *)
LEMMA ReplyTyped ==
  ASSUME TypeOK, ProcessReply
  PROVE  TypedStep
<1> DEFINE r == Head(ac.input)
           a == [ac EXCEPT !.input = Tail(@)]
           b == [a EXCEPT !.replies = Tail(@)]
<1>1. ac.status = "open" /\ ac.input # <<>> /\ cb # "out" /\ ac \in Contexts
  BY Zenon DEF ProcessReply, TypeOK
<1>2. Takes(a, r) /\ r \in AnyReply
  BY Zenon, <1>1, TakesReply
<1>3. \/ r = Garbage /\ ReadFails(a)
      \/ r # Garbage /\ a.replies # <<>> /\ RunCallback(Head(a.replies), b, r)
      \/ r # Garbage /\ a.replies = <<>> /\ Unexpected(a, r)
  BY Zenon DEF ProcessReply, ShiftCallback
<1> HIDE DEF a, r
<1>4. a \in Contexts /\ a.replies \in Seq(Callbacks)
  BY Zenon, <1>2 DEF Takes, Contexts
<1>5. ASSUME a.replies # <<>> PROVE Head(a.replies) \in Callbacks /\ b \in Contexts
  <2>1. Head(a.replies) \in Callbacks /\ Tail(a.replies) \in Seq(Callbacks)
    BY Zenon, <1>4, <1>5, TailParts
  <2>2. QED
    BY Zenon, <1>4, <2>1 DEF Contexts
<1> HIDE DEF b
<1>6. QED
  BY Zenon, <1>1, <1>2, <1>3, <1>4, <1>5, ReadFailsTyped, RunTyped, UnexpectedTyped

------------------------------------------------------------------------------
(* The inductive invariant. *)
Clean ==
  /\ ~srv.mon
  /\ ac.status = "none" => ac = [Initialize(FALSE) EXCEPT !.status = "none"] /\ sock = "connecting"
  /\ ac.status \in {"none", "open"} => Served(ac, calls, issued)
  /\ ac.status = "freed" => CalledOnce(calls, issued, {})
  /\ \E X : CalledOnce(calls, issued, X)

AsyncInv == TypeOK /\ (~sloppy => Clean)

(* A step of the library on a context in step leaves one, or the context ends. *)
LEMMA OutcomeClean ==
  ASSUME ~srv.mon, Outcome(ac', calls', issued'), UNCHANGED <<srv, sock, toServer, toClient>>
  PROVE  Clean'
<1>1. CASE ac'.status = "open" /\ Served(ac', calls', issued')
  <2>1. ac'.status # "none" /\ ac'.status # "freed"
    BY <1>1
  <2>2. Served(ac, calls, issued)'
    BY Zenon, <1>1 DEF Served
  <2>3. QED
    BY Zenon, <2>1, <2>2 DEF Clean, Served
<1>2. CASE Ended(ac', calls', issued')
  <2>1. ac'.status \in {"freed", "unclean", "unexpected"}
    BY Zenon, <1>2 DEF Ended
  <2>2. ac'.status # "none" /\ ac'.status # "open"
    BY <2>1
  <2>3. QED
    BY Zenon, <1>2, <2>2 DEF Clean, Ended
<1>3. QED
  BY Zenon, <1>1, <1>2 DEF Outcome

(* The library does nothing to the queues. *)
LEMMA SameClean ==
  ASSUME Clean, ac.status = "open", SameQueues(ac', ac),
         UNCHANGED <<srv, sock, toServer, toClient, calls, issued>>
  PROVE  Clean'
<1>1. ~srv.mon /\ Served(ac, calls, issued)
  BY Zenon DEF Clean
<1>2. Served(ac', calls, issued) /\ ac'.status = "open"
  BY Zenon, <1>1, ServedSame DEF SameQueues
<1>3. QED
  BY Zenon, <1>1, <1>2, OutcomeClean DEF Outcome

(* The context ends from one that has the same queues. *)
LEMMA DisconnectClean ==
  ASSUME Counting, Clean, ac.status = "open", NEW b \in Contexts, b.replies = ac.replies, b.invalid = ac.invalid,
         Disconnect(b) \/ AsyncFree(b, calls), UNCHANGED <<srv, sock, toServer, toClient, issued>>
  PROVE  Clean'
<1>1. ~srv.mon /\ Served(ac, calls, issued)
  BY Zenon DEF Clean
<1>2. CASE Disconnect(b)
  <2>1. Ended(ac', calls', issued)
    BY Zenon, <1>1, <1>2, ServedDisconnect
  <2>2. QED
    BY Zenon, <1>1, <2>1, OutcomeClean DEF Outcome
<1>3. CASE AsyncFree(b, calls)
  <2>1. Frees(b, calls)
    BY Zenon, <1>3 DEF Frees, SameQueues, SameLists
  <2>2. Ended(ac', calls', issued)
    BY Zenon, <1>1, <2>1, ServedFrees
  <2>3. QED
    BY Zenon, <1>1, <2>2, OutcomeClean DEF Outcome
<1>4. QED
  BY Zenon, <1>2, <1>3

(* The type of the context at its end. *)
LEMMA EndTyped ==
  ASSUME NEW b \in Contexts, Disconnect(b) \/ AsyncFree(b, calls)
  PROVE  ac' \in Contexts
BY Zenon, DisconnectTyped, FreeTyped

(* __redisAsyncHandleConnect. *)
LEMMA ConnectUpdates ==
  ASSUME NEW a \in Contexts
  PROVE  HandleConnect(a) \in Contexts /\ SameQueues(HandleConnect(a), a)
<1> DEFINE b == IF sock = "failed" THEN [a EXCEPT !.cerr = TRUE]
                ELSE [a EXCEPT !.flags = @ \cup {"CONNECTED"}]
<1>1. b \in Contexts /\ SameQueues(b, a)
  BY Zenon, EventUpdates, FlagUpdates
<1>2. \/ HandleConnect(a) = [a EXCEPT !.cerr = TRUE]
      \/ HandleConnect(a) = Told(b, "connect", sock # "failed")
      \/ HandleConnect(a) = b
  BY Zenon DEF HandleConnect
<1> HIDE DEF b
<1>3. (sock # "failed") \in BOOLEAN
  OBVIOUS
<1>4. \A ok \in BOOLEAN : Told(b, "connect", ok) \in Contexts /\ SameQueues(Told(b, "connect", ok), b)
  BY Zenon, <1>1, ToldUpdates
<1>5. \A ok \in BOOLEAN : SameQueues(Told(b, "connect", ok), a)
  BY Zenon, <1>1, <1>4, Trans
<1>6. QED
  BY Zenon, <1>1, <1>2, <1>3, <1>4, <1>5, EventUpdates

(* A successful connect keeps the queues. *)
LEMMA ConnectedUpdates ==
  ASSUME ac \in Contexts
  PROVE  Connected \in Contexts /\ SameQueues(Connected, ac)
<1>1. SameQueues(ac, ac)
  BY Zenon DEF SameQueues, SameLists
<1>2. QED
  BY Zenon, <1>1, ConnectUpdates DEF Connected

(* The variables that an action leaves alone keep their types. *)
LEMMA TypedClean ==
  ASSUME TypeOK, TypedStep, UNCHANGED <<env, sock, toServer, toClient>>
  PROVE  TypeOK'
BY Zenon DEF TypeOK, TypedStep, env

------------------------------------------------------------------------------
(* The invariant after one turn of redisProcessCallbacks. *)
LEMMA ProcessReplyInv ==
  ASSUME Counting, AsyncInv, ProcessReply
  PROVE  AsyncInv'
<1>1. TypedStep
  BY Zenon, ReplyTyped DEF AsyncInv
<1>2. UNCHANGED <<env, sock, toServer, toClient>>
  BY Zenon DEF ProcessReply
<1>3. TypeOK'
  BY Zenon, <1>1, <1>2, TypedClean DEF AsyncInv
<1>4. ASSUME ~sloppy' PROVE Clean'
  <2>1. ~sloppy
    <3>1. \/ UNCHANGED sloppy
          \/ \E C, a : Issued(C, a)
      BY Zenon DEF ProcessReply, RunCallback, ReadFails, Unexpected
    <3>2. QED
      BY Zenon, <1>4, <3>1 DEF Issued
  <2>2. ~srv.mon /\ Served(ac, calls, issued) /\ ac \in Contexts
    BY Zenon, <2>1 DEF AsyncInv, Clean, TypeOK, ProcessReply
  <2>3. Outcome(ac', calls', issued')
    BY Zenon, <1>4, <2>2, ServedReply
  <2>4. QED
    BY Zenon, <1>2, <2>2, <2>3, OutcomeClean DEF env
<1>5. QED
  BY Zenon, <1>3, <1>4 DEF AsyncInv

(* An action of the library that ends the connection or leaves the queues alone. *)
LEMMA LibraryInv ==
  ASSUME Counting, AsyncInv, ac.status = "open", NEW b \in Contexts, SameQueues(b, ac),
         \/ Disconnect(b)
         \/ AsyncFree(b, calls)
         \/ ac' = b /\ calls' = calls,
         cb' \in {cb, "out"}, UNCHANGED <<env, sock, toServer, toClient, issued, sloppy>>
  PROVE  AsyncInv'
<1>1. ac' \in Contexts
  BY Zenon, EndTyped
<1>2. TypedStep
  BY Zenon, <1>1 DEF TypedStep, AsyncInv, TypeOK
<1>3. TypeOK'
  BY Zenon, <1>2, TypedClean DEF AsyncInv
<1>4. ASSUME ~sloppy PROVE Clean'
  <2>1. Clean /\ UNCHANGED <<srv, sock, toServer, toClient, issued>>
    BY Zenon, <1>4 DEF AsyncInv, env
  <2>2. b.replies = ac.replies /\ b.invalid = ac.invalid
    BY Zenon DEF SameQueues, SameLists
  <2>3. CASE Disconnect(b) \/ AsyncFree(b, calls)
    BY Zenon, <2>1, <2>2, <2>3, DisconnectClean
  <2>4. CASE ac' = b /\ calls' = calls
    BY Zenon, <2>1, <2>4, SameClean
  <2>5. QED
    BY Zenon, <2>3, <2>4
<1>5. QED
  BY Zenon, <1>3, <1>4 DEF AsyncInv

(* The invariant after redisProcessCallbacks has read all replies. *)
LEMMA NoMoreRepliesInv ==
  ASSUME Counting, AsyncInv, NoMoreReplies
  PROVE  AsyncInv'
<1>1. /\ ac \in Contexts /\ cb \in Callbacks /\ ac.status = "open" /\ cb' = "out"
      /\ UNCHANGED <<env, sock, toServer, toClient, issued, sloppy>>
  BY Zenon DEF AsyncInv, TypeOK, NoMoreReplies
<1>2. SameQueues(ac, ac)
  BY Zenon DEF SameQueues, SameLists
<1>3. CASE Disconnect(ac) \/ (ac' = ac /\ calls' = calls)
  BY Zenon, <1>1, <1>2, <1>3, LibraryInv
<1>4. CASE "MONITORING" \in ac.flags /\ ac' = [ac EXCEPT !.replies = PushCallback(@, cb)]
  <2>1. ac.replies \in Seq(Callbacks)
    BY Zenon, <1>1 DEF Contexts
  <2>2. Append(ac.replies, cb) \in Seq(Callbacks)
    BY Zenon, <1>1, <2>1, AppendParts
  <2>3. ac' \in Contexts
    BY Zenon, <1>1, <1>4, <2>2 DEF Contexts, PushCallback
  <2>4. TypedStep
    BY Zenon, <1>1, <2>3 DEF TypedStep, AsyncInv, TypeOK
  <2>5. TypeOK'
    BY Zenon, <1>1, <2>4, TypedClean DEF AsyncInv
  <2>6. sloppy
    BY Zenon, <1>1, <1>4 DEF AsyncInv, Clean, Served, Linked
  <2>7. QED
    BY Zenon, <1>1, <2>5, <2>6 DEF AsyncInv
<1>5. QED
  BY Zenon, <1>3, <1>4 DEF NoMoreReplies

(* The invariant after a connect that failed. *)
LEMMA ConnectFailsInv ==
  ASSUME Counting, AsyncInv, NEW h, ConnectFails(h)
  PROVE  AsyncInv'
<1>1. ac \in Contexts /\ ac.status = "open" /\ UNCHANGED <<cb, env, sock, toServer, toClient, issued, sloppy>>
  BY Zenon DEF AsyncInv, TypeOK, ConnectFails
<1>2. HandleConnect(ac) \in Contexts /\ SameQueues(HandleConnect(ac), ac)
  BY Zenon, <1>1, ConnectUpdates
<1>3. Disconnect(HandleConnect(ac)) \/ (ac' = HandleConnect(ac) /\ calls' = calls)
  BY Zenon DEF ConnectFails
<1>4. QED
  BY Zenon, <1>1, <1>2, <1>3, LibraryInv

(* The invariant after a read or a write that failed. *)
LEMMA HandlerErrorInv ==
  ASSUME Counting, AsyncInv, HandleRead_Error \/ HandleWrite_Error
  PROVE  AsyncInv'
<1> DEFINE b == [Connected EXCEPT !.cerr = TRUE]
<1>1. /\ ac \in Contexts /\ ac.status = "open" /\ UNCHANGED <<cb, env, sock, toServer, toClient, issued, sloppy>>
      /\ Disconnect(b)
  BY Zenon DEF AsyncInv, TypeOK, HandleRead_Error, HandleWrite_Error
<1>2. Connected \in Contexts /\ SameQueues(Connected, ac)
  BY Zenon, <1>1, ConnectedUpdates
<1>3. b \in Contexts /\ SameQueues(b, Connected)
  BY Zenon, <1>2, EventUpdates
<1> HIDE DEF b
<1>4. SameQueues(b, ac)
  BY Zenon, <1>2, <1>3, Trans
<1>5. QED
  BY Zenon, <1>1, <1>3, <1>4, LibraryInv

(* The invariant after the event loop has found events for the handlers. *)
LEMMA WakeupInv ==
  ASSUME Counting, AsyncInv, Wakeup
  PROVE  AsyncInv'
<1>1. /\ ac \in Contexts /\ ac.status = "open"
      /\ UNCHANGED <<cb, env, sock, toServer, toClient, calls, issued, sloppy>>
  BY Zenon DEF AsyncInv, TypeOK, Wakeup, AtLoop
<1>2. PICK w : ac' = IF adapter.persistent THEN ac
                     ELSE [ac EXCEPT !.reading = @ /\ w[1] # "read", !.writing = @ /\ w[1] # "write"]
  BY Zenon DEF Wakeup
<1>3. (ac.reading /\ w[1] # "read") \in BOOLEAN /\ (ac.writing /\ w[1] # "write") \in BOOLEAN
  OBVIOUS
<1>4. ac' \in Contexts /\ SameQueues(ac', ac)
  BY ZenonT(60), <1>1, <1>2, <1>3 DEF Contexts, SameQueues, SameLists
<1>5. QED
  BY Zenon, <1>1, <1>4, LibraryInv

(* The invariant after the adapter is attached. *)
LEMMA AttachInv ==
  ASSUME Counting, AsyncInv, Attach
  PROVE  AsyncInv'
<1> DEFINE a == [ac EXCEPT !.attached = TRUE]
           b == [a EXCEPT !.onConnect = TRUE]
           d == AddWrite(b)
           e == [d EXCEPT !.onDisconnect = TRUE]
<1>1. /\ ac \in Contexts /\ ac.status = "open"
      /\ UNCHANGED <<cb, env, sock, toServer, toClient, calls, issued, sloppy>>
      /\ ac' \in {a, e}
  BY Zenon DEF AsyncInv, TypeOK, Attach, AtLoop, SetDisconnectCallback, SetConnectCallback
<1>2. a \in Contexts /\ SameQueues(a, ac)
  BY Zenon, <1>1 DEF Contexts, SameQueues, SameLists
<1> HIDE DEF a
<1>3. b \in Contexts /\ SameQueues(b, a)
  BY Zenon, <1>2 DEF Contexts, SameQueues, SameLists
<1> HIDE DEF b
<1>4. d \in Contexts /\ SameQueues(d, b)
  BY Zenon, <1>3, EventUpdates
<1> HIDE DEF d
<1>5. e \in Contexts /\ SameQueues(e, d)
  BY Zenon, <1>4 DEF Contexts, SameQueues, SameLists
<1> HIDE DEF e
<1>6. SameQueues(e, ac)
  <2>1. SameQueues(d, a)
    BY Zenon, <1>3, <1>4, Trans
  <2>2. SameQueues(e, a)
    BY Zenon, <1>5, <2>1, Trans
  <2>3. QED
    BY Zenon, <1>2, <2>2, Trans
<1>7. QED
  BY Zenon, <1>1, <1>2, <1>5, <1>6, LibraryInv

(* The invariant after redisAsyncFree or redisAsyncDisconnect, called by the program. *)
LEMMA UserEndsInv ==
  ASSUME Counting, AsyncInv, UserFree \/ UserDisconnect
  PROVE  AsyncInv'
<1> DEFINE f == [ac EXCEPT !.flags = @ \cup {"FREEING"}]
           d == [ac EXCEPT !.flags = @ \cup {"DISCONNECTING"}]
<1>1. /\ ac \in Contexts /\ ac.status = "open" /\ UNCHANGED <<cb, env, sock, toServer, toClient, issued, sloppy>>
      /\ AsyncFree(f, calls) \/ Disconnect(d) \/ (ac' = d /\ calls' = calls)
  BY Zenon DEF AsyncInv, TypeOK, UserFree, UserDisconnect, AtLoop
<1>2. f \in Contexts /\ SameQueues(f, ac) /\ d \in Contexts /\ SameQueues(d, ac)
  BY Zenon, <1>1, FlagUpdates
<1> HIDE DEF f, d
<1>3. QED
  BY Zenon, <1>1, <1>2, LibraryInv

(* The invariant after redisAsyncConnect. *)
LEMMA ConnectInv ==
  ASSUME AsyncInv, Connect
  PROVE  AsyncInv'
<1>1. PICK failed \in BOOLEAN : ac' = CopyError(Initialize(failed)) /\ sock' = IF failed THEN "failed" ELSE sock
  BY Zenon DEF Connect
<1>2. ac.status = "none" /\ UNCHANGED <<todo, cb, env, toServer, toClient, calls, issued, sloppy>>
  BY Zenon DEF Connect
<1>3. Initialize(failed) \in Contexts
  <2>1. <<>> \in Seq(Callbacks) /\ <<>> \in Seq(Commands) /\ <<>> \in Seq(AnyReply)
        /\ <<>> \in Seq({"connect", "disconnect"} \X BOOLEAN)
    OBVIOUS
  <2>2. [t \in Topics |-> None] \in [Topics -> Callbacks]
    BY Zenon DEF Callbacks
  <2>3. QED
    BY Zenon, <2>1, <2>2 DEF Initialize, Contexts
<1>4. ac' \in Contexts /\ SameQueues(ac', Initialize(failed))
  BY Zenon, <1>1, <1>3, EventUpdates
<1>5. TypeOK'
  <2>1. sock' \in {"connecting", "up", "failed", "closed"}
    BY Zenon, <1>1 DEF AsyncInv, TypeOK
  <2>2. QED
    BY Zenon, <1>2, <1>4, <2>1 DEF AsyncInv, TypeOK, env
<1>6. ASSUME ~sloppy PROVE Clean'
  <2>1. /\ ~srv.mon /\ ac = [Initialize(FALSE) EXCEPT !.status = "none"] /\ sock = "connecting"
        /\ Served(ac, calls, issued)
    BY Zenon, <1>2, <1>6 DEF AsyncInv, Clean
  <2>2. SameLists(Initialize(failed), ac) /\ Initialize(failed).status = "open"
    BY Zenon, <2>1 DEF SameLists, Initialize
  <2>3. SameLists(ac', ac) /\ ac'.status = "open"
    BY Zenon, <1>4, <2>2 DEF SameQueues, SameLists
  <2>4. Served(ac', calls, issued)
    BY Zenon, <2>1, <2>3, ServedSame
  <2>5. sock # "closed" /\ sock' # "closed"
    BY <1>1, <2>1
  <2>6. Linked(ac', sock', toServer, toClient, srv.subs, issued) /\ CalledOnce(calls, issued, Owed(ac'.replies, ac'.invalid))
    BY Zenon, <2>4, <2>5, LinkedSocket DEF Served
  <2>7. Served(ac, calls, issued)'
    BY Zenon, <1>2, <2>6 DEF Served, env
  <2>8. ac'.status # "none" /\ ac'.status # "freed" /\ ~srv'.mon
    BY <1>2, <2>1, <2>3 DEF env
  <2>9. QED
    BY Zenon, <2>7, <2>8 DEF Clean, Served
<1>7. QED
  BY Zenon, <1>2, <1>5, <1>6 DEF AsyncInv

(* The invariant after redisAsyncCommand, called by the program. *)
LEMMA UserCommandInv ==
  ASSUME AsyncInv, NEW c \in Commands, UserCommand(c)
  PROVE  AsyncInv'
<1> DEFINE u == <<AsyncCommand(ac, c), {c}>>
<1>1. /\ ac \in Contexts /\ ac.status = "open" /\ c \in Open(ac) /\ Issued({c}, ac)
      /\ ac' = AsyncCommand(ac, c) /\ UNCHANGED <<todo, cb, env, sock, toServer, toClient, calls>>
  BY Zenon DEF AsyncInv, TypeOK, UserCommand, AtLoop
<1>2. u \in InCallback(ac) /\ u[1] = AsyncCommand(ac, c) /\ u[2] = {c}
  BY Zenon, <1>1 DEF InCallback
<1> HIDE DEF u
<1>3. ac' \in Contexts /\ ac'.status = "open"
  BY Zenon, <1>1, CommandTyped
<1>4. issued' \in SUBSET Commands /\ sloppy' \in BOOLEAN
  BY Zenon, <1>1, IssuedTyped DEF AsyncInv
<1>5. TypedStep
  BY Zenon, <1>1, <1>3, <1>4 DEF TypedStep, AsyncInv, TypeOK
<1>6. TypeOK'
  BY Zenon, <1>1, <1>5, TypedClean DEF AsyncInv
<1>7. ASSUME ~sloppy' PROVE Clean'
  <2>1. ~sloppy
    BY Zenon, <1>1, <1>7 DEF Issued
  <2>2. ~srv.mon /\ Served(ac, calls, issued)
    BY Zenon, <1>1, <2>1 DEF AsyncInv, Clean
  <2>3. Issued(u[2], ac)
    BY Zenon, <1>1, <1>2
  <2>4. Served(u[1], calls, issued')
    BY Zenon, <1>1, <1>2, <1>7, <2>2, <2>3, ServedInCallback
  <2>5. Outcome(ac', calls', issued')
    BY Zenon, <1>1, <1>2, <1>3, <2>4 DEF Outcome
  <2>6. QED
    BY Zenon, <1>1, <2>2, <2>5, OutcomeClean DEF env
<1>8. QED
  BY Zenon, <1>6, <1>7 DEF AsyncInv

(* A handler that keeps the context open. *)
LEMMA OpenClean ==
  ASSUME ~srv'.mon, ac'.status = "open", Linked(ac', sock', toServer', toClient', srv'.subs, issued'),
         CalledOnce(calls', issued', Owed(ac'.replies, ac'.invalid))
  PROVE  Clean'
<1>1. ac'.status # "none" /\ ac'.status # "freed"
  OBVIOUS
<1>2. QED
  BY Zenon, <1>1 DEF Clean, Served

(* The invariant after redisAsyncHandleRead has read from the socket. *)
LEMMA HandleReadInv ==
  ASSUME AsyncInv, HandleRead
  PROVE  AsyncInv'
<1>1. PICK n \in Completes : /\ ac' = AddRead([Connected EXCEPT !.input = @ \o SubSeq(toClient, 1, n)])
                             /\ toClient' = SubSeq(toClient, n + 1, Len(toClient))
  BY Zenon DEF HandleRead
<1>2. /\ ac \in Contexts /\ ac.status = "open" /\ cb' = None /\ n \in 0 .. Len(toClient)
      /\ UNCHANGED <<env, sock, toServer, calls, issued, sloppy>> /\ toClient \in Seq(AnyReply)
  BY Zenon DEF AsyncInv, TypeOK, HandleRead, Completes
<1> DEFINE s1 == SubSeq(toClient, 1, n)
           s2 == SubSeq(toClient, n + 1, Len(toClient))
           b == [Connected EXCEPT !.input = @ \o s1]
<1>3. s1 \in Seq(AnyReply) /\ s2 \in Seq(AnyReply)
  BY Zenon, <1>2, SplitSeq
<1>4. ac' = AddRead(b) /\ toClient' = s2
  BY Zenon, <1>1
<1> HIDE DEF s1, s2
<1>5. Connected \in Contexts /\ SameQueues(Connected, ac)
  BY Zenon, <1>2, ConnectedUpdates
<1>6. Connected.input \in Seq(AnyReply) /\ ac.input \in Seq(AnyReply) /\ Connected.input = ac.input
  BY Zenon, <1>2, <1>5 DEF Contexts, SameQueues, SameLists
<1>7. ac.input \o s1 \in Seq(AnyReply)
  <2>1. \A s, t, u \in Seq(AnyReply) : s \o t \in Seq(AnyReply)
    BY Zenon, Associative
  <2>2. QED
    BY Zenon, <1>3, <1>6, <2>1
<1>8. b = [Connected EXCEPT !.input = ac.input \o s1]
  BY Zenon, <1>6
<1> HIDE DEF b
<1>9. /\ b \in Contexts /\ b.input = ac.input \o s1 /\ b.status = Connected.status
      /\ b.replies = Connected.replies /\ b.invalid = Connected.invalid /\ b.sub = Connected.sub
      /\ b.obuf = Connected.obuf /\ b.flags = Connected.flags
  BY Zenon, <1>5, <1>7, <1>8 DEF Contexts
<1>10. ac' \in Contexts /\ SameQueues(ac', b)
  BY Zenon, <1>4, <1>9, EventUpdates
<1>11. TypeOK'
  BY Zenon, <1>2, <1>3, <1>4, <1>10 DEF AsyncInv, TypeOK, env, Callbacks
<1>12. ASSUME ~sloppy PROVE Clean'
  <2>1. ~srv.mon /\ Served(ac, calls, issued)
    BY Zenon, <1>2, <1>12 DEF AsyncInv, Clean
  <2>2. ac'.input = ac.input \o s1 /\ ac'.status = "open"
    BY Zenon, <1>2, <1>5, <1>9, <1>10 DEF SameQueues, SameLists
  <2>3. SameLists(ac', [ac EXCEPT !.input = ac'.input])
    BY Zenon, <1>2, <1>5, <1>9, <1>10 DEF SameQueues, SameLists, Contexts
  <2>4. Reads(ac, ac', n, toClient, s2)
    BY Zenon, <1>2, <2>2, <2>3 DEF Reads, s1, s2
  <2>5. Linked(ac', sock, toServer, s2, srv.subs, issued) /\ Owed(ac'.replies, ac'.invalid) = Owed(ac.replies, ac.invalid)
    <3>1. Linked(ac, sock, toServer, toClient, srv.subs, issued)
      BY Zenon, <2>1 DEF Served
    <3>2. QED
      BY SMT, <2>4, <3>1, LinkedRead
  <2>6. QED
    BY Zenon, <1>2, <1>4, <2>1, <2>2, <2>5, OpenClean DEF Served, env
<1>13. QED
  BY Zenon, <1>2, <1>11, <1>12 DEF AsyncInv

(* The invariant after redisAsyncHandleWrite has written to the socket. *)
LEMMA HandleWriteInv ==
  ASSUME AsyncInv, HandleWrite
  PROVE  AsyncInv'
<1>1. PICK n \in (IF ac.obuf = <<>> THEN {0} ELSE 1..Len(ac.obuf)) :
        /\ ac' = AddRead(IF BufferWrite(Connected, n).obuf = <<>> THEN DelWrite(BufferWrite(Connected, n))
                         ELSE AddWrite(BufferWrite(Connected, n)))
        /\ toServer' = IF sock = "up" THEN toServer \o SubSeq(ac.obuf, 1, n) ELSE toServer
  BY Zenon DEF HandleWrite
<1>2. /\ ac \in Contexts /\ ac.status = "open" /\ sock \in {"up", "closed"}
      /\ UNCHANGED <<cb, env, sock, toClient, calls, issued, sloppy>> /\ toServer \in Seq(Commands)
  BY Zenon DEF AsyncInv, TypeOK, HandleWrite
<1> DEFINE s1 == SubSeq(ac.obuf, 1, n)
           s2 == SubSeq(ac.obuf, n + 1, Len(ac.obuf))
           b == BufferWrite(Connected, n)
           d == IF b.obuf = <<>> THEN DelWrite(b) ELSE AddWrite(b)
<1>3. ac.obuf \in Seq(Commands)
  BY Zenon, <1>2 DEF Contexts
<1>4. n \in 0 .. Len(ac.obuf)
  <2>1. Len(ac.obuf) \in Nat
    BY SMT, <1>3
  <2>2. {0} \subseteq 0 .. Len(ac.obuf) /\ 1 .. Len(ac.obuf) \subseteq 0 .. Len(ac.obuf)
    BY SMT, <2>1
  <2>3. QED
    BY Zenon, <2>2
<1>5. s1 \in Seq(Commands) /\ s2 \in Seq(Commands)
  BY Zenon, <1>3, <1>4, SplitSeq
<1>6. Connected \in Contexts /\ SameQueues(Connected, ac)
  BY Zenon, <1>2, ConnectedUpdates
<1>7. Connected.obuf = ac.obuf
  BY Zenon, <1>6 DEF SameQueues, SameLists
<1>8. b = [Connected EXCEPT !.obuf = s2]
  BY Zenon, <1>7 DEF BufferWrite
<1>9. ac' = AddRead(d) /\ toServer' = IF sock = "up" THEN toServer \o s1 ELSE toServer
  BY Zenon, <1>1
<1> HIDE DEF s1, s2, b
<1>10. /\ b \in Contexts /\ b.obuf = s2 /\ b.status = Connected.status
       /\ b.replies = Connected.replies /\ b.invalid = Connected.invalid /\ b.sub = Connected.sub
       /\ b.input = Connected.input /\ b.flags = Connected.flags
  BY Zenon, <1>5, <1>6, <1>8 DEF Contexts
<1>11. d \in Contexts /\ SameQueues(d, b)
  BY Zenon, <1>10, EventUpdates
<1> HIDE DEF d
<1>12. ac' \in Contexts /\ SameQueues(ac', b)
  <2>1. AddRead(d) \in Contexts /\ SameQueues(AddRead(d), d)
    BY Zenon, <1>11, EventUpdates
  <2>2. QED
    BY Zenon, <1>9, <1>11, <2>1, Trans
<1>13. toServer' \in Seq(Commands)
  <2>1. \A s, t, u \in Seq(Commands) : s \o t \in Seq(Commands)
    BY Zenon, Associative
  <2>2. QED
    BY Zenon, <1>2, <1>5, <1>9, <2>1
<1>14. TypeOK'
  BY Zenon, <1>2, <1>12, <1>13 DEF AsyncInv, TypeOK, env
<1>15. ASSUME ~sloppy PROVE Clean'
  <2>1. ~srv.mon /\ Served(ac, calls, issued)
    BY Zenon, <1>2, <1>15 DEF AsyncInv, Clean
  <2>2. ac'.obuf = s2 /\ ac'.status = "open"
    BY Zenon, <1>2, <1>6, <1>10, <1>12 DEF SameQueues, SameLists
  <2>3. SameLists(ac', [ac EXCEPT !.obuf = ac'.obuf])
    BY Zenon, <1>2, <1>6, <1>10, <1>12 DEF SameQueues, SameLists, Contexts
  <2>4. Writes(ac, ac', n, sock, toServer, toServer')
    BY Zenon, <1>2, <1>4, <1>9, <2>2, <2>3 DEF Writes, s1, s2
  <2>5. /\ Linked(ac', sock, toServer', toClient, srv.subs, issued)
        /\ Owed(ac'.replies, ac'.invalid) = Owed(ac.replies, ac.invalid)
    <3>1. Linked(ac, sock, toServer, toClient, srv.subs, issued)
      BY Zenon, <2>1 DEF Served
    <3>2. QED
      BY SMT, <2>4, <3>1, LinkedWrite
  <2>6. QED
    BY Zenon, <1>2, <2>1, <2>2, <2>5, OpenClean DEF Served, env
<1>16. QED
  BY Zenon, <1>2, <1>14, <1>15 DEF AsyncInv

(* The invariant after a handler that finds the context gone. *)
LEMMA DanglingInv ==
  ASSUME AsyncInv, Dangling
  PROVE  AsyncInv'
<1>1. /\ ac \in Contexts /\ ac' = [ac EXCEPT !.status = "dangling"] /\ ac.status = "freed"
      /\ UNCHANGED <<cb, env, sock, toServer, toClient, calls, issued, sloppy>>
  BY Zenon DEF AsyncInv, TypeOK, Dangling
<1>2. ac' \in Contexts /\ ac'.status = "dangling"
  BY Zenon, <1>1 DEF Contexts
<1>3. TypedStep
  BY Zenon, <1>1, <1>2 DEF TypedStep, AsyncInv, TypeOK
<1>4. TypeOK'
  BY Zenon, <1>1, <1>3, TypedClean DEF AsyncInv
<1>5. ac'.status # "none" /\ ac'.status # "open" /\ ac'.status # "freed"
  BY <1>2
<1>6. QED
  BY Zenon, <1>1, <1>4, <1>5 DEF AsyncInv, Clean, env

(* The invariant after the socket has connected or failed to. *)
LEMMA SocketDecidesInv ==
  ASSUME AsyncInv, SocketDecides
  PROVE  AsyncInv'
<1>1. /\ ac.status = "open" /\ sock = "connecting" /\ sock' \in {"up", "failed"}
      /\ UNCHANGED <<ac, todo, cb, env, toServer, toClient, calls, issued, sloppy>>
  BY Zenon DEF SocketDecides
<1>2. TypeOK'
  BY Zenon, <1>1 DEF AsyncInv, TypeOK, env
<1>3. ASSUME ~sloppy PROVE Clean'
  <2>1. ~srv.mon /\ Served(ac, calls, issued)
    BY Zenon, <1>1, <1>3 DEF AsyncInv, Clean
  <2>2. sock # "closed" /\ sock' # "closed"
    BY <1>1
  <2>3. Linked(ac, sock', toServer, toClient, srv.subs, issued)
    BY Zenon, <2>1, <2>2, LinkedSocket DEF Served
  <2>4. QED
    BY Zenon, <1>1, <2>1, <2>3, OpenClean DEF Served, env
<1>4. QED
  BY Zenon, <1>1, <1>2, <1>3 DEF AsyncInv

(* The invariant after the server has answered a command. *)
LEMMA ServerAnswersInv ==
  ASSUME Counting, AsyncInv, ServerAnswers
  PROVE  AsyncInv'
<1> DEFINE c == Head(toServer)
<1>1. /\ ac.status = "open" /\ sock = "up" /\ toServer # <<>> /\ toServer' = Tail(toServer)
      /\ UNCHANGED <<ac, todo, cb, adapter, sock, calls, issued, sloppy>>
  BY Zenon DEF ServerAnswers
<1>2. PICK s \in Answers(c) : /\ srv' = [srv EXCEPT !.subs = s[1], !.mon = @ \/ Kind[c] = "monitor"]
                              /\ toClient' = toClient \o s[2]
  BY Zenon DEF ServerAnswers
<1>3. /\ srv \in [subs : SUBSET Topics, mon : BOOLEAN, sent : Nat] /\ toServer \in Seq(Commands)
      /\ toClient \in Seq(AnyReply)
  BY Zenon DEF AsyncInv, TypeOK
<1>4. c \in Commands /\ Tail(toServer) \in Seq(Commands)
  BY Zenon, <1>1, <1>3, TailParts
<1>5. s[1] \in SUBSET Topics /\ s[2] \in Seq(AnyReply)
  BY Zenon, <1>3, <1>4, AnswersTyped
<1>6. (srv.mon \/ Kind[c] = "monitor") \in BOOLEAN
  OBVIOUS
<1>7. /\ srv' \in [subs : SUBSET Topics, mon : BOOLEAN, sent : Nat] /\ srv'.subs = s[1]
      /\ srv'.mon = (srv.mon \/ Kind[c] = "monitor")
  BY Zenon, <1>2, <1>3, <1>5, <1>6
<1>8. toClient' \in Seq(AnyReply)
  <2>1. \A q, t, u \in Seq(AnyReply) : q \o t \in Seq(AnyReply)
    BY Zenon, Associative
  <2>2. QED
    BY Zenon, <1>2, <1>3, <1>5, <2>1
<1>9. TypeOK'
  BY Zenon, <1>1, <1>4, <1>7, <1>8 DEF AsyncInv, TypeOK
<1>10. ASSUME ~sloppy PROVE Clean'
  <2>1. ~srv.mon /\ Served(ac, calls, issued)
    BY Zenon, <1>1, <1>10 DEF AsyncInv, Clean
  <2>2. Linked(ac, "up", toServer, toClient, srv.subs, issued)
    BY Zenon, <1>1, <2>1 DEF Served
  <2>3. Linked(ac, "up", Tail(toServer), toClient \o s[2], s[1], issued) /\ Kind[c] # "monitor"
    BY Zenon, <1>1, <1>2, <2>2, LinkedAnswers
  <2>4. Linked(ac', sock', toServer', toClient', srv'.subs, issued')
    BY Zenon, <1>1, <1>2, <1>7, <2>3
  <2>5. ~srv'.mon
    BY Zenon, <1>7, <2>1, <2>3
  <2>6. QED
    BY Zenon, <1>1, <2>1, <2>4, <2>5, OpenClean DEF Served
<1>11. QED
  BY Zenon, <1>1, <1>9, <1>10 DEF AsyncInv

(* The invariant after the server has sent a message. *)
LEMMA ServerSpeaksInv ==
  ASSUME AsyncInv, ServerSpeaks
  PROVE  AsyncInv'
<1>1. /\ ac.status = "open" /\ sock = "up" /\ srv' = [srv EXCEPT !.sent = @ + 1]
      /\ UNCHANGED <<ac, todo, cb, adapter, sock, toServer, calls, issued, sloppy>>
      /\ \/ \E t \in srv.subs : toClient' = Append(toClient, Message("message", t, 0))
         \/ srv.mon /\ toClient' = Append(toClient, Data(None))
  BY Zenon DEF ServerSpeaks
<1>2. srv \in [subs : SUBSET Topics, mon : BOOLEAN, sent : Nat] /\ toClient \in Seq(AnyReply)
  BY Zenon DEF AsyncInv, TypeOK
<1>3. srv.sent + 1 \in Nat
  <2>1. srv.sent \in Nat
    BY Zenon, <1>2
  <2>2. QED
    BY SMT, <2>1
<1>4. srv' \in [subs : SUBSET Topics, mon : BOOLEAN, sent : Nat] /\ srv'.subs = srv.subs /\ srv'.mon = srv.mon
  BY Zenon, <1>1, <1>2, <1>3
<1>5. toClient' \in Seq(AnyReply)
  <2>1. Data(None) \in AnyReply
    BY Zenon DEF AnyReply, Callbacks
  <2>2. ASSUME NEW t \in srv.subs PROVE Message("message", t, 0) \in AnyReply
    <3>1. t \in Topics /\ "message" \in {"subscribe", "unsubscribe", "message"} /\ 0 \in Nat
      BY Zenon, <1>2
    <3>2. Message("message", t, 0) \in Messages
      BY Zenon, <3>1, MessageTyped
    <3>3. QED
      BY Zenon, <3>2 DEF AnyReply
  <2>3. \A e \in AnyReply : Append(toClient, e) \in Seq(AnyReply)
    BY Zenon, <1>2, AppendParts
  <2>4. QED
    BY Zenon, <1>1, <2>1, <2>2, <2>3
<1>6. TypeOK'
  BY Zenon, <1>1, <1>4, <1>5 DEF AsyncInv, TypeOK
<1>7. ASSUME ~sloppy PROVE Clean'
  <2>1. ~srv.mon /\ Served(ac, calls, issued)
    BY Zenon, <1>1, <1>7 DEF AsyncInv, Clean
  <2>2. PICK t \in srv.subs : toClient' = Append(toClient, Message("message", t, 0))
    BY Zenon, <1>1, <2>1
  <2>3. Linked(ac, "up", toServer, toClient, srv.subs, issued) /\ srv.subs \in SUBSET Topics
    BY Zenon, <1>1, <1>2, <2>1 DEF Served
  <2>4. Linked(ac, "up", toServer, Append(toClient, Message("message", t, 0)), srv.subs, issued)
    BY Zenon, <2>3, LinkedSpeaks
  <2>5. Linked(ac', sock', toServer', toClient', srv'.subs, issued')
    BY Zenon, <1>1, <1>4, <2>2, <2>4
  <2>6. QED
    BY Zenon, <1>1, <1>4, <2>1, <2>5, OpenClean DEF Served
<1>8. QED
  BY Zenon, <1>1, <1>6, <1>7 DEF AsyncInv

(* The invariant after the server has closed the connection. *)
LEMMA ServerClosesInv ==
  ASSUME AsyncInv, ServerCloses
  PROVE  AsyncInv'
<1>1. /\ ac.status = "open" /\ sock = "up" /\ sock' = "closed"
      /\ UNCHANGED <<ac, todo, cb, env, toServer, calls, issued, sloppy>>
      /\ toClient' \in {toClient, <<>>, Append(toClient, Error(None)), Append(toClient, Garbage)}
  BY Zenon DEF ServerCloses
<1>2. toClient \in Seq(AnyReply) /\ Error(None) \in AnyReply /\ Garbage \in AnyReply
  BY Zenon DEF AsyncInv, TypeOK, AnyReply, Callbacks
<1>3. toClient' \in Seq(AnyReply)
  <2>1. \A e \in AnyReply : Append(toClient, e) \in Seq(AnyReply)
    BY Zenon, <1>2, AppendParts
  <2>2. <<>> \in Seq(AnyReply)
    OBVIOUS
  <2>3. QED
    BY Zenon, <1>1, <1>2, <2>1, <2>2
<1>4. TypeOK'
  BY Zenon, <1>1, <1>3 DEF AsyncInv, TypeOK, env
<1>5. ASSUME ~sloppy PROVE Clean'
  <2>1. ~srv.mon /\ Served(ac, calls, issued)
    BY Zenon, <1>1, <1>5 DEF AsyncInv, Clean
  <2>2. Linked(ac, "up", toServer, toClient, srv.subs, issued)
    BY Zenon, <1>1, <2>1 DEF Served
  <2>3. /\ Linked(ac, "closed", toServer, toClient, srv.subs, issued)
        /\ Linked(ac, "closed", toServer, <<>>, srv.subs, issued)
        /\ Linked(ac, "closed", toServer, Append(toClient, Error(None)), srv.subs, issued)
        /\ Linked(ac, "closed", toServer, Append(toClient, Garbage), srv.subs, issued)
    BY Zenon, <2>2, LinkedCloses
  <2>4. Linked(ac, "closed", toServer, toClient', srv.subs, issued)
    BY Zenon, <1>1, <2>3
  <2>5. QED
    BY Zenon, <1>1, <2>1, <2>4, OpenClean DEF Served, env
<1>6. QED
  BY Zenon, <1>1, <1>4, <1>5 DEF AsyncInv

------------------------------------------------------------------------------
(* The invariant holds at the start. *)
LEMMA AsyncInit ==
  ASSUME Init
  PROVE  AsyncInv
<1>1. <<>> \in Seq(Callbacks) /\ <<>> \in Seq(Commands) /\ <<>> \in Seq(AnyReply)
      /\ <<>> \in Seq({"connect", "disconnect"} \X BOOLEAN) /\ 0 \in Nat
      /\ <<>> \in Seq({}) /\ <<>> \in Seq(Replies({}))
  OBVIOUS
<1>2. [t \in Topics |-> None] \in [Topics -> Callbacks]
  BY Zenon DEF Callbacks
<1>3. /\ ac \in Contexts /\ ac.status = "none" /\ ac.replies = <<>> /\ ac.invalid = <<>> /\ ac.obuf = <<>>
      /\ ac.input = <<>> /\ ac.flags = {} /\ ac.sub = [t \in Topics |-> None]
  BY Zenon, <1>1, <1>2 DEF Init, Initialize, Contexts
<1>4. TypeOK
  BY Zenon, <1>1, <1>3 DEF Init, TypeOK
<1>5. <<>> \o <<>> = <<>> /\ (sock = "closed") = FALSE /\ ("SUBSCRIBED" \in {}) = FALSE
  BY SMT DEF Init
<1>6. HasCallback(ac) = {} /\ Going(ac, sock, toServer) = <<>> /\ Owed(ac.replies, ac.invalid) = {}
  <2>1. Range(<<>>) = {}
    BY Zenon, EmptyParts
  <2>2. QED
    BY Zenon, <1>3, <1>5, <2>1 DEF HasCallback, Going, Owed, Init
<1>7. InTouch(ac, sock, toServer, toClient, srv.subs, issued, {})
  <2>1. srv.subs = {} /\ issued = {} /\ toClient = <<>>
    BY Zenon DEF Init
  <2>2. QED
    BY Zenon, <1>3, <1>5, <1>6, <2>1, Idle DEF InTouch
<1>8. CalledOnce(calls, issued, {})
  BY Zenon DEF Init, CalledOnce
<1>9. Served(ac, calls, issued)
  BY Zenon, <1>1, <1>3, <1>6, <1>7, <1>8 DEF Served, Linked, Init
<1>10. ac.status # "freed"
  BY <1>3
<1>11. QED
  BY Zenon, <1>4, <1>8, <1>9, <1>10 DEF AsyncInv, Clean, Init

(* Every step keeps the invariant. *)
LEMMA AsyncStep ==
  ASSUME Counting, AsyncInv, [Next]_vars
  PROVE  AsyncInv'
<1>1. CASE Wakeup
  BY Zenon, <1>1, WakeupInv
<1>2. CASE ProcessReply
  BY Zenon, <1>2, ProcessReplyInv
<1>3. CASE NoMoreReplies
  BY Zenon, <1>3, NoMoreRepliesInv
<1>4. CASE Dangling
  BY Zenon, <1>4, DanglingInv
<1>5. ASSUME NEW h \in {"read", "write"}, ConnectFails(h) PROVE AsyncInv'
  BY Zenon, <1>5, ConnectFailsInv
<1>6. CASE HandleRead_Error
  BY Zenon, <1>6, HandlerErrorInv
<1>7. CASE HandleRead
  BY Zenon, <1>7, HandleReadInv
<1>8. CASE HandleWrite_Error
  BY Zenon, <1>8, HandlerErrorInv
<1>9. CASE HandleWrite
  BY Zenon, <1>9, HandleWriteInv
<1>10. CASE Connect
  BY Zenon, <1>10, ConnectInv
<1>11. CASE Attach
  BY Zenon, <1>11, AttachInv
<1>12. ASSUME NEW c \in Commands, UserCommand(c) PROVE AsyncInv'
  BY Zenon, <1>12, UserCommandInv
<1>13. CASE UserFree
  BY Zenon, <1>13, UserEndsInv
<1>14. CASE UserDisconnect
  BY Zenon, <1>14, UserEndsInv
<1>15. CASE SocketDecides
  BY Zenon, <1>15, SocketDecidesInv
<1>16. CASE ServerAnswers
  BY Zenon, <1>16, ServerAnswersInv
<1>17. CASE ServerSpeaks
  BY Zenon, <1>17, ServerSpeaksInv
<1>18. CASE ServerCloses
  BY Zenon, <1>18, ServerClosesInv
<1>19. CASE UNCHANGED vars
  <2>1. UNCHANGED <<ac, cb, adapter, sock, toServer, toClient, srv, calls, issued, sloppy>>
    BY Zenon, <1>19 DEF vars
  <2>2. TypeOK'
    BY Zenon, <2>1 DEF AsyncInv, TypeOK
  <2>3. Clean' <=> Clean
    BY Zenon, <2>1 DEF Clean, Served
  <2>4. QED
    BY Zenon, <2>1, <2>2, <2>3 DEF AsyncInv
<1>20. QED
  BY Zenon, <1>1, <1>2, <1>3, <1>4, <1>5, <1>6, <1>7, <1>8, <1>9, <1>10, <1>11, <1>12, <1>13, <1>14,
     <1>15, <1>16, <1>17, <1>18, <1>19 DEF Next, Library, User

(* A history that the invariant allows gives each callback its own reply. *)
LEMMA InvOwnReply == AsyncInv => OwnReply
<1>1. SUFFICES ASSUME AsyncInv, ~sloppy, NEW c \in Commands
               PROVE  Range(calls[c]) \subseteq {NoReply, Error(None), Data(c), Error(c)}
  BY Zenon DEF OwnReply
<1>2. PICK X : CalledOnce(calls, issued, X)
  BY Zenon, <1>1 DEF AsyncInv, Clean
<1>3. calls[c] = <<>> \/ \E r \in Own(c) : calls[c] = <<r>>
  BY Zenon, <1>2 DEF CalledOnce
<1>4. Range(<<>>) = {} /\ \A r : Range(<<r>>) = {r}
  BY DEF Range
<1>5. QED
  BY Zenon, <1>3, <1>4 DEF Own

(* A history that the invariant allows has each regular callback once. *)
LEMMA InvOncePerCommand == AsyncInv => OncePerCommand
<1>1. SUFFICES ASSUME AsyncInv, ~sloppy
               PROVE  /\ \A c \in Commands : Len(calls[c]) <= 1
                      /\ ac.status = "freed" => \A c \in issued : Regular(c) => calls[c] # <<>>
  BY Zenon DEF OncePerCommand
<1>2. ASSUME NEW c \in Commands PROVE Len(calls[c]) <= 1
  <2>1. PICK X : CalledOnce(calls, issued, X)
    BY Zenon, <1>1 DEF AsyncInv, Clean
  <2>2. calls[c] = <<>> \/ \E r \in Own(c) : calls[c] = <<r>>
    BY Zenon, <2>1 DEF CalledOnce
  <2>3. Len(<<>>) = 0 /\ \A r : Len(<<r>>) = 1
    OBVIOUS
  <2>4. Len(calls[c]) = 0 \/ Len(calls[c]) = 1
    BY Zenon, <2>2, <2>3
  <2>5. \A n : n = 0 \/ n = 1 => n <= 1
    OBVIOUS
  <2>6. QED
    BY Zenon, <2>4, <2>5
<1>3. ASSUME ac.status = "freed", NEW c \in issued, Regular(c) PROVE calls[c] # <<>>
  <2>1. CalledOnce(calls, issued, {})
    BY Zenon, <1>1, <1>3 DEF AsyncInv, Clean
  <2>2. \E r \in Own(c) : calls[c] = <<r>>
    BY Zenon, <1>3, <2>1 DEF CalledOnce, Regular
  <2>3. QED
    BY SMT, <2>2
<1>4. QED
  BY Zenon, <1>2, <1>3

(* The invariant, and what follows from it, in every reachable state. *)
LEMMA AsyncSafety ==
  ASSUME Counting
  PROVE  Spec => [](TypeOK /\ OwnReply /\ OncePerCommand)
<1>1. Init => AsyncInv
  BY Zenon, AsyncInit
<1>2. AsyncInv /\ [Next]_vars => AsyncInv'
  BY Zenon, AsyncStep
<1>3. AsyncInv => TypeOK /\ OwnReply /\ OncePerCommand
  BY Zenon, InvOwnReply, InvOncePerCommand DEF AsyncInv
<1>4. QED
  BY <1>1, <1>2, <1>3, PTL DEF Spec

(* Facts about cardinalities. *)
INSTANCE FiniteSetTheorems

(* The facts about cardinalities that were used. *)
LEMMA FinitelyMany == Counting
<1>1. Cardinality({}) = 0 /\ \A X : IsFiniteSet(X) => (Cardinality(X) = 0 => X = {})
  BY Zenon, FS_EmptySet
<1>2. \A x : Cardinality({x}) = 1
  BY Zenon, FS_Singleton
<1>3. \A X : IsFiniteSet(X) => Cardinality(X) \in Nat
  BY Zenon, FS_CardinalityType
<1>4. \A X, Y : IsFiniteSet(X) /\ Y \subseteq X => IsFiniteSet(Y)
  BY Zenon, FS_Subset
<1>5. QED
  BY Zenon, <1>1, <1>2, <1>3, <1>4 DEF Counting

(* Whatever the program, the socket and the server do, the variables keep their
   types: the queues of the context hold callbacks, its reader replies. *)
THEOREM TypeCorrect == Spec => []TypeOK
<1>1. Spec => [](TypeOK /\ OwnReply /\ OncePerCommand)
  BY Zenon, FinitelyMany, AsyncSafety
<1>2. QED
  BY <1>1, PTL

(* A callback that redisAsyncCommand took runs with the reply to its own command,
   or with none, as long as the program keeps to what the library supports: the
   queues of async.c pair callbacks and replies by position alone. *)
THEOREM RepliesInStep == Spec => []OwnReply
<1>1. Spec => [](TypeOK /\ OwnReply /\ OncePerCommand)
  BY Zenon, FinitelyMany, AsyncSafety
<1>2. QED
  BY <1>1, PTL

(* Every callback of a regular command runs at most once, and has run once when
   its context is gone: by redisProcessCallbacks or by __redisAsyncFree, never by
   both. *)
THEOREM CallbacksOnce == Spec => []OncePerCommand
<1>1. Spec => [](TypeOK /\ OwnReply /\ OncePerCommand)
  BY Zenon, FinitelyMany, AsyncSafety
<1>2. QED
  BY <1>1, PTL
==============================================================================
