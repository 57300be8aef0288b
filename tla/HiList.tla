------------------------------- MODULE HiList -------------------------------
(***************************************************************************)
(* The doubly linked list of hiredis-vip (adlist.c), which holds the       *)
(* requests of a pipeline, the sub-commands of a split command and the     *)
(* slots of a node.  A node is a cell of the heap with its two links; the  *)
(* program holds pointers to nodes, so links and not positions are what    *)
(* the operations must keep right.                                         *)
(***************************************************************************)
EXTENDS Integers, SequencesExt

CONSTANTS Nodes,         \* the cells hi_alloc can return
          Values, Null

VARIABLES list,          \* head, tail, len, and the links and values of the nodes
          iter,          \* the listIter: next and direction, or Null
          order,         \* history: the nodes in the order the calls imply
          due            \* history: what the iteration still has to return

vars == <<list, iter, order, due>>

Create == [head |-> Null, tail |-> Null, len |-> 0, at |-> <<>>]

Fresh(l) == Nodes \ DOMAIN l.at

Alloc(l, n, node) == [l EXCEPT !.at = [x \in DOMAIN l.at \cup {n} |->
                                         IF x = n THEN node ELSE l.at[x]]]

AddNodeHead(l, n, v) ==
  LET node == [value |-> v, prev |-> Null, next |-> l.head]
  IN  IF l.len = 0
      THEN [Alloc(l, n, node) EXCEPT !.head = n, !.tail = n, !.len = 1]
      ELSE [Alloc(l, n, node) EXCEPT !.at[l.head].prev = n, !.head = n, !.len = @ + 1]

AddNodeTail(l, n, v) ==
  LET node == [value |-> v, prev |-> l.tail, next |-> Null]
  IN  IF l.len = 0
      THEN [Alloc(l, n, node) EXCEPT !.head = n, !.tail = n, !.len = 1]
      ELSE [Alloc(l, n, node) EXCEPT !.at[l.tail].next = n, !.tail = n, !.len = @ + 1]

\* the neighbours of a node are pointed at it
Linked(l, n) ==
  LET p == l.at[n].prev  s == l.at[n].next
      back == IF p # Null THEN [l EXCEPT !.at[p].next = n] ELSE l
  IN  IF s # Null THEN [back EXCEPT !.at[s].prev = n] ELSE back

InsertNode(l, old, n, v, after) ==
  LET node == IF after THEN [value |-> v, prev |-> old, next |-> l.at[old].next]
                       ELSE [value |-> v, prev |-> l.at[old].prev, next |-> old]
      ends == [Alloc(l, n, node) EXCEPT
                 !.tail = IF after /\ @ = old THEN n ELSE @,
                 !.head = IF ~after /\ @ = old THEN n ELSE @,
                 !.len = @ + 1]
  IN  Linked(ends, n)

DelNode(l, n) ==
  LET p == l.at[n].prev  s == l.at[n].next
      a == IF p # Null THEN [l EXCEPT !.at[p].next = s] ELSE [l EXCEPT !.head = s]
      b == IF s # Null THEN [a EXCEPT !.at[s].prev = p] ELSE [a EXCEPT !.tail = p]
  IN  [b EXCEPT !.at = [x \in DOMAIN @ \ {n} |-> @[x]], !.len = @ - 1]

Rotate(l) ==
  LET t == l.tail  p == l.at[t].prev
  IN  IF l.len <= 1 THEN l
      ELSE [l EXCEPT !.tail = p,
                     !.at = [x \in DOMAIN @ |->
                               [@[x] EXCEPT !.next = IF x = p THEN Null
                                                     ELSE IF x = t THEN l.head ELSE @,
                                            !.prev = IF x = t THEN Null
                                                     ELSE IF x = l.head THEN t ELSE @]],
                     !.head = t]

GetIterator(l, direction) ==
  [next |-> IF direction = "head" THEN l.head ELSE l.tail, direction |-> direction]

Step(l, n, direction) == IF direction = "head" THEN l.at[n].next ELSE l.at[n].prev

NextOf(l, it) ==
  IF it.next = Null THEN it ELSE [it EXCEPT !.next = Step(l, it.next, it.direction)]

\* the nodes met by following the links from n, at most as many as there are
Walk(l, n, direction) ==
  LET To[i \in 0 .. Cardinality(Nodes)] ==
        IF i = 0 THEN <<n>>
        ELSE IF Last(To[i - 1]) = Null THEN To[i - 1]
        ELSE Append(To[i - 1], Step(l, Last(To[i - 1]), direction))
  IN  Front(To[l.len])

Dup(l) == [i \in DOMAIN Walk(l, l.head, "head") |-> l.at[Walk(l, l.head, "head")[i]].value]

SearchKey(l, v) ==
  LET w == Walk(l, l.head, "head")
      i == SelectInSeq(w, LAMBDA n : l.at[n].value = v)
  IN  IF i = 0 THEN Null ELSE w[i]

\* a negative index counts from the tail, -1 being the last
NodeAt(l, index) ==
  LET w == IF index < 0 THEN Walk(l, l.tail, "tail") ELSE Walk(l, l.head, "head")
      i == IF index < 0 THEN -index ELSE index + 1
  IN  IF i <= Len(w) THEN w[i] ELSE Null
-----------------------------------------------------------------------------
Init == list = Create /\ iter = Null /\ order = <<>> /\ due = <<>>

Place(n) == SelectInSeq(order, LAMBDA x : x = n)

Idle == iter = Null

AddHead(v) ==
  /\ Idle
  /\ \E n \in Fresh(list) : list' = AddNodeHead(list, n, v) /\ order' = <<n>> \o order
  /\ UNCHANGED <<iter, due>>

AddTail(v) ==
  /\ Idle
  /\ \E n \in Fresh(list) : list' = AddNodeTail(list, n, v) /\ order' = Append(order, n)
  /\ UNCHANGED <<iter, due>>

Insert(old, v, after) ==
  /\ Idle
  /\ \E n \in Fresh(list) :
       /\ list' = InsertNode(list, old, n, v, after)
       /\ order' = InsertAt(order, Place(old) + (IF after THEN 1 ELSE 0), n)
  /\ UNCHANGED <<iter, due>>

\* during an iteration any node but the one to be returned next may go
Delete(n) ==
  /\ ~Idle => n # iter.next
  /\ list' = DelNode(list, n)
  /\ order' = Remove(order, n) /\ due' = Remove(due, n)
  /\ UNCHANGED iter

Turn == Idle /\ list' = Rotate(list) /\ UNCHANGED <<iter, due>>
        /\ order' = IF Len(order) <= 1 THEN order ELSE <<Last(order)>> \o Front(order)

Iterate(direction) ==
  /\ Idle
  /\ iter' = GetIterator(list, direction)
  /\ due' = IF direction = "head" THEN order ELSE Reverse(order)
  /\ UNCHANGED <<list, order>>

ListNext ==
  /\ ~Idle
  /\ iter' = IF iter.next = Null THEN Null ELSE NextOf(list, iter)
  /\ due' = IF iter.next = Null THEN due ELSE Tail(due)
  /\ UNCHANGED <<list, order>>

Next ==
  \/ \E v \in Values : AddHead(v) \/ AddTail(v)
  \/ \E old \in DOMAIN list.at, v \in Values, after \in BOOLEAN : Insert(old, v, after)
  \/ \E n \in DOMAIN list.at : Delete(n)
  \/ Turn
  \/ \E direction \in {"head", "tail"} : Iterate(direction)
  \/ ListNext
-----------------------------------------------------------------------------
\* The links describe one sequence in both directions: forwards from head and
\* backwards from tail they visit the nodes in the order the calls imply, len
\* counts them, the index and the search find the right node, and an iterator
\* still returns what it has to in spite of the nodes deleted meanwhile.
ListIsSequence ==
  LET n == Len(order)
  IN  /\ list.len = n /\ DOMAIN list.at = ToSet(order)
      /\ Walk(list, list.head, "head") = order
      /\ Walk(list, list.tail, "tail") = Reverse(order)
      /\ \A i \in -n - 1 .. n : NodeAt(list, i) = (IF i \in 0 .. n - 1 THEN order[i + 1]
                                                  ELSE IF i \in -n .. -1 THEN order[n + i + 1]
                                                  ELSE Null)
      /\ \A v \in Values :
           LET at == {i \in 1 .. n : list.at[order[i]].value = v}
           IN  SearchKey(list, v) = (IF at = {} THEN Null
                                     ELSE order[CHOOSE i \in at : \A j \in at : i <= j])
      /\ Dup(list) = [i \in 1 .. n |-> list.at[order[i]].value]
      /\ ~Idle => iter.next = (IF due = <<>> THEN Null ELSE due[1])
=============================================================================
