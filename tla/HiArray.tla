------------------------------- MODULE HiArray ------------------------------
(***************************************************************************)
(* The growing array of hiredis-vip (hiarray.c), which holds the keys of a *)
(* parsed command and the open slots of a node.  hiarray_push returns a    *)
(* pointer that the program writes through; a later push may move the      *)
(* block, so the pointer is a block and an index into it.                  *)
(***************************************************************************)
EXTENDS Integers, SequencesExt, FiniteSetsExt

CONSTANTS Elems,         \* the values an element can take, integers
          Unset,         \* what a pushed element holds before it is written
          FirstAlloc,    \* the n of hiarray_create
          MaxElems       \* bound on the elements pushed

VARIABLES a, b,          \* two arrays: nelem, nalloc and the block of elements
          ptr,           \* the pointer last returned by hiarray_push, or Unset
          stackA, stackB \* history: the elements the calls leave in each

vars == <<a, b, ptr, stackA, stackB>>

Create(n) == [nelem |-> 0, nalloc |-> n, block |-> n, elem |-> [i \in 0 .. n - 1 |-> Unset]]

\* hi_realloc copies the elements; the block is named by its size
Grown(x) ==
  [x EXCEPT !.nalloc = 2 * @, !.block = 2 * x.nalloc,
            !.elem = [i \in 0 .. 2 * x.nalloc - 1 |-> IF i < x.nalloc THEN @[i] ELSE Unset]]

Pushed(x) ==
  LET y == IF x.nelem = x.nalloc THEN Grown(x) ELSE x
  IN  [y EXCEPT !.nelem = @ + 1]

Popped(x) == [x EXCEPT !.nelem = @ - 1]

Get(x, i) == x.elem[i]

Top(x) == Get(x, x.nelem - 1)

Contents(x) == [i \in 1 .. x.nelem |-> Get(x, i - 1)]

Sorted(x) ==
  LET s == SortSeq(Contents(x), <)
  IN  [x EXCEPT !.elem = [i \in DOMAIN @ |-> IF i < x.nelem THEN s[i + 1] ELSE @[i]]]

\* hiarray_each: the elements func is called with, up to the first it refuses
Each(x, refused) ==
  LET bad == {i \in 1 .. x.nelem : Contents(x)[i] = refused}
  IN  IF bad = {} THEN Contents(x) ELSE SubSeq(Contents(x), 1, Min(bad))
-----------------------------------------------------------------------------
Init ==
  /\ a = Create(FirstAlloc) /\ b = Create(FirstAlloc)
  /\ ptr = Unset /\ stackA = <<>> /\ stackB = <<>>

Push ==
  /\ ptr = Unset /\ a.nelem < MaxElems
  /\ a' = Pushed(a)
  /\ ptr' = [block |-> Pushed(a).block, idx |-> a.nelem]
  /\ UNCHANGED <<b, stackA, stackB>>

\* the program fills in the element it was given
Write(e) ==
  /\ ptr # Unset
  /\ a' = IF ptr.block = a.block THEN [a EXCEPT !.elem = (ptr.idx :> e) @@ @] ELSE a
  /\ ptr' = Unset
  /\ stackA' = Append(stackA, e)
  /\ UNCHANGED <<b, stackB>>

Pop ==
  /\ ptr = Unset /\ a.nelem > 0
  /\ a' = Popped(a) /\ stackA' = Front(stackA)
  /\ UNCHANGED <<b, ptr, stackB>>

Swap ==
  /\ ptr = Unset
  /\ a' = b /\ b' = a /\ stackA' = stackB /\ stackB' = stackA
  /\ UNCHANGED ptr

Sort ==
  /\ ptr = Unset /\ a.nelem > 0
  /\ a' = Sorted(a) /\ stackA' = SortSeq(stackA, <)
  /\ UNCHANGED <<b, ptr, stackB>>

Next == Push \/ (\E e \in Elems : Write(e)) \/ Pop \/ Swap \/ Sort
-----------------------------------------------------------------------------
\* The arrays are the stacks their calls describe: no element is lost or
\* changed when a full array grows or two are exchanged, the block is always
\* as long as nalloc says, the pointer of the last push lies inside it, and
\* the visit of hiarray_each stops at the first element refused.
ArrayIsStack ==
  /\ \A x \in {a, b} : x.nelem <= x.nalloc /\ DOMAIN x.elem = 0 .. x.nalloc - 1
  /\ ptr = Unset => Contents(a) = stackA /\ (stackA # <<>> => Top(a) = Last(stackA))
  /\ ptr # Unset => Front(Contents(a)) = stackA /\ ptr.block = a.block /\ ptr.idx < a.nalloc
  /\ Contents(b) = stackB
  /\ ptr = Unset => \A e \in Elems : \A i \in 1 .. Len(Each(a, e)) - 1 : stackA[i] # e
=============================================================================
