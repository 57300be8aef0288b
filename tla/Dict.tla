-------------------------------- MODULE Dict --------------------------------
(***************************************************************************)
(* The chained hash table of hiredis-vip (dict.c), which files the nodes   *)
(* of a cluster by name and the callbacks of a subscription by channel.    *)
(* An entry is its key and value; a key has at most one entry, so the key  *)
(* stands for the pointer to it.  The table is only grown, when it is full *)
(* and an element is added, and the iterator keeps the entry after the one *)
(* it returned because its user may delete that one.                       *)
(***************************************************************************)
EXTENDS Integers, SequencesExt

CONSTANTS Keys,
          Vals,          \* the values that may be filed under each key
          Hash,          \* type->hashFunction: a number for every key
          None

VARIABLES ht,            \* the dict: size, used, table
          iter,          \* the dictIterator, or None
          m,             \* history: the map the table stands for
          seen,          \* history: the entries this iteration returned
          present,       \* history: those that were there when it began
          copies         \* history: values duplicated and not yet destroyed

vars == <<ht, iter, m, seen, present, copies>>

InitialSize == 4         \* DICT_HT_INITIAL_SIZE

Reset == [size |-> 0, used |-> 0, table |-> <<>>]

Index(d, k) == Hash[k] % d.size

Position(chain, k) == SelectInSeq(chain, LAMBDA e : e.key = k)

\* dictFind: the entry filed under the key, or None
Find(d, k) ==
  IF d.size = 0 THEN None
  ELSE LET chain == d.table[Index(d, k)]
           i == Position(chain, k)
       IN  IF i = 0 THEN None ELSE chain[i]

NextPower(size) ==
  LET Power[i \in Nat] == IF i >= size THEN i ELSE Power[2 * i]
  IN  Power[InitialSize]

\* the entries are filed with the mask of the old table
Expand_Used(d, size) ==
  LET n == NextPower(size)
      empty == [size |-> n, used |-> d.used, table |-> [i \in 0 .. n - 1 |-> <<>>]]
      Push(x, e) == [x EXCEPT !.table[Hash[e.key] % d.size] = <<e>> \o @]
  IN  IF d.used > size THEN d
      ELSE FoldLeft(LAMBDA x, i : FoldLeft(Push, x, d.table[i]),
                    empty, [i \in 1 .. d.size |-> i - 1])

\* every entry is pushed on the head of its new chain, bucket by bucket
Expand(d, size) ==
  LET n == NextPower(size)
      empty == [size |-> n, used |-> d.used, table |-> [i \in 0 .. n - 1 |-> <<>>]]
      Push(x, e) == [x EXCEPT !.table[Index(x, e.key)] = <<e>> \o @]
  IN  IF d.used > size THEN d
      ELSE FoldLeft(LAMBDA x, i : FoldLeft(Push, x, d.table[i]),
                    empty, [i \in 1 .. d.size |-> i - 1])

ExpandIfNeeded(d) ==
  IF d.size = 0 THEN Expand(d, InitialSize)
  ELSE IF d.used = d.size THEN Expand(d, d.size * 2)
  ELSE d

\* the table may have been grown even when the key is found to exist
Add(d, k, v) ==
  LET x == ExpandIfNeeded(d)
  IN  IF Find(x, k) # None THEN [ok |-> FALSE, ht |-> x]
      ELSE [ok |-> TRUE,
            ht |-> [x EXCEPT !.table[Index(x, k)] = <<[key |-> k, val |-> v]>> \o @,
                             !.used = @ + 1]]

Replace(d, k, v) ==
  LET r == Add(d, k, v)
  IN  IF r.ok THEN r
      ELSE LET h == Index(r.ht, k)
               i == Position(r.ht.table[h], k)
           IN  [r EXCEPT !.ht.table[h][i].val = v]

Delete(d, k) ==
  IF Find(d, k) = None THEN [ok |-> FALSE, ht |-> d]
  ELSE [ok |-> TRUE,
        ht |-> [d EXCEPT !.table[Index(d, k)] = SelectSeq(@, LAMBDA e : e.key # k),
                         !.used = @ - 1]]

GetIterator == [index |-> -1, entry |-> None, nextEntry |-> None]

\* the first entry of the buckets after the index, with the entry behind it
NextBucket(d, it) ==
  LET full == {i \in it.index + 1 .. d.size - 1 : d.table[i] # <<>>}
  IN  IF full = {} THEN [index |-> d.size, entry |-> None, nextEntry |-> it.nextEntry]
      ELSE LET i == CHOOSE x \in full : \A y \in full : x <= y
               chain == d.table[i]
           IN  [index |-> i, entry |-> chain[1].key,
                nextEntry |-> IF Len(chain) > 1 THEN chain[2].key ELSE None]

\* dictNext: the saved entry if there is one, else the next full bucket
NextEntry(d, it) ==
  IF it.entry = None \/ it.nextEntry = None THEN NextBucket(d, it)
  ELSE LET chain == d.table[it.index]
           i == Position(chain, it.nextEntry)
       IN  [it EXCEPT !.entry = it.nextEntry,
                      !.nextEntry = IF i < Len(chain) THEN chain[i + 1].key ELSE None]
-----------------------------------------------------------------------------
Init ==
  /\ ht = Reset /\ iter = None
  /\ m = <<>> /\ seen = <<>> /\ present = {} /\ copies = 0

Iterating == iter # None

DictAdd(k, v) ==
  /\ ~Iterating
  /\ LET r == Add(ht, k, v)
     IN  /\ ht' = r.ht
         /\ m' = IF r.ok THEN [x \in DOMAIN m \cup {k} |-> IF x = k THEN v ELSE m[x]] ELSE m
         /\ copies' = copies + (IF r.ok THEN 1 ELSE 0)
  /\ UNCHANGED <<iter, seen, present>>

\* the old value is destroyed after the new one has been set
DictReplace(k, v) ==
  /\ ~Iterating
  /\ LET r == Replace(ht, k, v)
     IN  /\ ht' = r.ht
         /\ copies' = copies + (IF r.ok THEN 1 ELSE 0)
  /\ m' = [x \in DOMAIN m \cup {k} |-> IF x = k THEN v ELSE m[x]]
  /\ UNCHANGED <<iter, seen, present>>

\* while the table is iterated only the entry just returned is deleted
DictDelete(k) ==
  /\ Iterating => k = iter.entry
  /\ LET r == Delete(ht, k)
     IN  /\ ht' = r.ht
         /\ copies' = copies - (IF r.ok THEN 1 ELSE 0)
  /\ m' = [x \in DOMAIN m \ {k} |-> m[x]]
  /\ UNCHANGED <<iter, seen, present>>

DictRelease ==
  /\ ~Iterating /\ ht.size > 0
  /\ ht' = Reset /\ copies' = copies - ht.used
  /\ m' = <<>>
  /\ UNCHANGED <<iter, seen, present>>

DictIterate ==
  /\ ~Iterating
  /\ iter' = GetIterator
  /\ seen' = <<>> /\ present' = DOMAIN m
  /\ UNCHANGED <<ht, m, copies>>

DictNext ==
  /\ Iterating
  /\ LET it == NextEntry(ht, iter)
     IN  IF it.entry = None
         THEN iter' = None /\ UNCHANGED seen
         ELSE iter' = it /\ seen' = Append(seen, it.entry)
  /\ UNCHANGED <<ht, m, present, copies>>

Next ==
  \/ \E k \in Keys : \E v \in Vals[k] : DictAdd(k, v) \/ DictReplace(k, v)
  \/ \E k \in Keys : DictDelete(k)
  \/ DictRelease \/ DictIterate \/ DictNext
-----------------------------------------------------------------------------
\* The table is the map its calls describe, whatever growth and chaining did
\* to it: dictFind answers with the value last set for the key or with NULL,
\* used counts the keys, as many values are held as there are entries, the
\* size is 0 or a power of two, and an iteration whose user deletes what it
\* was given returns every entry there was at its start exactly once.
DictIsMap ==
  /\ \A k \in Keys : LET e == Find(ht, k)
                     IN  IF k \in DOMAIN m THEN e # None /\ e.val = m[k] ELSE e = None
  /\ ht.used = Cardinality(DOMAIN m) /\ copies = ht.used
  /\ ht.size = 0 \/ ht.size = NextPower(ht.size)
  /\ IsInjective(seen) /\ ToSet(seen) \subseteq present
  /\ Iterating /\ NextEntry(ht, iter).entry = None => ToSet(seen) = present
=============================================================================
