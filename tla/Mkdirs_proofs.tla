---------------------------- MODULE Mkdirs_proofs ----------------------------
(***************************************************************************)
(* mkdirs for any number of threads and any tree of directories.           *)
(***************************************************************************)
EXTENDS Mkdirs, SequenceTheorems, TLAPS

LEMMA PathFacts ==
  ASSUME NEW p \in Paths
  PROVE  /\ p \in Seq(Dirs) /\ Len(p) \in Nat \ {0}
         /\ \A i \in 1..Len(p) : p[i] \in Dirs
<1>1. p \in Seq(Dirs) /\ p # <<>>
  BY Zenon, PathsAssumption
<1>2. QED
  BY Zenon, <1>1, EmptySeq, ElementOfSeq

(* Every variable keeps its type; the prefix a call is at is one of its path. *)
THEOREM TypeCorrect == Spec => []TypeOK
<1>1. Init => TypeOK
  BY PathsAssumption DEF Init, TypeOK
<1>2. TypeOK /\ [Next]_vars => TypeOK'
  <2> SUFFICES ASSUME TypeOK, [Next]_vars PROVE TypeOK'
    OBVIOUS
  <2> USE DEF TypeOK
  <2>1. ASSUME NEW c \in Callers, NEW p \in Paths, Call(c, p) PROVE TypeOK'
    BY <2>1, PathFacts DEF Call
  <2>2. ASSUME NEW c \in Callers, Return(c) PROVE TypeOK'
    BY Zenon, <2>2 DEF Return
  <2>3. ASSUME NEW c \in Callers, Descend(c) PROVE TypeOK'
    <3>1. level[c] \in 1..Len(path[c]) /\ Len(path[c]) \in Nat
      BY Zenon, <2>3, PathFacts DEF Descend
    <3>2. CASE level[c] > 1 /\ Above(c) \notin dirs
      BY <2>3, <3>1, <3>2 DEF Descend
    <3>3. CASE ~(level[c] > 1 /\ Above(c) \notin dirs)
      BY Zenon, <2>3, <3>1, <3>3 DEF Descend
    <3>4. QED
      BY Zenon, <3>2, <3>3
  <2>4. ASSUME NEW c \in Callers, Mkdir(c) PROVE TypeOK'
    <3>1. level[c] \in 1..Len(path[c]) /\ Len(path[c]) \in Nat /\ Here(c) \in Dirs
      BY Zenon, <2>4, PathFacts DEF Mkdir, Here
    <3>2. CASE level[c] = Len(path[c])
      BY Zenon, <2>4, <3>1, <3>2 DEF Mkdir
    <3>3. CASE level[c] # Len(path[c])
      BY <2>4, <3>1, <3>3 DEF Mkdir
    <3>4. QED
      BY Zenon, <3>2, <3>3
  <2>5. ASSUME NEW c \in Callers, MkdirFails(c) PROVE TypeOK'
    BY Zenon, <2>5 DEF MkdirFails
  <2>6. CASE UNCHANGED vars
    BY Zenon, <2>6 DEF vars
  <2>7. QED
    BY Zenon, <2>1, <2>2, <2>3, <2>4, <2>5, <2>6 DEF Next, Step
<1>3. QED
  BY <1>1, <1>2, PTL DEF Spec

------------------------------------------------------------------------------
(* utils.cpp:28-37: the three facts hold together: a call on its way back has a
   parent to make its directory in, so a directory it makes keeps the tree
   whole, so a call that returns 0 has made its directory.  mkdir's only reason
   to fail is then that the directory exists. *)
MkdirsInv == ParentExists /\ ZeroMeansMade /\ FailureMeansExists

(* utils.cpp:23-38: MkdirsInv, for any interleaving of any number of calls. *)
THEOREM TreeStaysWhole ==
  Spec => [](ParentExists /\ ZeroMeansMade /\ FailureMeansExists)
<1>1. Init => MkdirsInv
  BY Zenon, PathsAssumption DEF Init, MkdirsInv, ParentExists, ZeroMeansMade, FailureMeansExists
<1>2. TypeOK /\ MkdirsInv /\ [Next]_vars => MkdirsInv'
  <2> SUFFICES ASSUME TypeOK, MkdirsInv, [Next]_vars PROVE MkdirsInv'
    OBVIOUS
  <2> USE DEF TypeOK, MkdirsInv, ParentExists, ZeroMeansMade, FailureMeansExists, Here, Above
  <2>1. ASSUME NEW c \in Callers, NEW p \in Paths, Call(c, p) PROVE MkdirsInv'
    BY Zenon, <2>1 DEF Call
  <2>2. ASSUME NEW c \in Callers, Return(c) PROVE MkdirsInv'
    BY Zenon, <2>2 DEF Return
  <2>3. ASSUME NEW c \in Callers, Descend(c) PROVE MkdirsInv'
    BY Zenon, <2>3 DEF Descend
  <2>4. ASSUME NEW c \in Callers, Mkdir(c) PROVE MkdirsInv'
    <3>1. /\ path[c] \in Paths /\ level[c] \in 1..Len(path[c])
          /\ Len(path[c]) \in Nat /\ Here(c) \in Dirs
          /\ dirs' = dirs \cup {Here(c)} /\ path' = path
      BY Zenon, <2>4, PathFacts DEF Mkdir
    <3>2. Parent[Here(c)] \in dirs'
      <4>1. CASE level[c] = 1
        BY Zenon, <3>1, <4>1, PathsAssumption
      <4>2. CASE level[c] > 1
        <5>1. Above(c) \in dirs /\ Here(c) \notin dirs
          BY Zenon, <2>4, <4>2 DEF Mkdir, Possible
        <5>2. Above(c) = Parent[Here(c)]
          BY <3>1, <4>2, <5>1, PathsAssumption
        <5>3. QED
          BY Zenon, <3>1, <5>1, <5>2
      <4>3. QED
        BY <3>1, <4>1, <4>2
    <3>3. ParentExists'
      <4>1. CASE level[c] = Len(path[c])
        BY Zenon, <2>4, <3>1, <4>1 DEF Mkdir
      <4>2. CASE level[c] # Len(path[c])
        <5>1. level' = [level EXCEPT ![c] = @ + 1] /\ call' = call
          BY Zenon, <2>4, <4>2 DEF Mkdir
        <5>2. level'[c] - 1 = level[c] /\ path'[c][level'[c] - 1] \in dirs'
          BY <3>1, <5>1
        <5>3. \A d \in Callers : d # c => level'[d] = level[d]
          BY Zenon, <5>1
        <5>4. QED
          BY Zenon, <3>1, <5>1, <5>2, <5>3
      <4>3. QED
        BY Zenon, <4>1, <4>2
    <3>4. ZeroMeansMade'
      BY Zenon, <2>4, <3>1, <3>2 DEF Mkdir
    <3>5. FailureMeansExists'
      BY Zenon, <2>4, <3>1 DEF Mkdir
    <3>6. QED
      BY Zenon, <3>3, <3>4, <3>5
  <2>5. ASSUME NEW c \in Callers, MkdirFails(c) PROVE MkdirsInv'
    BY Zenon, <2>5 DEF MkdirFails, Possible
  <2>6. CASE UNCHANGED vars
    BY Zenon, <2>6 DEF vars
  <2>7. QED
    BY Zenon, <2>1, <2>2, <2>3, <2>4, <2>5, <2>6 DEF Next, Step
<1>3. QED
  BY <1>1, <1>2, TypeCorrect, PTL DEF Spec, MkdirsInv
==============================================================================
