-------------------------- MODULE ObjectPool_proofs --------------------------
(***************************************************************************)
(* The object pool for any finite numbers of clients and objects and any   *)
(* limits.                                                                 *)
(***************************************************************************)
EXTENDS ObjectPool, FiniteSetTheorems, TLAPS

(* How often an object was borrowed tells its deleter: made for the first loan,
   plain for the second. *)
UsesByDeleter ==
  \A o \in Objects :
    /\ o \in fresh => uses[o] = 0
    /\ o \in idle => uses[o] = IF o \in plain THEN 1 ELSE 0
    /\ o \in Borrowed => uses[o] = IF o \in plain THEN 2 ELSE 1
    /\ uses[o] <= 2

(* The inductive invariant.  The counters need ExclusiveUse (a loan or a return
   changes the number of borrowed objects by one), and the limits need the
   counters (an object is deleted only when more than init_num are left). *)
PoolInv == TypeOK /\ ExclusiveUse /\ CountersExplained /\ WithinLimits /\ UsesByDeleter

------------------------------------------------------------------------------
LEMMA FiniteLive ==
  ASSUME TypeOK
  PROVE  /\ Borrowed \in SUBSET Objects /\ Live \in SUBSET Objects
         /\ IsFiniteSet(Borrowed) /\ IsFiniteSet(Live)
         /\ Cardinality(Borrowed) \in Nat /\ Cardinality(Live) \in Nat
<1>1. Borrowed \in SUBSET Objects /\ Live \in SUBSET Objects
  BY Zenon DEF TypeOK, Borrowed, Live
<1>2. QED
  BY Zenon, <1>1, PoolAssumption, FS_Subset, FS_CardinalityType

LEMMA BorrowAdds ==
  ASSUME TypeOK, NEW c \in Clients, NEW o \in Objects, Borrow(c, o)
  PROVE  Borrowed' = Borrowed \cup {o}
<1>1. /\ held'[c] = held[c] \cup {o}
      /\ \A d \in Clients : d # c => held'[d] = held[d]
  BY Zenon DEF Borrow, TypeOK
<1>2. QED
  BY Zenon, <1>1 DEF Borrowed

LEMMA LetGoRemoves ==
  ASSUME TypeOK, ExclusiveUse, NEW c \in Clients, NEW o \in Objects, LetGo(c, o)
  PROVE  /\ o \in Borrowed /\ o \notin idle /\ Borrowed' = Borrowed \ {o}
         /\ held' \in [Clients -> SUBSET Objects]
         /\ \A d, e \in Clients : d # e => held'[d] \cap held'[e] = {}
<1>1. /\ held'[c] = held[c] \ {o}
      /\ \A d \in Clients : d # c => held'[d] = held[d]
      /\ o \in held[c]
      /\ held' \in [Clients -> SUBSET Objects]
  BY Zenon DEF LetGo, TypeOK
<1>2. \A d \in Clients : d # c => o \notin held[d]
  BY Zenon, <1>1 DEF ExclusiveUse
<1>3. o \in Borrowed
  BY Zenon, <1>1 DEF Borrowed
<1>4. Borrowed' = Borrowed \ {o}
  BY Zenon, <1>1, <1>2 DEF Borrowed
<1>5. QED
  BY Zenon, <1>1, <1>3, <1>4 DEF ExclusiveUse

(* The list grows only below max_num, by at least one object, and not beyond. *)
LEMMA GrowthBounds ==
  ASSUME TypeOK, WithinLimits, cur_num < max_num
  PROVE  Growth \in Nat \ {0} /\ cur_num + Growth <= max_num
<1>1. cur_num \in Nat /\ cur_num >= 1 /\ max_num \in Nat
  BY PoolAssumption DEF TypeOK, WithinLimits
<1>2. QED
  BY <1>1 DEF Growth

------------------------------------------------------------------------------
LEMMA InitInv == Init => PoolInv
<1> SUFFICES ASSUME Init PROVE PoolInv
  OBVIOUS
<1>1. TypeOK
  <2>1. init_num \in Nat
    BY PoolAssumption, FS_CardinalityType
  <2>2. QED
    BY Zenon, <2>1 DEF Init, TypeOK
<1>2. Borrowed = {} /\ Live = idle
  BY Zenon DEF Init, Borrowed, Live
<1>3. ExclusiveUse
  BY Zenon, <1>2 DEF Init, ExclusiveUse
<1>4. CountersExplained
  BY <1>2, FS_EmptySet, PoolAssumption DEF Init, CountersExplained
<1>5. WithinLimits
  BY <1>2, PoolAssumption DEF Init, WithinLimits
<1>6. UsesByDeleter
  BY <1>2 DEF Init, UsesByDeleter
<1>7. QED
  BY Zenon, <1>1, <1>3, <1>4, <1>5, <1>6 DEF PoolInv

(* A loan from the list. *)
LEMMA GetInv ==
  ASSUME PoolInv, NEW c \in Clients, Get(c)
  PROVE  PoolInv'
<1>1. TypeOK /\ ExclusiveUse /\ CountersExplained /\ WithinLimits /\ UsesByDeleter
  BY Zenon DEF PoolInv
<1>2. PICK o \in idle : Borrow(c, o) /\ idle' = idle \ {o}
  BY Zenon DEF Get
<1>3. o \in Objects /\ o \notin Borrowed /\ o \notin fresh
  BY Zenon, <1>1, <1>2 DEF TypeOK, ExclusiveUse, Live
<1>4. Borrowed' = Borrowed \cup {o}
  BY Zenon, <1>1, <1>2, <1>3, BorrowAdds
<1>5. Live' = Live
  BY Zenon, <1>2, <1>4 DEF Live
<1>6. /\ UNCHANGED <<fresh, plain, cur_num, free_object, lost, uncounted>>
      /\ ~free_object
      /\ used_num' = used_num + 1
      /\ uses' = [uses EXCEPT ![o] = @ + 1]
      /\ held' = [held EXCEPT ![c] = @ \cup {o}]
  BY Zenon, <1>2 DEF Get, Borrow, history
<1>7. TypeOK'
  BY <1>1, <1>2, <1>3, <1>6 DEF TypeOK
<1>8. ExclusiveUse'
  <2>1. \A d \in Clients : o \notin held[d]
    BY Zenon, <1>3 DEF Borrowed
  <2>2. \A d, e \in Clients : d # e => held'[d] \cap held'[e] = {}
    BY Zenon, <1>1, <1>6, <2>1 DEF ExclusiveUse, TypeOK
  <2>3. QED
    BY Zenon, <1>1, <1>2, <1>4, <1>5, <1>6, <2>2 DEF ExclusiveUse
<1>9. CountersExplained'
  <2>1. Cardinality(Borrowed') = Cardinality(Borrowed) + 1
    BY Zenon, <1>1, <1>3, <1>4, FiniteLive, FS_AddElement
  <2>2. QED
    BY <1>1, <1>5, <1>6, <2>1, FiniteLive DEF CountersExplained, TypeOK
<1>10. WithinLimits'
  BY Zenon, <1>1, <1>5, <1>6 DEF WithinLimits
<1>11. UsesByDeleter'
  BY <1>1, <1>2, <1>3, <1>4, <1>6 DEF UsesByDeleter, TypeOK
<1>12. QED
  BY Zenon, <1>7, <1>8, <1>9, <1>10, <1>11 DEF PoolInv

(* New objects come into being: some are idle afterwards, one may be lent. *)
LEMMA Made ==
  ASSUME PoolInv, NEW new \in SUBSET fresh, idle = {}
  PROVE  /\ IsFiniteSet(new) /\ Cardinality(new) \in Nat
         /\ Cardinality(Live \cup new) = Cardinality(Live) + Cardinality(new)
<1>1. TypeOK /\ ExclusiveUse
  BY Zenon DEF PoolInv
<1>2. new \in SUBSET Objects /\ new \cap Live = {}
  BY Zenon, <1>1 DEF TypeOK, ExclusiveUse
<1>3. IsFiniteSet(new) /\ Cardinality(new) \in Nat
  BY Zenon, <1>2, PoolAssumption, FS_Subset, FS_CardinalityType
<1>4. Cardinality(Live \cup new)
        = Cardinality(Live) + Cardinality(new) - Cardinality(Live \cap new)
  BY Zenon, <1>1, <1>3, FiniteLive, FS_Union
<1>5. Cardinality(Live \cap new) = 0
  BY Zenon, <1>2, FS_EmptySet
<1>6. QED
  BY <1>1, <1>3, <1>4, <1>5, FiniteLive

(* A loan from a list that was expanded first. *)
LEMMA GetExpandInv ==
  ASSUME PoolInv, NEW c \in Clients, GetExpand(c)
  PROVE  PoolInv'
<1>1. TypeOK /\ ExclusiveUse /\ CountersExplained /\ WithinLimits /\ UsesByDeleter
  BY Zenon DEF PoolInv
<1>2. PICK new \in SUBSET fresh : /\ Cardinality(new) = Growth
                                 /\ fresh' = fresh \ new
                                 /\ \E o \in new : Borrow(c, o) /\ idle' = new \ {o}
  BY Zenon DEF GetExpand
<1>3. PICK o \in new : Borrow(c, o) /\ idle' = new \ {o}
  BY Zenon, <1>2
<1>4. /\ idle = {} /\ ~free_object /\ cur_num < max_num
      /\ cur_num' = cur_num + Growth
      /\ UNCHANGED <<plain, free_object, lost, uncounted>>
      /\ used_num' = used_num + 1
      /\ uses' = [uses EXCEPT ![o] = @ + 1]
      /\ held' = [held EXCEPT ![c] = @ \cup {o}]
  BY Zenon, <1>3 DEF GetExpand, Borrow, history
<1>5. o \in Objects /\ new \subseteq Objects /\ new \cap Live = {} /\ o \notin Borrowed
  BY Zenon, <1>1, <1>2 DEF TypeOK, ExclusiveUse, Live
<1>6. Borrowed' = Borrowed \cup {o} /\ Live' = Live \cup new
  <2>1. Borrowed' = Borrowed \cup {o}
    BY Zenon, <1>1, <1>3, <1>5, BorrowAdds
  <2>2. QED
    BY Zenon, <1>3, <1>4, <2>1 DEF Live
<1>7. Growth \in Nat \ {0} /\ cur_num + Growth <= max_num
  BY Zenon, <1>1, <1>4, GrowthBounds
<1>8. TypeOK'
  BY <1>1, <1>2, <1>3, <1>4, <1>5, <1>7 DEF TypeOK
<1>9. ExclusiveUse'
  <2>1. \A d \in Clients : o \notin held[d]
    BY Zenon, <1>5 DEF Borrowed
  <2>2. \A d, e \in Clients : d # e => held'[d] \cap held'[e] = {}
    BY Zenon, <1>1, <1>4, <2>1 DEF ExclusiveUse, TypeOK
  <2>3. idle' \cap Borrowed' = {}
    BY Zenon, <1>3, <1>5, <1>6 DEF Live
  <2>4. QED
    BY Zenon, <1>1, <1>2, <1>4, <1>6, <2>2, <2>3 DEF ExclusiveUse
<1>10. Cardinality(Live') = Cardinality(Live) + Growth
  BY Zenon, <1>2, <1>4, <1>6, Made
<1>11. CountersExplained'
  <2>1. Cardinality(Borrowed') = Cardinality(Borrowed) + 1
    BY Zenon, <1>1, <1>5, <1>6, FiniteLive, FS_AddElement
  <2>2. QED
    BY <1>1, <1>4, <1>7, <1>10, <2>1, FiniteLive DEF CountersExplained, TypeOK
<1>12. WithinLimits'
  BY <1>1, <1>4, <1>7, <1>10, FiniteLive, PoolAssumption DEF WithinLimits, TypeOK
<1>13. UsesByDeleter'
  <2>1. \A x \in new : x \in Objects /\ x \notin plain /\ uses[x] = 0 /\ x \notin Borrowed
    BY Zenon, <1>1, <1>2, <1>5 DEF UsesByDeleter, ExclusiveUse, Live
  <2>2. QED
    BY <1>1, <1>2, <1>3, <1>4, <1>5, <1>6, <2>1 DEF UsesByDeleter, TypeOK
<1>14. QED
  BY Zenon, <1>8, <1>9, <1>11, <1>12, <1>13 DEF PoolInv

(* An expansion that throws. *)
LEMMA GetThrowsInv ==
  ASSUME PoolInv, GetThrows
  PROVE  PoolInv'
<1>1. TypeOK /\ ExclusiveUse /\ CountersExplained /\ WithinLimits /\ UsesByDeleter
  BY Zenon DEF PoolInv
<1>2. PICK new \in SUBSET fresh : /\ Cardinality(new) < Growth
                                 /\ fresh' = fresh \ new
                                 /\ idle' = new
                                 /\ uncounted' = uncounted + Cardinality(new)
  BY Zenon DEF GetThrows
<1>3. /\ idle = {} /\ ~free_object
      /\ UNCHANGED <<held, plain, cur_num, used_num, free_object, lost, uses>>
  BY Zenon DEF GetThrows, counters
<1>4. new \subseteq Objects /\ new \cap Live = {}
  BY Zenon, <1>1, <1>2 DEF TypeOK, ExclusiveUse
<1>5. Borrowed' = Borrowed /\ Live' = Live \cup new
  BY Zenon, <1>2, <1>3 DEF Borrowed, Live
<1>6. Cardinality(new) \in Nat /\ Cardinality(Live') = Cardinality(Live) + Cardinality(new)
  BY Zenon, <1>3, <1>5, Made
<1>7. TypeOK'
  BY <1>1, <1>2, <1>3, <1>4, <1>6 DEF TypeOK
<1>8. ExclusiveUse'
  BY Zenon, <1>1, <1>2, <1>3, <1>4, <1>5 DEF ExclusiveUse, Live
<1>9. CountersExplained'
  BY <1>1, <1>2, <1>3, <1>5, <1>6, FiniteLive DEF CountersExplained, TypeOK
<1>10. WithinLimits'
  BY <1>1, <1>2, <1>3, <1>6, FiniteLive DEF WithinLimits, TypeOK
<1>11. UsesByDeleter'
  <2>1. \A x \in new : x \in Objects /\ x \notin plain /\ uses[x] = 0 /\ x \notin Borrowed
    BY Zenon, <1>1, <1>2, <1>4 DEF UsesByDeleter, ExclusiveUse, Live
  <2>2. QED
    BY Zenon, <1>1, <1>2, <1>3, <1>5, <2>1 DEF UsesByDeleter
<1>12. QED
  BY Zenon, <1>7, <1>8, <1>9, <1>10, <1>11 DEF PoolInv

(* The pool's deleter. *)
LEMMA AutoCreatePtrInv ==
  ASSUME PoolInv, NEW c \in Clients, NEW o \in Objects, AutoCreatePtr(c, o)
  PROVE  PoolInv'
<1>1. TypeOK /\ ExclusiveUse /\ CountersExplained /\ WithinLimits /\ UsesByDeleter
  BY Zenon DEF PoolInv
<1>2. /\ ~free_object /\ o \notin plain /\ LetGo(c, o) /\ used_num' = used_num - 1
      /\ UNCHANGED <<fresh, free_object, lost, uncounted, uses>>
  BY Zenon DEF AutoCreatePtr, history
<1>3. /\ o \in Borrowed /\ o \notin idle /\ Borrowed' = Borrowed \ {o}
      /\ held' \in [Clients -> SUBSET Objects]
      /\ \A d, e \in Clients : d # e => held'[d] \cap held'[e] = {}
  BY Zenon, <1>1, <1>2, LetGoRemoves
<1>4. Cardinality(Borrowed') = Cardinality(Borrowed) - 1
  BY Zenon, <1>1, <1>3, FiniteLive, FS_RemoveElement
<1>5. used_num = Cardinality(Borrowed) + lost /\ Cardinality(Borrowed) \in Nat
      /\ Cardinality(Borrowed) # 0 /\ lost \in Nat /\ used_num >= 1
  <2>1. Cardinality(Borrowed) \in Nat /\ Cardinality(Borrowed) # 0
    BY Zenon, <1>1, <1>3, FiniteLive, FS_EmptySet
  <2>2. QED
    BY <1>1, <1>2, <2>1 DEF CountersExplained, TypeOK
<1>6. CASE cur_num - used_num > init_num
  <2>1. cur_num' = cur_num - 1 /\ UNCHANGED <<idle, plain>>
    BY Zenon, <1>6 DEF AutoCreatePtr
  <2>2. Live' = Live \ {o} /\ o \in Live
    BY Zenon, <1>3, <2>1 DEF Live
  <2>3. Cardinality(Live') = Cardinality(Live) - 1
    BY Zenon, <1>1, <2>2, FiniteLive, FS_RemoveElement
  <2>4. init_num \in Nat /\ cur_num \in Nat /\ used_num \in Nat
    BY <1>1, PoolAssumption, FS_CardinalityType DEF TypeOK
  <2>5. TypeOK'
    BY <1>1, <1>2, <1>3, <1>5, <1>6, <2>1, <2>4 DEF TypeOK
  <2>6. ExclusiveUse'
    BY Zenon, <1>1, <1>2, <1>3, <2>1, <2>2 DEF ExclusiveUse
  <2>7. CountersExplained'
    BY <1>1, <1>2, <1>4, <1>5, <2>1, <2>3, FiniteLive DEF CountersExplained, TypeOK
  <2>8. WithinLimits'
    BY <1>1, <1>2, <1>5, <1>6, <2>1, <2>3, <2>4, FiniteLive, PoolAssumption
       DEF WithinLimits, TypeOK
  <2>9. UsesByDeleter'
    BY Zenon, <1>1, <1>2, <1>3, <2>1 DEF UsesByDeleter
  <2>10. QED
    BY Zenon, <2>5, <2>6, <2>7, <2>8, <2>9 DEF PoolInv
<1>7. CASE ~(cur_num - used_num > init_num)
  <2>1. idle' = idle \cup {o} /\ plain' = plain \cup {o} /\ cur_num' = cur_num
    BY Zenon, <1>7 DEF AutoCreatePtr
  <2>2. Live' = Live
    BY Zenon, <1>3, <2>1 DEF Live
  <2>3. TypeOK'
    BY <1>1, <1>2, <1>3, <1>5, <2>1 DEF TypeOK
  <2>4. ExclusiveUse'
    BY Zenon, <1>1, <1>2, <1>3, <2>1, <2>2 DEF ExclusiveUse, Live
  <2>5. CountersExplained'
    BY <1>1, <1>2, <1>4, <1>5, <2>1, <2>2, FiniteLive DEF CountersExplained, TypeOK
  <2>6. WithinLimits'
    BY Zenon, <1>1, <1>2, <2>1, <2>2 DEF WithinLimits
  <2>7. UsesByDeleter'
    BY Zenon, <1>1, <1>2, <1>3, <2>1 DEF UsesByDeleter
  <2>8. QED
    BY Zenon, <2>3, <2>4, <2>5, <2>6, <2>7 DEF PoolInv
<1>8. QED
  BY Zenon, <1>6, <1>7

(* The plain deleter. *)
LEMMA PlainDeleteInv ==
  ASSUME PoolInv, NEW c \in Clients, NEW o \in Objects, PlainDelete(c, o)
  PROVE  PoolInv'
<1>1. TypeOK /\ ExclusiveUse /\ CountersExplained /\ WithinLimits /\ UsesByDeleter
  BY Zenon DEF PoolInv
<1>2. /\ o \in plain /\ LetGo(c, o) /\ plain' = plain \ {o} /\ lost' = lost + 1
      /\ UNCHANGED <<fresh, idle, cur_num, used_num, free_object, uncounted, uses>>
  BY Zenon DEF PlainDelete, counters
<1>3. /\ o \in Borrowed /\ o \notin idle /\ Borrowed' = Borrowed \ {o}
      /\ held' \in [Clients -> SUBSET Objects]
      /\ \A d, e \in Clients : d # e => held'[d] \cap held'[e] = {}
  BY Zenon, <1>1, <1>2, LetGoRemoves
<1>4. Live' = Live \ {o} /\ o \in Live
  BY Zenon, <1>2, <1>3 DEF Live
<1>5. /\ Cardinality(Borrowed') = Cardinality(Borrowed) - 1
      /\ Cardinality(Live') = Cardinality(Live) - 1
  BY Zenon, <1>1, <1>3, <1>4, FiniteLive, FS_RemoveElement
<1>6. TypeOK'
  BY <1>1, <1>2, <1>3 DEF TypeOK
<1>7. ExclusiveUse'
  BY Zenon, <1>1, <1>2, <1>3, <1>4 DEF ExclusiveUse
<1>8. CountersExplained'
  BY <1>1, <1>2, <1>5, FiniteLive DEF CountersExplained, TypeOK
<1>9. WithinLimits'
  BY <1>1, <1>2, <1>5, FiniteLive DEF WithinLimits, TypeOK
<1>10. UsesByDeleter'
  BY Zenon, <1>1, <1>2, <1>3 DEF UsesByDeleter
<1>11. QED
  BY Zenon, <1>6, <1>7, <1>8, <1>9, <1>10 DEF PoolInv

(* The destructor, and the deleter after it. *)
LEMMA DestroyInv ==
  ASSUME PoolInv, Destroy
  PROVE  PoolInv'
<1>1. TypeOK /\ ExclusiveUse /\ CountersExplained /\ WithinLimits /\ UsesByDeleter
  BY Zenon DEF PoolInv
<1>2. /\ free_object' = TRUE /\ idle' = {} /\ plain' = plain \ idle
      /\ UNCHANGED <<fresh, held, cur_num, used_num, lost, uncounted, uses>>
  BY Zenon DEF Destroy, counters, history
<1>3. Borrowed' = Borrowed /\ Live' = Borrowed
  BY Zenon, <1>2 DEF Borrowed, Live
<1>4. TypeOK'
  BY Zenon, <1>1, <1>2 DEF TypeOK
<1>5. ExclusiveUse'
  BY Zenon, <1>1, <1>2, <1>3 DEF ExclusiveUse, Live
<1>6. CountersExplained' /\ WithinLimits'
  BY Zenon, <1>1, <1>2 DEF CountersExplained, WithinLimits
<1>7. UsesByDeleter'
  BY Zenon, <1>1, <1>2, <1>3 DEF UsesByDeleter, ExclusiveUse
<1>8. QED
  BY Zenon, <1>4, <1>5, <1>6, <1>7 DEF PoolInv

LEMMA DanglingDeleteInv ==
  ASSUME PoolInv, NEW c \in Clients, NEW o \in Objects, DanglingDelete(c, o)
  PROVE  PoolInv'
<1>1. TypeOK /\ ExclusiveUse /\ CountersExplained /\ WithinLimits /\ UsesByDeleter
  BY Zenon DEF PoolInv
<1>2. /\ free_object /\ o \notin plain /\ LetGo(c, o)
      /\ UNCHANGED <<fresh, idle, plain, cur_num, used_num, free_object, lost, uncounted, uses>>
  BY Zenon DEF DanglingDelete, counters, history
<1>3. /\ o \in Borrowed /\ o \notin idle /\ Borrowed' = Borrowed \ {o}
      /\ held' \in [Clients -> SUBSET Objects]
      /\ \A d, e \in Clients : d # e => held'[d] \cap held'[e] = {}
  BY Zenon, <1>1, <1>2, LetGoRemoves
<1>4. Live' = Live \ {o}
  BY Zenon, <1>2, <1>3 DEF Live
<1>5. TypeOK'
  BY Zenon, <1>1, <1>2, <1>3 DEF TypeOK
<1>6. ExclusiveUse'
  BY Zenon, <1>1, <1>2, <1>3, <1>4 DEF ExclusiveUse
<1>7. CountersExplained' /\ WithinLimits'
  BY Zenon, <1>1, <1>2 DEF CountersExplained, WithinLimits
<1>8. UsesByDeleter'
  BY Zenon, <1>1, <1>2, <1>3 DEF UsesByDeleter
<1>9. QED
  BY Zenon, <1>5, <1>6, <1>7, <1>8 DEF PoolInv

------------------------------------------------------------------------------
(* objectpool.hpp:27-105: PoolInv is an invariant, whatever the clients do. *)
THEOREM PoolInvariant == Spec => []PoolInv
<1>1. PoolInv /\ [Next]_vars => PoolInv'
  <2> SUFFICES ASSUME PoolInv, [Next]_vars PROVE PoolInv'
    OBVIOUS
  <2>1. CASE UNCHANGED vars
    BY <2>1 DEF vars, counters, history, PoolInv, TypeOK, ExclusiveUse, CountersExplained,
                WithinLimits, UsesByDeleter, Live, Borrowed
  <2>2. QED
    BY Zenon, <2>1, GetInv, GetExpandInv, GetThrowsInv, AutoCreatePtrInv, PlainDeleteInv,
       DanglingDeleteInv, DestroyInv DEF Next
<1>2. QED
  BY <1>1, InitInv, PTL DEF Spec

(* objectpool.hpp:57, 61, 71, 80-83: what the two counters of the pool count. *)
THEOREM CountersCorrect == Spec => []CountersExplained
<1>1. PoolInv => CountersExplained
  BY Zenon DEF PoolInv
<1>2. QED
  BY <1>1, PoolInvariant, PTL

(* objectpool.hpp:59 and 69-72: an object is in one place, and no two clients
   share one. *)
THEOREM NeverShared == Spec => []ExclusiveUse
<1>1. PoolInv => ExclusiveUse
  BY Zenon DEF PoolInv
<1>2. QED
  BY <1>1, PoolInvariant, PTL

(* objectpool.hpp:52 and 74: the limits. *)
THEOREM LimitsHold == Spec => []WithinLimits
<1>1. PoolInv => WithinLimits
  BY Zenon DEF PoolInv
<1>2. QED
  BY <1>1, PoolInvariant, PTL

(* objectpool.hpp:59: an object is lent at most twice. *)
THEOREM LentTwiceAtMost == Spec => []TwiceAtMost
<1>1. PoolInv => TwiceAtMost
  BY Zenon DEF PoolInv, UsesByDeleter, TwiceAtMost
<1>2. QED
  BY <1>1, PoolInvariant, PTL

(* Every variable keeps its type; in particular used_num, whose decrement
   nothing guards, never becomes negative. *)
THEOREM TypeCorrect == Spec => []TypeOK
<1>1. PoolInv => TypeOK
  BY Zenon DEF PoolInv
<1>2. QED
  BY <1>1, PoolInvariant, PTL

(* objectpool.hpp:74-75: once all objects are lost, get returns nullptr for
   ever: no step makes or returns an object. *)
THEOREM StaysDry == Spec => DryForever
<1>1. ASSUME TypeOK, [Next]_vars, Dry PROVE Dry'
  <2>1. \A c \in Clients : held[c] = {}
    BY Zenon, <1>1 DEF Dry, Borrowed
  <2>2. CASE UNCHANGED vars
    BY Zenon, <1>1, <2>2 DEF vars, counters, Dry, Borrowed
  <2>3. CASE Destroy
    BY Zenon, <1>1, <2>3 DEF Destroy, counters, Dry, Borrowed
  <2>4. ~GetThrows /\ \A c \in Clients : ~Get(c) /\ ~GetExpand(c)
    BY <1>1, PoolAssumption DEF TypeOK, Dry, Get, GetExpand, GetThrows
  <2>5. \A c \in Clients, o \in Objects :
          ~AutoCreatePtr(c, o) /\ ~PlainDelete(c, o) /\ ~DanglingDelete(c, o)
    BY Zenon, <2>1 DEF AutoCreatePtr, PlainDelete, DanglingDelete
  <2>6. QED
    BY Zenon, <1>1, <2>2, <2>3, <2>4, <2>5 DEF Next
<1>2. QED
  BY <1>1, TypeCorrect, PTL DEF Spec, DryForever
==============================================================================
