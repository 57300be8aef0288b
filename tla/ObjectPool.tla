----------------------------- MODULE ObjectPool -----------------------------
(***************************************************************************)
(* objectpool/objectpool.hpp: the pool behind the MySQL and Redis          *)
(* connections.  get hands out a shared_ptr; when the last copy of it      *)
(* goes, in whatever thread, the deleter runs.  An object made by the pool *)
(* is wrapped with the pool's deleter, which puts it back into the list;   *)
(* but what it puts back is wrapped with the plain one, which deletes the  *)
(* object and tells the pool nothing.                                      *)
(*                                                                         *)
(* get and the pool's deleter hold list_mutex from beginning to end: each  *)
(* is one step.  Which idle object get returns (the front of the list) is  *)
(* left open.  A get that returns nullptr changes nothing, and is no step. *)
(***************************************************************************)
EXTENDS Integers, FiniteSets

CONSTANTS Clients,    \* threads that borrow objects
          Objects,    \* the objects that may ever be made
          init_num, max_num,
          CanThrow    \* whether making an object may throw (no connection)

ASSUME PoolAssumption ==
  /\ IsFiniteSet(Clients) /\ IsFiniteSet(Objects)
  /\ init_num \in 1..Cardinality(Objects)   \* with 0, get reads an empty list
  /\ max_num \in Nat
  /\ CanThrow \in BOOLEAN

VARIABLES fresh,     \* objects not made yet
          idle,      \* user_object_list
          held,      \* what each client has borrowed
          plain,     \* objects whose shared_ptr has the plain deleter
          cur_num, used_num,
          free_object,
          lost,      \* history: objects the plain deleter deleted
          uncounted, \* history: objects made before an expansion threw
          uses       \* history: how often each object was borrowed

counters == <<cur_num, used_num>>
history == <<lost, uncounted>>
vars == <<fresh, idle, held, plain, counters, free_object, history, uses>>

Borrowed == UNION {held[c] : c \in Clients}
Live == idle \cup Borrowed

Init == /\ idle \in SUBSET Objects /\ Cardinality(idle) = init_num
        /\ fresh = Objects \ idle
        /\ held = [c \in Clients |-> {}]
        /\ plain = {}
        /\ cur_num = init_num /\ used_num = 0
        /\ free_object = FALSE
        /\ lost = 0 /\ uncounted = 0
        /\ uses = [o \in Objects |-> 0]

Borrow(c, o) == /\ held' = [held EXCEPT ![c] = @ \cup {o}]
                /\ uses' = [uses EXCEPT ![o] = @ + 1]
                /\ used_num' = used_num + 1

(* A buggy get that leaves the object in the list. *)
Get_Keep(c) == /\ ~free_object
               /\ \E o \in idle : Borrow(c, o)
               /\ UNCHANGED <<fresh, idle, plain, cur_num, free_object, history>>

(* get, when the list is not empty. *)
Get(c) == /\ ~free_object
          /\ \E o \in idle : /\ Borrow(c, o)
                             /\ idle' = idle \ {o}
          /\ UNCHANGED <<fresh, plain, cur_num, free_object, history>>

(* The list is empty: it is doubled, or filled up to max_num. *)
Growth == IF cur_num * 2 <= max_num THEN cur_num ELSE max_num - cur_num

(* A buggy get that makes one more object whenever the list is empty. *)
GetExpand_NoLimit(c) ==
  /\ ~free_object
  /\ idle = {}
  /\ \E o \in fresh : Borrow(c, o) /\ fresh' = fresh \ {o}
  /\ cur_num' = cur_num + 1
  /\ UNCHANGED <<idle, plain, free_object, history>>

GetExpand(c) == /\ ~free_object
                /\ idle = {} /\ cur_num < max_num
                /\ \E new \in SUBSET fresh :
                     /\ Cardinality(new) = Growth
                     /\ fresh' = fresh \ new
                     /\ \E o \in new : Borrow(c, o) /\ idle' = new \ {o}
                /\ cur_num' = cur_num + Growth
                /\ UNCHANGED <<plain, free_object, history>>

(* A constructor throws in the expansion: what was made stays in the list, and
   cur_num is as it was. *)
GetThrows == /\ ~free_object
             /\ CanThrow
             /\ idle = {} /\ cur_num < max_num
             /\ \E new \in SUBSET fresh :
                  /\ Cardinality(new) < Growth
                  /\ fresh' = fresh \ new
                  /\ idle' = new
                  /\ uncounted' = uncounted + Cardinality(new)
             /\ UNCHANGED <<held, plain, counters, free_object, lost, uses>>

LetGo(c, o) == /\ o \in held[c]
               /\ held' = [held EXCEPT ![c] = @ \ {o}]

(* A buggy deleter that forgets used_num when it deletes. *)
AutoCreatePtr_NoCount(c, o) ==
  /\ ~free_object
  /\ o \in held[c] \ plain
  /\ LetGo(c, o)
  /\ IF cur_num - used_num > init_num
     THEN cur_num' = cur_num - 1 /\ UNCHANGED <<idle, plain, used_num>>
     ELSE /\ idle' = idle \cup {o} /\ plain' = plain \cup {o}
          /\ used_num' = used_num - 1 /\ UNCHANGED cur_num
  /\ UNCHANGED <<fresh, free_object, history, uses>>

(* auto_create_ptr, the pool's deleter: an object too many is deleted, another
   one goes back into the list with a plain deleter. *)
AutoCreatePtr(c, o) == /\ ~free_object
                       /\ o \in held[c] \ plain
                       /\ LetGo(c, o)
                       /\ used_num' = used_num - 1
                       /\ IF cur_num - used_num > init_num
                          THEN cur_num' = cur_num - 1 /\ UNCHANGED <<idle, plain>>
                          ELSE /\ idle' = idle \cup {o}
                               /\ plain' = plain \cup {o}
                               /\ UNCHANGED cur_num
                       /\ UNCHANGED <<fresh, free_object, history, uses>>

(* The plain deleter: delete, and no more. *)
PlainDelete(c, o) == /\ o \in held[c] \cap plain
                     /\ LetGo(c, o)
                     /\ plain' = plain \ {o}
                     /\ lost' = lost + 1
                     /\ UNCHANGED <<fresh, idle, counters, free_object, uncounted, uses>>

(* The destructor: idle objects are deleted with the list. *)
Destroy == /\ ~free_object
           /\ free_object' = TRUE
           /\ idle' = {}
           /\ plain' = plain \ idle
           /\ UNCHANGED <<fresh, held, counters, history, uses>>

(* The pool's deleter after that uses a pool that is gone.  Most likely it
   reads free_object and deletes the object; nothing more is said of it. *)
DanglingDelete(c, o) == /\ free_object
                        /\ o \in held[c] \ plain
                        /\ LetGo(c, o)
                        /\ UNCHANGED <<fresh, idle, plain, counters, free_object, history, uses>>

Next == \/ \E c \in Clients : Get(c) \/ GetExpand(c)
        \/ GetThrows
        \/ \E c \in Clients, o \in Objects :
             AutoCreatePtr(c, o) \/ PlainDelete(c, o) \/ DanglingDelete(c, o)
        \/ Destroy

Spec == Init /\ [][Next]_vars

------------------------------------------------------------------------------
TypeOK == /\ fresh \in SUBSET Objects /\ idle \in SUBSET Objects /\ plain \in SUBSET Objects
          /\ held \in [Clients -> SUBSET Objects]
          /\ cur_num \in Nat /\ used_num \in Nat
          /\ free_object \in BOOLEAN
          /\ lost \in Nat /\ uncounted \in Nat
          /\ uses \in [Objects -> Nat]

(* objectpool.hpp:69-72 and 59: an object is in one place: not made, in the
   list, or with one client; no two clients share a connection. *)
ExclusiveUse ==
  /\ fresh \cap Live = {} /\ idle \cap Borrowed = {}
  /\ \A c, d \in Clients : c # d => held[c] \cap held[d] = {}
  /\ plain \subseteq Live

(* objectpool.hpp:57, 61, 71, 80-83: what the counters count.  used_num is the
   number of borrowed objects and of those the plain deleter deleted; cur_num
   is the number of objects there are and of those, less the objects of
   expansions that threw. *)
CountersExplained ==
  ~free_object => /\ used_num = Cardinality(Borrowed) + lost
                  /\ cur_num + uncounted = Cardinality(Live) + lost

(* objectpool.hpp:52 and 74: cur_num stays between init_num and max_num (or
   where it began), and there are never more connections than that, but for
   those of expansions that threw. *)
WithinLimits ==
  /\ cur_num >= init_num
  /\ cur_num <= max_num \/ cur_num = init_num
  /\ ~free_object => Cardinality(Live) <= cur_num + uncounted

(* objectpool.hpp:37, 59 and 101: an object serves twice at most: as it was
   made, and once more when it was put back. *)
TwiceAtMost == \A o \in Objects : uses[o] <= 2

(* objectpool.hpp:74-75: a pool that has lost all its objects to the plain
   deleter never hands out another one. *)
Dry == idle = {} /\ Borrowed = {} /\ cur_num >= max_num

DryForever == [][Dry => Dry']_vars

==============================================================================
