------------------------------- MODULE Mkdirs -------------------------------
(***************************************************************************)
(* utils/utils.cpp, mkdirs: make a directory and its missing ancestors,    *)
(* called by several threads at once.                                      *)
(*                                                                         *)
(* A path is the sequence of the directories that its prefixes name, one   *)
(* prefix for each "/": "x/y/z" is <<x, y, z>>.  An empty component names  *)
(* its parent again, so "x/tmp/" is <<x, tmp, tmp>>.  The recursion of     *)
(* mkdirs calls itself on the next shorter prefix, so a call is the prefix *)
(* it is at (level) and whether it is still going down or coming back.     *)
(* Directories are never removed.                                          *)
(***************************************************************************)
EXTENDS Naturals, Sequences

CONSTANTS Callers,   \* the threads that may call mkdirs
          Dirs,      \* directories
          Parent,    \* the directory each one is in (the topmost: itself)
          Paths,     \* the paths they may ask for
          Present,   \* the directories there are at the start
          CanFail    \* whether mkdir may fail for reasons of its own (no space)

(* Each prefix of a path names the directory of the next shorter one again, or
   a directory in it; a path of one component is in a directory that exists. *)
ASSUME PathsAssumption ==
  /\ Paths \subseteq Seq(Dirs) \ {<<>>}
  /\ Parent \in [Dirs -> Dirs]
  /\ \A p \in Paths :
       /\ Parent[p[1]] = p[1]
       /\ \A i \in 2..Len(p) : p[i-1] = p[i] \/ p[i-1] = Parent[p[i]]
  /\ Present \subseteq Dirs
  /\ \A d \in Present : Parent[d] \in Present
  /\ CanFail \in BOOLEAN

VARIABLES dirs,    \* the directories that exist
          call,    \* each thread: no call, going "down", coming back "up", returned
          path,    \* the argument of the call
          level    \* the length of the prefix it is at

vars == <<dirs, call, path, level>>

Init == /\ dirs = Present
        /\ call = [c \in Callers |-> "none"]
        /\ path \in [Callers -> Paths]
        /\ level = [c \in Callers |-> 0]

Here(c) == path[c][level[c]]
Above(c) == path[c][level[c] - 1]

(* The call and the return of its result. *)
Call(c, p) == /\ call[c] = "none"
              /\ call' = [call EXCEPT ![c] = "down"]
              /\ path' = [path EXCEPT ![c] = p]
              /\ level' = [level EXCEPT ![c] = Len(p)]
              /\ UNCHANGED dirs

Return(c) == /\ call[c] \in {"ok", "fail"}
             /\ call' = [call EXCEPT ![c] = "none"]
             /\ UNCHANGED <<dirs, path, level>>

(* access on the parent: when it is missing, mkdirs calls itself on it. *)
Descend(c) == /\ call[c] = "down"
              /\ IF level[c] > 1 /\ Above(c) \notin dirs
                 THEN level' = [level EXCEPT ![c] = @ - 1] /\ UNCHANGED call
                 ELSE call' = [call EXCEPT ![c] = "up"] /\ UNCHANGED level
              /\ UNCHANGED <<dirs, path>>

(* mkdir succeeds when the directory is new and its parent exists. *)
Possible(c) == /\ Here(c) \notin dirs
               /\ level[c] > 1 => Above(c) \in dirs

(* One mkdir on the way back: 0 goes on to the longer prefix, or returns. *)
Mkdir(c) == /\ call[c] = "up"
            /\ Possible(c)
            /\ dirs' = dirs \cup {Here(c)}
            /\ IF level[c] = Len(path[c])
               THEN call' = [call EXCEPT ![c] = "ok"] /\ UNCHANGED level
               ELSE level' = [level EXCEPT ![c] = @ + 1] /\ UNCHANGED call
            /\ UNCHANGED path

(* A buggy mkdirs that takes a failed mkdir for success. *)
MkdirFails_Ignored(c) == /\ call[c] = "up"
                         /\ ~Possible(c) \/ CanFail
                         /\ call' = [call EXCEPT ![c] = "ok"]
                         /\ UNCHANGED <<dirs, path, level>>

(* mkdir fails, above all with EEXIST: -1, through every level of the call. *)
MkdirFails(c) == /\ call[c] = "up"
                 /\ ~Possible(c) \/ CanFail
                 /\ call' = [call EXCEPT ![c] = "fail"]
                 /\ UNCHANGED <<dirs, path, level>>

Step(c) == Descend(c) \/ Mkdir(c) \/ MkdirFails(c)

Next == \E c \in Callers : Step(c) \/ Return(c) \/ \E p \in Paths : Call(c, p)

Spec == Init /\ [][Next]_vars

------------------------------------------------------------------------------
TypeOK == /\ dirs \in SUBSET Dirs
          /\ call \in [Callers -> {"none", "down", "up", "ok", "fail"}]
          /\ path \in [Callers -> Paths]
          /\ level \in [Callers -> Nat]
          /\ \A c \in Callers : call[c] # "none" => level[c] \in 1..Len(path[c])

(* utils.cpp:28-34: whoever is about to call mkdir has a parent directory to
   make it in, however the calls of other threads interleave, so mkdir never
   fails for want of a parent. *)
ParentExists ==
  \A c \in Callers : call[c] = "up" /\ level[c] > 1 => Above(c) \in dirs

(* utils.cpp:28-37: no directory without the one it is in, whatever the
   interleaving, and a call that returns 0 has made its directory. *)
ZeroMeansMade ==
  /\ \A d \in dirs : Parent[d] \in dirs
  /\ \A c \in Callers : call[c] = "ok" => path[c][Len(path[c])] \in dirs

(* utils.cpp:34-36: unless the file system itself fails, -1 means that a
   directory of the path was already there when its turn came: another thread
   made it after this one looked, or an empty component names it twice. *)
FailureMeansExists ==
  ~CanFail => \A c \in Callers : call[c] = "fail" => Here(c) \in dirs

==============================================================================
