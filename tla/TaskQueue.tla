------------------------------ MODULE TaskQueue ------------------------------
(***************************************************************************)
(* What a pool of worker threads promises to whoever adds tasks to it: the *)
(* accepted tasks form a log, and a cursor moves through that log one task *)
(* at a time.  So a task is handed to at most one worker, tasks are handed *)
(* out in the order in which they were accepted, and a task that was       *)
(* accepted is never forgotten.  Which worker takes a task, who sleeps and *)
(* who holds which lock is not part of the promise.                        *)
(***************************************************************************)
EXTENDS Naturals, Sequences

CONSTANT Tasks        \* the tasks that may ever be added

VARIABLES accepted,   \* the log of accepted tasks, oldest first
          served      \* how many of them were handed to a worker

vars == <<accepted, served>>

Init == /\ accepted = <<>>
        /\ served = 0

(* A task is accepted once: every add_task call carries its own task. *)
Add(k) == /\ \A i \in 1..Len(accepted) : accepted[i] # k
          /\ accepted' = Append(accepted, k)
          /\ UNCHANGED served

(* The oldest accepted task nobody has yet goes to some worker. *)
Take == /\ served < Len(accepted)
        /\ served' = served + 1
        /\ UNCHANGED accepted

Next == Take \/ \E k \in Tasks : Add(k)

Spec == Init /\ [][Next]_vars
==============================================================================
