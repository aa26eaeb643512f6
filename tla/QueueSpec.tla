------------------------------ MODULE QueueSpec ------------------------------
(***************************************************************************)
(* What queue.c of src/project1_scheduler promises the scheduler: one      *)
(* sequence of processes per level, a process in at most one of them, and  *)
(* operations that touch nothing but the process they name.  These are the *)
(* sequences module Mlfq schedules with.                                   *)
(***************************************************************************)
EXTENDS Sequences, Functions, SequencesExt

CONSTANTS
    Proc,   \* processes that can be queued
    Level   \* the queues

VARIABLE queue

Queued(p) == \E l \in Level : p \in Range(queue[l])

Init == queue = [l \in Level |-> <<>>]

PushBack(l, p) ==
    /\ ~Queued(p)
    /\ queue' = [queue EXCEPT ![l] = Append(@, p)]

PushFront(l, p) ==
    /\ ~Queued(p)
    /\ queue' = [queue EXCEPT ![l] = <<p>> \o @]

Erase(l, p) ==
    \E i \in DOMAIN queue[l] :
        queue[l][i] = p /\ queue' = [queue EXCEPT ![l] = RemoveAt(@, i)]

Next == \E l \in Level, p \in Proc :
            PushBack(l, p) \/ PushFront(l, p) \/ Erase(l, p)

Spec == Init /\ [][Next]_queue
=============================================================================
