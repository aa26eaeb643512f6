------------------------------ MODULE ProcQueue ------------------------------
(***************************************************************************)
(* The run queues of src/project1_scheduler as queue.c keeps them: doubly  *)
(* linked lists through p->prev and p->next, with the ends in the struct   *)
(* queue and a back pointer p->queue in every member.  Every call is made  *)
(* under ptable.lock and is one action.  The module implements QueueSpec.  *)
(***************************************************************************)
EXTENDS Integers, Sequences, FiniteSets, Functions

CONSTANTS
    NPROC,      \* slots of ptable.proc
    NQUEUE,     \* run queues
    MinSize     \* bound: how far below 0 a size may drift (see pushfrontqueue)

QueueSizeAssumption ==
    NPROC \in Nat \ {0} /\ NQUEUE \in Nat \ {0} /\ MinSize \in Nat

Proc == 1..NPROC
Level == 0..(NQUEUE - 1)
NULL == -1              \* no process, no queue

Panics == {"none", "pushqueue", "pushfrontqueue",
           "not in queue", "should have prev and next"}

VARIABLES
    front, back, size,  \* struct queue
    prev, next, inq,    \* struct proc: prev, next, queue
    panic

listVars == <<front, back, prev, next>>
vars == <<listVars, size, inq, panic>>

Init ==
    /\ front = [l \in Level |-> NULL] /\ back = [l \in Level |-> NULL]
    /\ size = [l \in Level |-> 0]
    /\ prev = [p \in Proc |-> NULL] /\ next = [p \in Proc |-> NULL]
    /\ inq = [p \in Proc |-> NULL]
    /\ panic = "none"

----------------------------------------------------------------------------
(* The processes a loop "for (p = q->front; p; p = p->next)" visits.       *)

Visits(l, p) ==
    \A S \in SUBSET Proc :
        /\ front[l] # NULL => front[l] \in S
        /\ \A r \in S : next[r] # NULL => next[r] \in S
        => p \in S

(* The cases of erasequeue and popqueue once p is known to be in the list  *)
(* of q, in the order of the code's tests.                                 *)

UnlinkOnly(q, p) ==
    /\ front[q] = back[q]
    /\ front' = [front EXCEPT ![q] = NULL]
    /\ back' = [back EXCEPT ![q] = NULL]
    /\ prev' = [prev EXCEPT ![p] = NULL]
    /\ next' = [next EXCEPT ![p] = NULL]
    /\ UNCHANGED panic

UnlinkFront(q, p) ==
    /\ front[q] # back[q] /\ front[q] = p
    /\ front' = [front EXCEPT ![q] = next[p]]
    /\ prev' = [prev EXCEPT ![next[p]] = NULL, ![p] = NULL]
    /\ next' = [next EXCEPT ![p] = NULL]
    /\ UNCHANGED <<back, panic>>

UnlinkBack(q, p) ==
    /\ front[q] # back[q] /\ front[q] # p /\ back[q] = p
    /\ back' = [back EXCEPT ![q] = prev[p]]
    /\ next' = [next EXCEPT ![prev[p]] = NULL, ![p] = NULL]
    /\ prev' = [prev EXCEPT ![p] = NULL]
    /\ UNCHANGED <<front, panic>>

UnlinkMiddle(q, p) ==
    /\ front[q] # back[q] /\ front[q] # p /\ back[q] # p
    /\ prev[p] # NULL /\ next[p] # NULL
    /\ next' = [next EXCEPT ![prev[p]] = next[p], ![p] = NULL]
    /\ prev' = [prev EXCEPT ![next[p]] = prev[p], ![p] = NULL]
    /\ UNCHANGED <<front, back, panic>>

UnlinkBroken(q, p) ==
    /\ front[q] # back[q] /\ front[q] # p /\ back[q] # p
    /\ prev[p] = NULL \/ next[p] = NULL
    /\ panic' = "should have prev and next"
    /\ UNCHANGED listVars

EraseFound(q, p) ==
    /\ Visits(q, p)
    /\ inq' = [inq EXCEPT ![p] = NULL]
    /\ size' = [size EXCEPT ![q] = @ - 1]
    /\ \/ UnlinkOnly(q, p) \/ UnlinkFront(q, p) \/ UnlinkBack(q, p)
       \/ UnlinkMiddle(q, p) \/ UnlinkBroken(q, p)

EraseMissing(q, p) ==
    /\ ~Visits(q, p)
    /\ panic' = "not in queue"
    /\ UNCHANGED <<listVars, size, inq>>

(* erasequeue(p->queue, p), the only form the kernel uses; it returns at   *)
(* once when p->queue is NULL.                                             *)
erasequeue(p) ==
    /\ panic = "none" /\ inq[p] # NULL
    /\ size[inq[p]] > -MinSize
    /\ EraseFound(inq[p], p) \/ EraseMissing(inq[p], p)

(* popqueue is exported by queue.c and has no caller in the kernel.        *)
popqueue(q) ==
    LET p == front[q]
    IN  /\ panic = "none" /\ p # NULL
        /\ size[q] > -MinSize
        /\ inq' = [inq EXCEPT ![p] = NULL]
        /\ size' = [size EXCEPT ![q] = @ - 1]
        /\ UnlinkOnly(q, p) \/ UnlinkFront(q, p)

PushPanic(p, name) ==
    /\ panic = "none" /\ inq[p] # NULL
    /\ panic' = name
    /\ UNCHANGED <<listVars, size, inq>>

LinkBack(q, p) ==
    /\ back' = [back EXCEPT ![q] = p]
    /\ prev' = [prev EXCEPT ![p] = back[q]]
    /\ \/ /\ back[q] = NULL
          /\ front' = [front EXCEPT ![q] = p]
          /\ next' = [next EXCEPT ![p] = NULL]
       \/ /\ back[q] # NULL
          /\ next' = [next EXCEPT ![back[q]] = p, ![p] = NULL]
          /\ UNCHANGED front

pushqueue(q, p) ==
    \/ PushPanic(p, "pushqueue")
    \/ /\ panic = "none" /\ inq[p] = NULL
       /\ inq' = [inq EXCEPT ![p] = q]
       /\ size' = [size EXCEPT ![q] = @ + 1]
       /\ LinkBack(q, p)
       /\ UNCHANGED panic

LinkFront_Second(q, p) ==
    LET f == front[q]
    IN  /\ f # NULL
        /\ back' = [back EXCEPT ![q] = IF @ = f THEN p ELSE @]
        /\ prev' = [r \in Proc |-> IF r = p THEN f
                                  ELSE IF r = next[f] THEN p ELSE prev[r]]
        /\ next' = [next EXCEPT ![f] = p, ![p] = next[f]]
        /\ size' = [size EXCEPT ![q] = @ + 1]
        /\ UNCHANGED front

(* Both non-empty cases of pushfrontqueue; the one-element case also       *)
(* stores NULL in q->back->next, which is NULL already.                    *)
LinkFront(q, p) ==
    /\ front[q] # NULL
    /\ front' = [front EXCEPT ![q] = p]
    /\ prev' = [prev EXCEPT ![front[q]] = p, ![p] = NULL]
    /\ next' = [next EXCEPT ![front[q]] = IF front[q] = back[q] THEN NULL
                                          ELSE @,
                            ![p] = front[q]]
    /\ size' = [size EXCEPT ![q] = @ + 1]
    /\ UNCHANGED back

(* The return of the empty case comes before ++q->size.                    *)
LinkFirst(q, p) ==
    /\ front[q] = NULL
    /\ front' = [front EXCEPT ![q] = p]
    /\ back' = [back EXCEPT ![q] = p]
    /\ prev' = [prev EXCEPT ![p] = NULL]
    /\ next' = [next EXCEPT ![p] = NULL]
    /\ UNCHANGED size

pushfrontqueue(q, p) ==
    \/ PushPanic(p, "pushfrontqueue")
    \/ /\ panic = "none" /\ inq[p] = NULL
       /\ inq' = [inq EXCEPT ![p] = q]
       /\ LinkFirst(q, p) \/ LinkFront(q, p)
       /\ UNCHANGED panic

Next ==
    \/ \E p \in Proc : erasequeue(p)
    \/ \E q \in Level : popqueue(q)
    \/ \E q \in Level, p \in Proc : pushqueue(q, p) \/ pushfrontqueue(q, p)

Spec == Init /\ [][Next]_vars

----------------------------------------------------------------------------
(* The abstract queue: the processes from q->front on along p->next.       *)

Walked(l) ==
    LET at[i \in 1..NPROC] ==
            IF i = 1 THEN front[l]
            ELSE IF at[i - 1] = NULL THEN NULL ELSE next[at[i - 1]]
    IN  at

Walk(l) ==
    LET w == Walked(l)
    IN  SubSeq(w, 1, Cardinality({i \in 1..NPROC : w[i] # NULL}))
Walks == [l \in Level |-> Walk(l)]
Q == INSTANCE QueueSpec WITH queue <- Walks

(* Every link is NULL or names a slot, every queue pointer NULL or a level.*)
TypeOK ==
    /\ front \in [Level -> Proc \cup {NULL}]
    /\ back \in [Level -> Proc \cup {NULL}]
    /\ prev \in [Proc -> Proc \cup {NULL}]
    /\ next \in [Proc -> Proc \cup {NULL}]
    /\ inq \in [Proc -> Level \cup {NULL}]
    /\ size \in [Level -> Int]
    /\ panic \in Panics

(* The lists of queue.c implement sequences: whatever mix of erasequeue,   *)
(* pushqueue, pushfrontqueue and popqueue the kernel makes, walking the    *)
(* links yields what the same operations on sequences yield.               *)
ImplementsQueues == Q!Spec

(* Walking backwards from q->back along p->prev visits the same processes  *)
(* as walking forwards, both ends are closed, a process is on the list its *)
(* p->queue names and on no other, and the links of an unqueued process    *)
(* are cleared: otherwise the damage of one erasequeue shows in the next.  *)
ListsDoublyLinked ==
    /\ \A l \in Level :
        LET w == Walk(l)
        IN  /\ Range(w) = {p \in Proc : inq[p] = l}
            /\ back[l] = IF w = <<>> THEN NULL ELSE w[Len(w)]
            /\ \A i \in DOMAIN w :
                /\ prev[w[i]] = IF i = 1 THEN NULL ELSE w[i - 1]
                /\ next[w[i]] = IF i = Len(w) THEN NULL ELSE w[i + 1]
    /\ \A p \in Proc : inq[p] = NULL => prev[p] = NULL /\ next[p] = NULL

(* The two panics with which erasequeue reports a damaged list never       *)
(* happen: only pushing a process that is already queued stops the kernel. *)
NoListPanic == panic \notin {"not in queue", "should have prev and next"}

(* q->size, which printqueue shows, is never above the number of members;  *)
(* it falls behind with every pushfrontqueue on an empty queue.            *)
SizeNotAbove == \A l \in Level : size[l] <= Len(Walk(l))
=============================================================================
