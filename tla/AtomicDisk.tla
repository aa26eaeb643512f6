----------------------------- MODULE AtomicDisk -----------------------------
(***************************************************************************)
(* What the log promises the file system: system calls that write blocks   *)
(* between begin_op and end_op, a disk that changes only when no call is   *)
(* under way, from the effects of all finished calls up to one moment to   *)
(* those up to a later one, and crashes that fall back to the disk.        *)
(***************************************************************************)
CONSTANTS
    Caller,     \* processes making file system calls
    Home,       \* blocks of the file system
    Val         \* contents of a block

VARIABLES
    vol,        \* what the file system sees
    dur,        \* what a crash leaves
    active      \* callers between begin_op and end_op

diskVars == <<vol, dur, active>>

Init ==
    /\ dur \in [Home -> Val]
    /\ vol = dur
    /\ active = {}

Begin(p) ==
    /\ p \notin active
    /\ active' = active \cup {p}
    /\ UNCHANGED <<vol, dur>>

Write(p, b) ==
    /\ p \in active
    /\ \E v \in Val : vol' = [vol EXCEPT ![b] = v]
    /\ UNCHANGED <<dur, active>>

End(p) ==
    /\ p \in active
    /\ active' = active \ {p}
    /\ UNCHANGED <<vol, dur>>

Commit ==
    /\ active = {}
    /\ dur' = vol
    /\ UNCHANGED <<vol, active>>

Crash ==
    /\ vol' = dur
    /\ active' = {}
    /\ UNCHANGED dur

Next ==
    \/ \E p \in Caller : Begin(p) \/ End(p) \/ \E b \in Home : Write(p, b)
    \/ Commit
    \/ Crash

Spec == Init /\ [][Next]_diskVars
=============================================================================
