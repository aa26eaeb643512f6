-------------------------------- MODULE Log --------------------------------
(***************************************************************************)
(* The write-ahead log of src/project1_scheduler/log.c (the same file in   *)
(* project2_LWP): system calls reserve log space in begin_op, record the   *)
(* blocks they change with log_write, and the end_op of the last one       *)
(* commits.  The machine may crash between any two disk writes, recovery   *)
(* included.                                                               *)
(*                                                                         *)
(* One action is one critical section of log.lock, one disk write, or the  *)
(* change a caller makes to a buffer it has locked.  The buffer cache is   *)
(* abstracted to the contents of the cached blocks and to whether a block  *)
(* is dirty: a clean buffer nobody holds may be recycled at any moment.    *)
(***************************************************************************)
EXTENDS Integers, Sequences, FiniteSets, Functions

CONSTANTS
    Caller,         \* processes making file system calls
    Home,           \* blocks of the file system
    Val,            \* contents of a block
    None,           \* no buffer, no block
    MAXOPBLOCKS,    \* blocks a call reserves (param.h: 10)
    LOGSIZE,        \* log space begin_op counts with (param.h: 30)
    NLOG,           \* blocks of the log on disk, header included (mkfs: LOGSIZE)
    OpWrites        \* bound: log_write calls of one system call

ASSUME LogSizeAssumption ==
    /\ MAXOPBLOCKS \in Nat \ {0} /\ LOGSIZE \in Nat /\ NLOG \in Nat \ {0}
    /\ OpWrites \in 0..MAXOPBLOCKS
    /\ None \notin Home \cup Val /\ Val # {}

LogSlot == 1..(NLOG - 1)

CallerPoints == {"out", "begin", "sleep", "op", "logging", "write_log",
                 "write_head", "install_trans", "clear_head", "committed"}

Faults == {"none", "log.committing", "too big a transaction", "log overrun"}

VARIABLES
    disk, logdata, hdr,             \* the disk: home blocks, log, log header
    buf, dirty,                     \* the buffer cache
    lh, outstanding, committing,    \* struct log
    tail,                           \* the loop of write_log or install_trans
    pc, target, writes,             \* callers
    mode,                           \* "up", or a step of recover_from_log
    fault                           \* a panic, or "none"

onDisk == <<disk, logdata, hdr>>
callerVars == <<pc, target, writes>>
vars == <<onDisk, buf, dirty, lh, outstanding, committing, tail, callerVars,
          mode, fault>>

Init ==
    /\ disk \in [Home -> Val]
    /\ logdata \in {[i \in LogSlot |-> v] : v \in Val}
    /\ hdr = <<>>
    /\ buf = [b \in Home |-> None] /\ dirty = {}
    /\ lh = <<>> /\ outstanding = 0 /\ committing = FALSE /\ tail = 1
    /\ pc = [p \in Caller |-> "out"]
    /\ target = [p \in Caller |-> None]
    /\ writes = [p \in Caller |-> 0]
    /\ mode = "up" /\ fault = "none"

----------------------------------------------------------------------------
Up == mode = "up" /\ fault = "none"

Goto(p, from, to) ==
    /\ Up /\ pc[p] = from
    /\ pc' = [pc EXCEPT ![p] = to]

(* wakeup(&log), with p itself going on to point "to".                     *)
WakeupAll(p, to) ==
    pc' = [r \in Caller |-> IF r = p THEN to
                            ELSE IF pc[r] = "sleep" THEN "begin" ELSE pc[r]]

(* The call enters begin_op.                                               *)
Start(p) ==
    /\ Goto(p, "out", "begin")
    /\ UNCHANGED <<onDisk, buf, dirty, lh, outstanding, committing, tail,
                   target, writes, mode, fault>>

MustWait_CountsSelfNot ==
    committing \/ Len(lh) + outstanding * MAXOPBLOCKS > LOGSIZE

MustWait == committing \/ Len(lh) + (outstanding + 1) * MAXOPBLOCKS > LOGSIZE

begin_op_Sleeps(p) ==
    /\ MustWait
    /\ Goto(p, "begin", "sleep")
    /\ UNCHANGED <<onDisk, buf, dirty, lh, outstanding, committing, tail,
                   target, writes, mode, fault>>

begin_op_Enters(p) ==
    /\ ~MustWait
    /\ Goto(p, "begin", "op")
    /\ outstanding' = outstanding + 1
    /\ writes' = [writes EXCEPT ![p] = 0]
    /\ UNCHANGED <<onDisk, buf, dirty, lh, committing, tail, target, mode,
                   fault>>

(* bread(b), a change of its contents, and the tests of log_write before   *)
(* it takes log.lock; the caller keeps the buffer's sleep lock.            *)
Modify(p, b, v) ==
    /\ writes[p] < OpWrites
    /\ \A r \in Caller : target[r] # b
    /\ Up /\ pc[p] = "op"
    /\ IF Len(lh) >= LOGSIZE \/ Len(lh) >= NLOG - 1
       THEN fault' = "too big a transaction" /\ UNCHANGED callerVars
       ELSE /\ pc' = [pc EXCEPT ![p] = "logging"]
            /\ target' = [target EXCEPT ![p] = b]
            /\ writes' = [writes EXCEPT ![p] = @ + 1]
            /\ UNCHANGED fault
    /\ buf' = [buf EXCEPT ![b] = v]
    /\ UNCHANGED <<onDisk, dirty, lh, outstanding, committing, tail, mode>>

Absorbed(b) == b \in Range(lh)

Pinned_Not(b) == dirty

Pinned(b) == dirty \cup {b}

(* The rest of log_write, and brelse.                                      *)
log_write(p) ==
    LET b == target[p]
    IN  /\ Goto(p, "logging", "op")
        /\ lh' = IF Absorbed(b) THEN lh ELSE Append(lh, b)
        /\ dirty' = Pinned(b)
        /\ target' = [target EXCEPT ![p] = None]
        /\ UNCHANGED <<onDisk, buf, outstanding, committing, tail, writes,
                       mode, fault>>

(* bread reads a block that is not cached; bget recycles a clean one.      *)
bread(b) ==
    /\ Up /\ buf[b] = None
    /\ buf' = [buf EXCEPT ![b] = disk[b]]
    /\ UNCHANGED <<onDisk, dirty, lh, outstanding, committing, tail,
                   callerVars, mode, fault>>

Recycle(b) ==
    /\ Up /\ buf[b] # None /\ b \notin dirty
    /\ \A p \in Caller : target[p] # b
    /\ buf' = [buf EXCEPT ![b] = None]
    /\ UNCHANGED <<onDisk, dirty, lh, outstanding, committing, tail,
                   callerVars, mode, fault>>

LastOut_Never == FALSE

LastOut == outstanding = 1

(* end_op up to its release of log.lock.                                   *)
end_op(p) ==
    /\ Up /\ pc[p] = "op"
    /\ outstanding' = outstanding - 1
    /\ \/ /\ committing
          /\ fault' = "log.committing"
          /\ UNCHANGED <<committing, tail, pc>>
       \/ /\ ~committing /\ LastOut
          /\ committing' = TRUE /\ tail' = 1
          /\ pc' = [pc EXCEPT ![p] = IF lh = <<>> THEN "committed"
                                     ELSE "write_log"]
          /\ UNCHANGED fault
       \/ /\ ~committing /\ ~LastOut
          /\ WakeupAll(p, "out")
          /\ UNCHANGED <<committing, tail, fault>>
    /\ UNCHANGED <<onDisk, buf, dirty, lh, target, writes, mode>>

----------------------------------------------------------------------------
(* commit(): one action per disk write.                                    *)

Contents(b) == IF buf[b] = None THEN disk[b] ELSE buf[b]

write_log(p) ==
    /\ Up /\ pc[p] = "write_log"
    /\ IF tail \in LogSlot
       THEN /\ logdata' = [logdata EXCEPT ![tail] = Contents(lh[tail])]
            /\ buf' = [buf EXCEPT ![lh[tail]] = Contents(lh[tail])]
            /\ tail' = IF tail = Len(lh) THEN 1 ELSE tail + 1
            /\ pc' = [pc EXCEPT ![p] = IF tail = Len(lh) THEN "write_head"
                                       ELSE @]
            /\ UNCHANGED fault
       ELSE fault' = "log overrun" /\ UNCHANGED <<logdata, buf, tail, pc>>
    /\ UNCHANGED <<disk, hdr, dirty, lh, outstanding, committing, target,
                   writes, mode>>

write_head(p) ==
    /\ Goto(p, "write_head", "install_trans")
    /\ hdr' = lh
    /\ UNCHANGED <<disk, logdata, buf, dirty, lh, outstanding, committing,
                   tail, target, writes, mode, fault>>

(* One turn of the loop of install_trans; bwrite clears B_DIRTY.           *)
InstallOne ==
    /\ disk' = [disk EXCEPT ![lh[tail]] = logdata[tail]]
    /\ buf' = [buf EXCEPT ![lh[tail]] = logdata[tail]]
    /\ dirty' = dirty \ {lh[tail]}
    /\ tail' = IF tail = Len(lh) THEN 1 ELSE tail + 1

install_trans(p) ==
    /\ Up /\ pc[p] = "install_trans"
    /\ InstallOne
    /\ pc' = [pc EXCEPT ![p] = IF tail = Len(lh) THEN "clear_head" ELSE @]
    /\ UNCHANGED <<logdata, hdr, lh, outstanding, committing, target, writes,
                   mode, fault>>

clear_head(p) ==
    /\ Goto(p, "clear_head", "committed")
    /\ lh' = <<>> /\ hdr' = <<>>
    /\ UNCHANGED <<disk, logdata, buf, dirty, outstanding, committing, tail,
                   target, writes, mode, fault>>

Wakes_Nobody(p, to) == pc' = [pc EXCEPT ![p] = to]

Wakes(p, to) == WakeupAll(p, to)

(* The end of end_op: log.committing = 0; wakeup(&log).                    *)
Committed(p) ==
    /\ Up /\ pc[p] = "committed"
    /\ committing' = FALSE
    /\ Wakes(p, "out")
    /\ UNCHANGED <<onDisk, buf, dirty, lh, outstanding, tail, target, writes,
                   mode, fault>>

----------------------------------------------------------------------------
(* A crash loses the memory; recover_from_log starts with read_head.       *)

AfterHead(h) == IF h = <<>> THEN "clear" ELSE "install"

Crash ==
    /\ buf' = [b \in Home |-> None] /\ dirty' = {}
    /\ lh' = hdr /\ outstanding' = 0 /\ committing' = FALSE /\ tail' = 1
    /\ pc' = [p \in Caller |-> "out"]
    /\ target' = [p \in Caller |-> None]
    /\ writes' = [p \in Caller |-> 0]
    /\ mode' = AfterHead(hdr) /\ fault' = "none"
    /\ UNCHANGED onDisk

RecoverInstall ==
    /\ mode = "install" /\ fault = "none"
    /\ InstallOne
    /\ mode' = IF tail = Len(lh) THEN "clear" ELSE mode
    /\ UNCHANGED <<logdata, hdr, lh, outstanding, committing, callerVars,
                   fault>>

RecoverClear ==
    /\ mode = "clear" /\ fault = "none"
    /\ lh' = <<>> /\ hdr' = <<>> /\ mode' = "up"
    /\ UNCHANGED <<disk, logdata, buf, dirty, outstanding, committing, tail,
                   callerVars, fault>>

CommitStep(p) ==
    \/ write_log(p) \/ write_head(p) \/ install_trans(p) \/ clear_head(p)
    \/ Committed(p)

CallerStep(p) ==
    \/ begin_op_Sleeps(p) \/ begin_op_Enters(p) \/ log_write(p)
    \/ end_op(p) \/ CommitStep(p)

Next ==
    \/ \E p \in Caller : Start(p) \/ CallerStep(p)
    \/ \E p \in Caller, b \in Home, v \in Val : Modify(p, b, v)
    \/ \E b \in Home : bread(b) \/ Recycle(b)
    \/ Crash \/ RecoverInstall \/ RecoverClear

Spec == Init /\ [][Next]_vars

(* A caller inside the log code keeps running: the scheduler gives every   *)
(* process its turn and no disk write blocks forever.  A call makes        *)
(* finitely many changes and ends.                                         *)
Fairness == \A p \in Caller : WF_vars(CallerStep(p))
LiveSpec == Spec /\ Fairness

----------------------------------------------------------------------------
(* What a crash at this moment leaves: the home blocks, with the logged    *)
(* copies of the blocks the header names.                                  *)
Recovered ==
    [b \in Home |->
        IF b \in Range(hdr)
        THEN logdata[CHOOSE i \in DOMAIN hdr : hdr[i] = b]
        ELSE disk[b]]

InOp == {p \in Caller : pc[p] \in {"op", "logging"}}

D == INSTANCE AtomicDisk WITH
        vol <- IF mode = "up" THEN [b \in Home |-> Contents(b)] ELSE Recovered,
        dur <- Recovered,
        active <- InOp

TypeOK ==
    /\ disk \in [Home -> Val] /\ logdata \in [LogSlot -> Val]
    /\ hdr \in Seq(Home) /\ lh \in Seq(Home)
    /\ buf \in [Home -> Val \cup {None}] /\ dirty \subseteq Home
    /\ outstanding \in Nat /\ committing \in BOOLEAN /\ tail \in Nat \ {0}
    /\ pc \in [Caller -> CallerPoints]
    /\ target \in [Caller -> Home \cup {None}]
    /\ writes \in [Caller -> 0..OpWrites]
    /\ mode \in {"up", "install", "clear"} /\ fault \in Faults

(* The log makes groups of system calls atomic: the state a crash leaves   *)
(* is always that of a moment with no call under way, never half of one.   *)
AtomicCommits == D!Spec

(* When the last end_op has returned, every change is on disk or in a      *)
(* committed log: a crash then loses nothing.                              *)
DurableWhenQuiet ==
    mode = "up" /\ outstanding = 0 /\ ~committing
        => Recovered = [b \in Home |-> Contents(b)]

(* The space begin_op reserves is enough for the calls it lets in, so that *)
(* log_write never panics with "too big a transaction", write_log stays    *)
(* inside the log area, and no call ends during a commit.                  *)
ReservationSuffices == fault = "none"

(* A caller asleep in begin_op is always woken: the wakeups of end_op are  *)
(* enough, though the last one comes after the commit.                     *)
SleepersWoken == \A p \in Caller : pc[p] = "sleep" ~> pc[p] # "sleep"
=============================================================================
