------------------------------ MODULE SyncLog -------------------------------
(***************************************************************************)
(* The log of src/project3_filesystem (log.c, bio.c): end_op no longer     *)
(* commits.  Changes stay in pinned buffers until sync() is called or      *)
(* bget() finds no more than NRESBUF usable buffers and syncs by itself,   *)
(* in the middle of a system call.                                         *)
(*                                                                         *)
(* One action is one critical section of log.lock or bcache.lock, one disk *)
(* write, or the change a caller makes to a buffer it has locked.  The     *)
(* buffers of log blocks are written through and matter by their number;   *)
(* which clean buffer bget recycles (the LRU list) is left open.           *)
(***************************************************************************)
EXTENDS Integers, Sequences, FiniteSets, Functions

CONSTANTS
    Caller,         \* processes making file system calls
    Home,           \* blocks of the file system
    Val,            \* contents of a block
    None,           \* no buffer, no block
    NBUF,           \* buffers (param.h: 50)
    NRESBUF,        \* buffers kept for a commit (param.h: 2)
    LOGSIZE,        \* blocks of the log on disk, header included (52)
    MaxHeld,        \* buffers a call holds at a time (2 in bmapstep)
    OpWrites,       \* bound: changes one system call makes
    MayCrash        \* does this instance crash?

ASSUME SyncLogAssumption ==
    /\ NBUF \in Nat /\ NRESBUF \in Nat /\ LOGSIZE \in Nat \ {0}
    /\ MaxHeld \in Nat /\ OpWrites \in Nat /\ MayCrash \in BOOLEAN
    /\ None \notin Home \cup Val /\ Val # {}

LogSlot == 1..(LOGSIZE - 1)

BgetPoints == {"bget", "force", "find", "lock"}

CommitPoints == {"commit", "log_to", "log_from", "write_head",
                 "inst_from", "inst_to", "clear_head", "erase_head", "finish", "synced"}

CallerPoints == {"out", "begin", "bsleep", "op", "log_write", "esleep", "end",
                 "sync1", "ssleep", "swoken"} \cup BgetPoints \cup CommitPoints

Faults == {"none", "too big a transaction", "bget: no buffers",
           "in commit, log.committing 0", "nested commit", "log overrun"}

VARIABLES
    disk, logdata, hdr,             \* the disk: home blocks, log, log header
    buf, dirty,                     \* the buffer cache
    lh, outstanding, committing,    \* struct log
    synchronizing,                  \* bio.c
    pc, want, held, writes,         \* callers: bread's argument, locked buffers
    tail, home, forced,             \* the loops of commit; who called sync1
    mode,                           \* "up", or a step of recover_from_log
    fault                           \* a panic, or "none"

onDisk == <<disk, logdata, hdr>>
cache == <<buf, dirty>>
logVars == <<lh, outstanding, committing, synchronizing>>
callerVars == <<pc, want, held, writes, tail, home, forced>>
vars == <<onDisk, cache, logVars, callerVars, mode, fault>>

Init ==
    /\ disk \in {[b \in Home |-> v] : v \in Val}
    /\ logdata \in {[i \in LogSlot |-> v] : v \in Val}
    /\ hdr = <<>>
    /\ buf = [b \in Home |-> None] /\ dirty = {}
    /\ lh = <<>> /\ outstanding = 0 /\ committing = FALSE /\ synchronizing = 0
    /\ pc = [p \in Caller |-> "out"] /\ want = [p \in Caller |-> None]
    /\ held = [p \in Caller |-> {}] /\ writes = [p \in Caller |-> 0]
    /\ tail = [p \in Caller |-> 1] /\ home = [p \in Caller |-> None]
    /\ forced = [p \in Caller |-> FALSE]
    /\ mode = "up" /\ fault = "none"

----------------------------------------------------------------------------
Up == mode = "up" /\ fault = "none"

At(p, point) == Up /\ pc[p] = point

Goto(p, point) == pc' = [pc EXCEPT ![p] = point]

(* Where a process asleep on &log goes on when it is woken.                *)
WokenPoint(point) ==
    CASE point = "bsleep" -> "begin"
      [] point = "esleep" -> "end"
      [] point = "ssleep" -> "swoken"
      [] OTHER -> point

(* wakeup(&log) by p, which goes on at point.                              *)
WakeupAll(p, point) ==
    pc' = [r \in Caller |-> IF r = p THEN point ELSE WokenPoint(pc[r])]

Locked(b) == \E p \in Caller : b \in held[p]

(* Callers that have the buffer of b locked or wait for it (b->refcnt).    *)
Users(b) ==
    {p \in Caller :
        \/ b \in held[p]
        \/ want[p] = b /\ pc[p] = "lock"
        \/ home[p] = b /\ pc[p] \in {"log_from", "inst_to"}}

(* Buffers with refcnt 0 and without B_DIRTY, as bget counts them; a       *)
(* process in a loop of commit holds the buffer of one log block.          *)
Usable ==
    NBUF - Cardinality({b \in Home : b \in dirty \/ Users(b) # {}})
         - Cardinality({p \in Caller : pc[p] \in {"log_from", "inst_to"}})

Short_Never == FALSE

Short_Reenters == Usable <= NRESBUF

Short == Usable <= NRESBUF /\ synchronizing = 0

Contents(b) == IF buf[b] = None THEN disk[b] ELSE buf[b]

----------------------------------------------------------------------------
(* System calls.                                                           *)

Start(p) ==
    /\ At(p, "out") /\ Goto(p, "begin")
    /\ UNCHANGED <<onDisk, cache, logVars, want, held, writes, tail, home, forced,
                   mode, fault>>

begin_op(p) ==
    /\ At(p, "begin")
    /\ \/ committing /\ Goto(p, "bsleep") /\ UNCHANGED outstanding
       \/ ~committing /\ Goto(p, "op") /\ outstanding' = outstanding + 1
    /\ writes' = [writes EXCEPT ![p] = 0]
    /\ UNCHANGED <<onDisk, cache, lh, committing, synchronizing, want, held,
                   tail, home, forced, mode, fault>>

end_op_NotWaiting(p) ==
    /\ At(p, "op") /\ held[p] = {} /\ outstanding' = outstanding - 1
    /\ WakeupAll(p, "out")
    /\ UNCHANGED <<onDisk, cache, lh, committing, synchronizing, want, held,
                   writes, tail, home, forced, mode, fault>>

(* end_op: the loop is entered at "end" again after every wakeup.          *)
end_op(p) ==
    /\ \/ At(p, "op") /\ held[p] = {} /\ outstanding' = outstanding - 1
       \/ At(p, "end") /\ UNCHANGED outstanding
    /\ IF committing THEN Goto(p, "esleep") ELSE WakeupAll(p, "out")
    /\ UNCHANGED <<onDisk, cache, lh, committing, synchronizing, want, held,
                   writes, tail, home, forced, mode, fault>>

bread(p, b) ==
    /\ At(p, "op") /\ Goto(p, "bget")
    /\ b \notin held[p] /\ Cardinality(held[p]) < MaxHeld
    /\ writes[p] < OpWrites
    /\ want' = [want EXCEPT ![p] = b]
    /\ UNCHANGED <<onDisk, cache, logVars, held, writes, tail, home, forced, mode,
                   fault>>

(* A change of a locked buffer and the test log_write makes without a lock.*)
Modify(p, b, v) ==
    /\ At(p, "op") /\ b \in held[p] /\ writes[p] < OpWrites
    /\ buf' = [buf EXCEPT ![b] = v]
    /\ writes' = [writes EXCEPT ![p] = @ + 1]
    /\ want' = [want EXCEPT ![p] = b]
    /\ IF Len(lh) >= LOGSIZE - 1
       THEN fault' = "too big a transaction" /\ UNCHANGED pc
       ELSE Goto(p, "log_write") /\ UNCHANGED fault
    /\ UNCHANGED <<onDisk, dirty, logVars, held, tail, home, forced, mode>>

Pinned(b) == dirty \cup {b}

log_write(p) ==
    LET b == want[p]
    IN  /\ At(p, "log_write") /\ Goto(p, "op")
        /\ lh' = IF b \in Range(lh) THEN lh ELSE Append(lh, b)
        /\ dirty' = Pinned(b)
        /\ want' = [want EXCEPT ![p] = None]
        /\ UNCHANGED <<onDisk, buf, outstanding, committing, synchronizing,
                       held, writes, tail, home, forced, mode, fault>>

brelse(p, b) ==
    /\ At(p, "op") /\ b \in held[p]
    /\ held' = [held EXCEPT ![p] = @ \ {b}]
    /\ UNCHANGED <<onDisk, cache, logVars, pc, want, writes, tail, home, forced,
                   mode, fault>>

----------------------------------------------------------------------------
(* bget: the count of usable buffers, the sync it may start, the search,   *)
(* and the wait for the buffer's sleep lock.                               *)

bget(p) ==
    /\ At(p, "bget")
    /\ Goto(p, IF Short THEN "force" ELSE "find")
    /\ UNCHANGED <<onDisk, cache, logVars, want, held, writes, tail, home, forced,
                   mode, fault>>

(* ++synchronizing; sync1(0), which does not look at log.committing.       *)
ForceSync(p) ==
    /\ At(p, "force") /\ Goto(p, "commit")
    /\ synchronizing' = synchronizing + 1
    /\ committing' = TRUE
    /\ forced' = [forced EXCEPT ![p] = TRUE]
    /\ UNCHANGED <<onDisk, cache, lh, outstanding, want, held, writes, tail, home,
                   mode, fault>>

Find(p) ==
    /\ At(p, "find")
    /\ IF buf[want[p]] = None /\ Usable = 0
       THEN fault' = "bget: no buffers" /\ UNCHANGED <<pc, buf>>
       ELSE /\ Goto(p, "lock")
            /\ buf' = [buf EXCEPT ![want[p]] = Contents(want[p])]
            /\ UNCHANGED fault
    /\ UNCHANGED <<onDisk, dirty, logVars, want, held, writes, tail, home, forced,
                   mode>>

acquiresleep(p) ==
    /\ At(p, "lock") /\ ~Locked(want[p]) /\ Goto(p, "op")
    /\ held' = [held EXCEPT ![p] = @ \cup {want[p]}]
    /\ want' = [want EXCEPT ![p] = None]
    /\ UNCHANGED <<onDisk, cache, logVars, writes, tail, home, forced, mode, fault>>

(* bget for another block takes the buffer of b.                           *)
Recycle(b) ==
    /\ Up /\ buf[b] # None /\ b \notin dirty /\ Users(b) = {}
    /\ buf' = [buf EXCEPT ![b] = None]
    /\ UNCHANGED <<onDisk, dirty, logVars, callerVars, mode, fault>>

----------------------------------------------------------------------------
(* sync() and commit().                                                    *)

sys_sync(p) ==
    /\ At(p, "out") /\ Goto(p, "sync1")
    /\ synchronizing' = 1
    /\ UNCHANGED <<onDisk, cache, lh, outstanding, committing, want, held,
                   writes, tail, home, forced, mode, fault>>

sync1(p) ==
    /\ At(p, "sync1")
    /\ \/ committing /\ Goto(p, "ssleep") /\ UNCHANGED committing
       \/ ~committing /\ Goto(p, "commit") /\ committing' = TRUE
    /\ forced' = [forced EXCEPT ![p] = FALSE]
    /\ UNCHANGED <<onDisk, cache, lh, outstanding, synchronizing, want, held,
                   writes, tail, home, mode, fault>>

commit_SkipsOne(p) ==
    /\ At(p, "commit")
    /\ Goto(p, IF Len(lh) <= 1 THEN "finish" ELSE "log_to")
    /\ tail' = [tail EXCEPT ![p] = 1]
    /\ UNCHANGED <<onDisk, cache, logVars, want, held, writes, home, forced,
                   mode, fault>>

commit(p) ==
    /\ At(p, "commit")
    /\ IF committing
       THEN /\ Goto(p, IF lh = <<>> THEN "finish" ELSE "log_to")
            /\ UNCHANGED fault
       ELSE fault' = "in commit, log.committing 0" /\ UNCHANGED pc
    /\ tail' = [tail EXCEPT ![p] = 1]
    /\ UNCHANGED <<onDisk, cache, logVars, want, held, writes, home, forced,
                   mode>>

SlotBusy(p) ==
    \E r \in Caller \ {p} :
        pc[r] \in {"log_from", "inst_to"} /\ tail[r] = tail[p]

(* What bread of a block of the log may meet inside commit: a shortage     *)
(* that starts another commit from within this one, or no buffer at all;   *)
(* the tail-th block may also lie outside the log.                         *)
BreadFault ==
    IF Short THEN "nested commit" ELSE IF Usable = 0 THEN "bget: no buffers" ELSE "none"

SlotFault(p) == IF tail[p] \in LogSlot THEN BreadFault ELSE "log overrun"

MoreSlots_ButLast(p) == tail[p] < Len(lh)

(* tail < log.lh.n                                                         *)
MoreSlots(p) == tail[p] <= Len(lh)

(* The head of the loops of write_log and install_trans: log.lh.n is read  *)
(* again in every turn.                                                    *)
NextSlot(p, from, to, done) ==
    /\ At(p, from)
    /\ \/ /\ ~MoreSlots(p)
          /\ Goto(p, done)
          /\ tail' = [tail EXCEPT ![p] = 1]
          /\ UNCHANGED <<fault, home>>
       \/ /\ MoreSlots(p) /\ ~SlotBusy(p)
          /\ Goto(p, to)
          /\ fault' = SlotFault(p)
          /\ home' = [home EXCEPT ![p] = lh[tail[p]]]
          /\ UNCHANGED tail
    /\ UNCHANGED <<onDisk, cache, logVars, want, held, writes, forced, mode>>

LogTo(p) == NextSlot(p, "log_to", "log_from", "write_head")

LogFrom(p) ==
    LET b == home[p]
    IN  /\ At(p, "log_from") /\ ~Locked(b) /\ Goto(p, "log_to")
        /\ logdata' = [logdata EXCEPT ![tail[p]] = Contents(b)]
        /\ buf' = [buf EXCEPT ![b] = Contents(b)]
        /\ tail' = [tail EXCEPT ![p] = @ + 1]
        /\ home' = [home EXCEPT ![p] = None]
        /\ UNCHANGED <<disk, hdr, dirty, logVars, want, held, writes, forced,
                       mode, fault>>

(* log.lh goes to the header on disk.                                      *)
HeadWritten(p, done) ==
    /\ Goto(p, done)
    /\ fault' = BreadFault
    /\ hdr' = IF BreadFault = "none" THEN lh ELSE hdr
    /\ UNCHANGED <<disk, logdata, cache, logVars, want, held, writes, tail,
                   home, forced, mode>>

write_head(p) == At(p, "write_head") /\ HeadWritten(p, "inst_from")

InstFrom(p) == NextSlot(p, "inst_from", "inst_to", "clear_head")

(* memmove, bwrite (which clears B_DIRTY) and brelse in install_trans.     *)
InstTo(p) ==
    LET b == home[p]
    IN  /\ At(p, "inst_to") /\ ~Locked(b) /\ Goto(p, "inst_from")
        /\ disk' = [disk EXCEPT ![b] = logdata[tail[p]]]
        /\ buf' = [buf EXCEPT ![b] = logdata[tail[p]]]
        /\ dirty' = dirty \ {b}
        /\ tail' = [tail EXCEPT ![p] = @ + 1]
        /\ home' = [home EXCEPT ![p] = None]
        /\ UNCHANGED <<logdata, hdr, logVars, want, held, writes, forced,
                       mode, fault>>

(* log.lh.n = 0, without a lock, and the second write_head.                *)
clear_head(p) ==
    /\ At(p, "clear_head") /\ Goto(p, "erase_head")
    /\ lh' = <<>>
    /\ UNCHANGED <<onDisk, cache, outstanding, committing, synchronizing, want,
                   held, writes, tail, home, forced, mode, fault>>

erase_head(p) == At(p, "erase_head") /\ HeadWritten(p, "finish")

Wakes(p, point) == WakeupAll(p, point)

(* The end of sync1.                                                       *)
Finish(p) ==
    /\ At(p, "finish")
    /\ committing' = FALSE
    /\ Wakes(p, "synced")
    /\ UNCHANGED <<onDisk, cache, lh, outstanding, synchronizing, want, held,
                   writes, tail, home, forced, mode, fault>>

(* sync1 returns: bget goes on with its search, sys_sync with its result.  *)
Return(p) ==
    /\ At(p, "synced") \/ At(p, "swoken")
    /\ Goto(p, IF forced[p] THEN "find" ELSE "out")
    /\ synchronizing' = 0
    /\ forced' = [forced EXCEPT ![p] = FALSE]
    /\ UNCHANGED <<onDisk, cache, lh, outstanding, committing, want, held,
                   writes, tail, home, mode, fault>>

----------------------------------------------------------------------------
(* A crash loses the memory; initlog recovers before any system call runs. *)

Crash ==
    /\ MayCrash
    /\ buf' = [b \in Home |-> None] /\ dirty' = {}
    /\ lh' = hdr /\ outstanding' = 0
    /\ committing' = FALSE /\ synchronizing' = 0
    /\ pc' = [p \in Caller |-> "out"] /\ want' = [p \in Caller |-> None]
    /\ held' = [p \in Caller |-> {}] /\ writes' = [p \in Caller |-> 0]
    /\ tail' = [p \in Caller |-> 1] /\ home' = [p \in Caller |-> None]
    /\ forced' = [p \in Caller |-> FALSE]
    /\ mode' = "install" /\ fault' = "none"
    /\ UNCHANGED onDisk

(* install_trans and the clearing of the header in recover_from_log; lh    *)
(* shrinks as its blocks are installed, so that a second crash restarts    *)
(* from the header.                                                        *)
RecoverInstall ==
    LET i == Len(hdr) - Len(lh) + 1
    IN  /\ mode = "install" /\ lh # <<>>
        /\ disk' = [disk EXCEPT ![Head(lh)] = logdata[i]]
        /\ lh' = Tail(lh)
        /\ UNCHANGED <<logdata, hdr, cache, outstanding, committing,
                       synchronizing, callerVars, mode, fault>>

RecoverClear ==
    /\ mode = "install" /\ lh = <<>>
    /\ hdr' = <<>> /\ mode' = "up"
    /\ UNCHANGED <<disk, logdata, cache, logVars, callerVars, fault>>

CommitStep(p) ==
    \/ commit(p) \/ LogTo(p) \/ LogFrom(p) \/ write_head(p)
    \/ InstFrom(p) \/ InstTo(p) \/ clear_head(p) \/ erase_head(p)
    \/ Finish(p) \/ Return(p)

BgetStep(p) == bget(p) \/ ForceSync(p) \/ Find(p) \/ acquiresleep(p)

LeaveOp(p) == end_op(p) \/ \E b \in Home : brelse(p, b)

CallerStep(p) ==
    \/ begin_op(p) \/ log_write(p) \/ sync1(p)
    \/ LeaveOp(p) \/ BgetStep(p) \/ CommitStep(p)

Next ==
    \/ \E p \in Caller : Start(p) \/ sys_sync(p) \/ CallerStep(p)
    \/ \E p \in Caller, b \in Home :
            bread(p, b) \/ \E v \in Val : Modify(p, b, v)
    \/ \E b \in Home : Recycle(b)
    \/ Crash \/ RecoverInstall \/ RecoverClear

Spec == Init /\ [][Next]_vars

(* Every process keeps running (the scheduler is fair, the disk answers),  *)
(* and a call releases its buffers and ends.                               *)
Fairness == \A p \in Caller : WF_vars(CallerStep(p))
LiveSpec == Spec /\ Fairness

----------------------------------------------------------------------------
(* What a crash at this moment leaves.                                     *)
Recovered ==
    [b \in Home |->
        IF b \in Range(hdr)
        THEN logdata[CHOOSE i \in DOMAIN hdr : hdr[i] = b]
        ELSE disk[b]]

(* What system calls see.                                                  *)
Vol == IF mode = "up" THEN [b \in Home |-> Contents(b)] ELSE Recovered

OpPoints == {"op", "log_write"} \cup BgetPoints

InOp == {p \in Caller : pc[p] \in OpPoints \/ forced[p]}

D == INSTANCE AtomicDisk WITH vol <- Vol, dur <- Recovered, active <- InOp

TypeOK ==
    /\ disk \in [Home -> Val] /\ logdata \in [LogSlot -> Val]
    /\ hdr \in Seq(Home) /\ lh \in Seq(Home)
    /\ buf \in [Home -> Val \cup {None}] /\ dirty \subseteq Home
    /\ outstanding \in Nat /\ committing \in BOOLEAN
    /\ synchronizing \in 0..Cardinality(Caller)
    /\ pc \in [Caller -> CallerPoints]
    /\ want \in [Caller -> Home \cup {None}]
    /\ held \in [Caller -> SUBSET Home]
    /\ writes \in [Caller -> 0..OpWrites]
    /\ tail \in [Caller -> Nat \ {0}]
    /\ home \in [Caller -> Home \cup {None}]
    /\ forced \in [Caller -> BOOLEAN]
    /\ mode \in {"up", "install"} /\ fault \in Faults

(* A commit is all or nothing: what a crash leaves changes in one step,    *)
(* the write of the log header, to what system calls see at that moment,   *)
(* and neither the copying into the log, nor the installation, nor a       *)
(* recovery that is itself cut short changes it.                           *)
CommitAllOrNothing == [][Recovered' # Recovered => Recovered' = Vol]_vars

(* When sync() returns to a caller that is alone, everything it did before *)
(* survives a crash.                                                       *)
SyncedDurable ==
    \A p \in Caller :
        pc[p] = "synced" /\ ~forced[p] /\ outstanding = 0 => Recovered = Vol

(* Where a caller has no system call under way that changes the disk.      *)
Aside == {"out", "begin", "bsleep", "sync1", "ssleep", "swoken", "synced"}

(* No other caller has a call under way.                                   *)
Undisturbed(p) == \A q \in Caller \ {p} : pc[q] \in Aside /\ ~forced[q]

(* A commit changes what system calls read only while another call is      *)
(* under way: whoever changes a block after the commit has copied it is    *)
(* still there, waiting in end_op, when the commit installs its copy.      *)
CommitKeepsContents ==
    [][\A p \in Caller : CommitStep(p) /\ Undisturbed(p) => Vol' = Vol]_vars

(* The buffers last: the sync of bget comes before they are all pinned and *)
(* before the log is full.                                                 *)
BuffersSuffice == fault \notin {"bget: no buffers", "too big a transaction"}

(* A commit waits for a buffer that somebody has locked.                   *)
CommitBlocked ==
    \E p \in Caller : pc[p] \in {"log_from", "inst_to"} /\ Locked(home[p])

(* bread returns a locked buffer, though it may have to commit first,      *)
(* unless the machine crashes or the commit comes to a buffer that the     *)
(* caller of bread has locked itself.                                      *)
BreadReturns ==
    \A p \in Caller :
        pc[p] = "bget" ~> pc[p] = "op" \/ mode # "up" \/ CommitBlocked

(* Nobody sleeps on &log for ever: callers wait in begin_op, end_op and    *)
(* sync for the end of a commit.                                           *)
SleepersWoken ==
    \A p \in Caller :
        pc[p] \in {"bsleep", "esleep", "ssleep"}
            ~> pc[p] \notin {"bsleep", "esleep", "ssleep"}

(* The same as an invariant: whoever sleeps on &log sleeps while a commit  *)
(* that will wake it is under way.                                         *)
SleepersAwaited ==
    \A p \in Caller :
        pc[p] \in {"bsleep", "esleep", "ssleep"} =>
            committing /\ \E q \in Caller : pc[q] \in CommitPoints \ {"synced"}

----------------------------------------------------------------------------
(* What the repository says of the program and the code does not do (the   *)
(* README lists where).  No passing run checks these.                      *)

(* The log makes groups of system calls atomic: the disk moves from one    *)
(* state with no call under way to a later such state.                     *)
AtomicCommits == D!Spec

(* When no system call is under way, every change is on disk.              *)
DurableWhenQuiet ==
    mode = "up" /\ outstanding = 0 /\ ~committing => Recovered = Vol

(* The flag log.committing is up from sync1 to the end of the commit.      *)
CommitFlagged == fault # "in commit, log.committing 0"

(* bget returns a locked buffer, whatever its caller holds.                *)
BgetReturns == \A p \in Caller : pc[p] = "bget" ~> pc[p] = "op" \/ mode # "up"
=============================================================================
