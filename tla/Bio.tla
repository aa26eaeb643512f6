-------------------------------- MODULE Bio ---------------------------------
(***************************************************************************)
(* The buffer cache, its sleep locks and the IDE driver of                 *)
(* src/project1_scheduler (bio.c, sleeplock.c, ide.c).  Processes read,    *)
(* change, write and release blocks; the disk works on one request at a    *)
(* time and interrupts when it is done.  Each action is what a process or  *)
(* the interrupt handler does while it holds bcache.lock, the spin lock of *)
(* a sleep lock, or idelock.                                               *)
(***************************************************************************)
EXTENDS Integers, Sequences, FiniteSets, Functions, SequencesExt

CONSTANTS
    Procs, NBUF, Blocks,
    Values,     \* contents of a block
    Errors      \* whether the disk may fail to read

Buf == 1..NBUF
None == 0

VARIABLES
    buf,        \* struct buf: block, valid, dirty, refcnt, data
    lru,        \* bcache.head: the most recently used buffer first
    lock,       \* the process that holds the sleep lock of a buffer
    idequeue,   \* buffers waiting for the disk, the active one first
    busy,       \* the request the controller works on
    intr,       \* its interrupt is pending, or reports an error
    disk,       \* the blocks on the platter
    pc, b,      \* where a process is and the buffer of its call
    bad,        \* blocks whose read has failed
    stopped     \* panic

bvars == <<buf, lru, lock, idequeue, busy, intr, disk, pc, b, bad, stopped>>

Idle == [write |-> FALSE, block |-> None, data |-> None]

Init ==
    /\ buf = [k \in Buf |-> [block |-> None, valid |-> FALSE, dirty |-> FALSE,
                             refcnt |-> 0, data |-> None]]
    /\ lru = [k \in Buf |-> NBUF + 1 - k]       \* binit puts each one first
    /\ lock = [k \in Buf |-> None]
    /\ idequeue = <<>> /\ busy = Idle /\ intr = "no"
    /\ disk = [k \in Blocks |-> CHOOSE v \in Values : TRUE]
    /\ pc = [p \in Procs |-> "user"] /\ b = [p \in Procs |-> None]
    /\ bad = {} /\ stopped = FALSE

Goto(p, l) == pc' = [pc EXCEPT ![p] = l]

----------------------------------------------------------------------------
(* bget: the cached buffer, or the least recently used one that nobody     *)
(* refers to and the log does not pin.                                     *)

CachedBufs(blk) == {k \in Buf : buf[k].block = blk}

Recyclable_Dirty(k) == buf[k].refcnt = 0

Recyclable(k) == buf[k].refcnt = 0 /\ ~buf[k].dirty
Victim == lru[CHOOSE i \in DOMAIN lru :
                 Recyclable(lru[i]) /\ \A j \in DOMAIN lru : Recyclable(lru[j]) => j <= i]

bget(p) ==
    \E blk \in Blocks :
      /\ pc[p] = "user"
      /\ \/ \E k \in CachedBufs(blk) :
              /\ buf' = [buf EXCEPT ![k].refcnt = @ + 1]
              /\ b' = [b EXCEPT ![p] = k]
              /\ Goto(p, "lock") /\ UNCHANGED stopped
         \/ /\ CachedBufs(blk) = {} /\ \E k \in Buf : Recyclable(k)
            /\ buf' = [buf EXCEPT ![Victim] = [block |-> blk, valid |-> FALSE,
                         dirty |-> FALSE, refcnt |-> 1, data |-> @.data]]
            /\ b' = [b EXCEPT ![p] = Victim]
            /\ Goto(p, "lock") /\ UNCHANGED stopped
         \/ /\ CachedBufs(blk) = {} /\ ~\E k \in Buf : Recyclable(k)
            /\ stopped' = TRUE /\ UNCHANGED <<buf, b, pc>>
      /\ UNCHANGED <<lru, lock, idequeue, busy, intr, disk, bad>>

(* acquiresleep sleeps until releasesleep wakes everyone; the first to get *)
(* the spin lock again takes the sleep lock.  The rest of bread follows.   *)
acquiresleep(p) ==
    /\ pc[p] = "lock"
    /\ IF lock[b[p]] # None
       THEN Goto(p, "asleep") /\ UNCHANGED lock
       ELSE /\ lock' = [lock EXCEPT ![b[p]] = p]
            /\ Goto(p, IF buf[b[p]].valid THEN "holds" ELSE "iderw")
    /\ UNCHANGED <<buf, lru, idequeue, busy, intr, disk, b, bad, stopped>>

SleepersWoken(k) ==
    [q \in Procs |-> IF pc[q] = "asleep" /\ b[q] = k THEN "lock" ELSE pc[q]]

(* The unlinking and relinking of brelse.                                  *)
ToFront(s, k) == <<k>> \o RemoveAt(s, CHOOSE i \in DOMAIN s : s[i] = k)

(* brelse: releasesleep, then under bcache.lock the reference is dropped   *)
(* and a buffer without references moves to the front.                     *)
releasesleep(p) ==
    /\ pc[p] = "holds"
    /\ lock' = [lock EXCEPT ![b[p]] = None]
    /\ pc' = [SleepersWoken(b[p]) EXCEPT ![p] = "drop"]
    /\ UNCHANGED <<buf, lru, idequeue, busy, intr, disk, b, bad, stopped>>

brelse(p) ==
    LET k == b[p] IN
    /\ pc[p] = "drop"
    /\ buf' = [buf EXCEPT ![k].refcnt = @ - 1]
    /\ lru' = IF buf[k].refcnt = 1 THEN ToFront(lru, k) ELSE lru
    /\ b' = [b EXCEPT ![p] = None] /\ Goto(p, "user")
    /\ UNCHANGED <<lock, idequeue, busy, intr, disk, bad, stopped>>

(* A caller changes the data.  log_write pins the buffer with B_DIRTY for  *)
(* a later bwrite by the log; others call bwrite themselves.               *)
Change(p) ==
    \E v \in Values :
      /\ pc[p] = "holds"
      /\ buf' = [buf EXCEPT ![b[p]].data = v, ![b[p]].dirty = TRUE]
      /\ UNCHANGED <<lru, lock, idequeue, busy, intr, disk, pc, b, bad, stopped>>

bwrite(p) ==
    /\ pc[p] = "holds"
    /\ buf' = [buf EXCEPT ![b[p]].dirty = TRUE]
    /\ Goto(p, "iderw")
    /\ UNCHANGED <<lru, lock, idequeue, busy, intr, disk, b, bad, stopped>>

----------------------------------------------------------------------------
(* The driver: one request at a time, in the order they came.              *)

(* idestart: the command, and for a write the data, go to the controller.  *)
Request(bs, k) == [write |-> bs[k].dirty, block |-> bs[k].block,
                   data |-> IF bs[k].dirty THEN bs[k].data ELSE None]

iderw(p) ==
    LET k == b[p] IN
    /\ pc[p] = "iderw"
    /\ idequeue' = Append(idequeue, k)
    /\ busy' = IF idequeue = <<>> THEN Request(buf, k) ELSE busy
    /\ Goto(p, "waits")
    /\ UNCHANGED <<buf, lru, lock, intr, disk, b, bad, stopped>>

(* The controller finishes; only a read can report an error.               *)
DiskDone ==
    /\ busy # Idle /\ intr = "no"
    /\ disk' = IF busy.write THEN [disk EXCEPT ![busy.block] = busy.data] ELSE disk
    /\ \/ intr' = "done"
       \/ Errors /\ ~busy.write /\ intr' = "error"
    /\ UNCHANGED <<buf, lru, lock, idequeue, busy, pc, b, bad, stopped>>

StartNext(q, bs) == IF q = <<>> THEN Idle ELSE Request(bs, Head(q))

(* The first queued buffer is the active request; after a failed read it   *)
(* is marked valid all the same.                                           *)
ideintr ==
    LET k == Head(idequeue)
        read == ~buf[k].dirty /\ intr = "done"
        done == [buf EXCEPT ![k].valid = TRUE, ![k].dirty = FALSE,
                            ![k].data = IF read THEN disk[buf[k].block] ELSE @]
    IN
    /\ intr # "no" /\ idequeue # <<>>
    /\ buf' = done /\ intr' = "no"
    /\ bad' = IF intr = "error" THEN bad \cup {buf[k].block} ELSE bad
    /\ idequeue' = Tail(idequeue)
    /\ busy' = StartNext(Tail(idequeue), done)
    /\ pc' = [q \in Procs |-> IF pc[q] = "waits" /\ b[q] = k THEN "holds" ELSE pc[q]]
    /\ UNCHANGED <<lru, lock, disk, b, stopped>>

Step(p) == acquiresleep(p) \/ releasesleep(p) \/ brelse(p) \/ bwrite(p) \/ iderw(p)
Next == /\ ~stopped
        /\ \/ \E p \in Procs : bget(p) \/ Change(p) \/ Step(p)
           \/ DiskDone \/ ideintr

Spec == Init /\ [][Next]_bvars

----------------------------------------------------------------------------
(* Properties.                                                             *)

TypeOK ==
    /\ buf \in [Buf -> [block : Blocks \cup {None}, valid : BOOLEAN, dirty : BOOLEAN,
                        refcnt : Nat, data : Values \cup {None}]]
    /\ Range(lru) = Buf /\ Len(lru) = NBUF
    /\ lock \in [Buf -> Procs \cup {None}] /\ disk \in [Blocks -> Values \cup {None}]
    /\ b \in [Procs -> Buf \cup {None}] /\ Range(idequeue) \subseteq Buf
    /\ intr \in {"no", "done", "error"} /\ bad \subseteq Blocks

(* A block has one buffer, a buffer as many references as users, and its   *)
(* data in use belongs to the holder of its lock: a buffer is not recycled *)
(* under a process that waits for it.                                      *)
OneBufferPerBlock ==
    /\ \A j, k \in Buf : buf[j].block = buf[k].block /\ buf[j].block # None => j = k
    /\ \A k \in Buf : buf[k].refcnt = Cardinality({p \in Procs : b[p] = k})
    /\ \A p \in Procs : pc[p] \in {"holds", "iderw", "waits"} <=>
                        b[p] # None /\ lock[b[p]] = p
    /\ \A p \in Procs : pc[p] = "holds" => buf[b[p]].valid

(* What the next reader of a block will find.                              *)
Contents(blk) ==
    IF \E k \in CachedBufs(blk) : buf[k].valid
    THEN buf[CHOOSE k \in CachedBufs(blk) : buf[k].valid].data
    ELSE disk[blk]

(* Recycling, reading in and writing back never change what a block holds: *)
(* only a process that holds its buffer does.                              *)
OnlyHoldersChange ==
    \A blk \in Blocks \ bad' :
      Contents(blk)' # Contents(blk) =>
        \E p \in Procs : pc[p] = "holds" /\ buf[b[p]].block = blk
CacheTransparent == [][OnlyHoldersChange]_bvars

(* While requests are queued the controller works on the first one, or its *)
(* interrupt is pending; a process waits only for a queued request or for  *)
(* a lock that is held.                                                    *)
DiskKeepsWorking ==
    /\ idequeue # <<>> => busy = Request(buf, Head(idequeue))
    /\ \A p \in Procs : pc[p] = "waits" => b[p] \in Range(idequeue)
    /\ \A p \in Procs : pc[p] = "asleep" => lock[b[p]] # None
    /\ \A i, j \in DOMAIN idequeue : idequeue[i] = idequeue[j] => i = j
=============================================================================
