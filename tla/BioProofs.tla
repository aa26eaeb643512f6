------------------------------ MODULE BioProofs -----------------------------
(***************************************************************************)
(* Theorems about the buffer cache, its sleep locks and the disk driver,   *)
(* for every number of processes, buffers and blocks, with and without     *)
(* read errors: a block has one buffer, references are exact, the driver   *)
(* never forgets a request, and caching changes no block.                  *)
(***************************************************************************)
EXTENDS Bio, FiniteSetTheorems, SequenceTheorems, WellFoundedInduction, TLAPS

(* The constants as the code has them: None stands for no process, no      *)
(* buffer and no block.                                                    *)
BioConstants ==
    /\ IsFiniteSet(Procs) /\ None \notin Procs
    /\ NBUF \in Nat /\ None \notin Blocks /\ Values # {}

Points == {"user", "lock", "asleep", "holds", "iderw", "waits", "drop"}

(* Where a process has the lock of its buffer.                             *)
Locking == {"holds", "iderw", "waits"}

Places ==
    /\ pc \in [Procs -> Points] /\ lru \in Seq(Buf) /\ idequeue \in Seq(Buf)

(* Each process is where its buffer and its lock say.                      *)
Placed(p) ==
    /\ pc[p] = "user" <=> b[p] = None
    /\ pc[p] \in Locking <=> b[p] # None /\ lock[b[p]] = p
    /\ pc[p] = "holds" => buf[b[p]].valid
    /\ pc[p] \in {"iderw", "waits"} => ~buf[b[p]].valid \/ buf[b[p]].dirty
    /\ pc[p] = "asleep" => lock[b[p]] # None
    /\ pc[p] = "waits" => \E i \in 1..Len(idequeue) : idequeue[i] = b[p]
    /\ b[p] # None => buf[b[p]].block # None
UsersPlaced == \A p \in Procs : Placed(p)

(* A lock belongs to a user of the buffer.                                 *)
LocksOwned == \A k \in Buf : lock[k] # None => b[lock[k]] = k

Users(k) == {p \in Procs : b[p] = k}
RefsExact == \A k \in Buf : buf[k].refcnt = Cardinality(Users(k))

BlocksUnique ==
    \A j, k \in Buf : buf[j].block = buf[k].block /\ buf[j].block # None => j = k

(* A buffer changed since it was read is valid, and a valid one that was   *)
(* not changed agrees with the disk, unless its read failed.               *)
BufsClean ==
    \A k \in Buf :
        /\ buf[k].dirty => buf[k].valid
        /\ buf[k].valid => buf[k].block # None
        /\ buf[k].valid /\ ~buf[k].dirty /\ buf[k].block \notin bad =>
             buf[k].data = disk[buf[k].block]

(* Every queued buffer has a process that waits for it.                    *)
QueueHeld ==
    /\ \A i \in 1..Len(idequeue) : \E p \in Procs : pc[p] = "waits" /\ b[p] = idequeue[i]
    /\ \A i, j \in 1..Len(idequeue) : idequeue[i] = idequeue[j] => i = j

(* The controller works on the first one, and a write that it reports done *)
(* is on the disk.                                                         *)
DriverBusy ==
    /\ idequeue = <<>> => busy = Idle /\ intr = "no"
    /\ idequeue # <<>> => busy = Request(buf, Head(idequeue))
    /\ intr # "no" /\ busy.write => disk[busy.block] = busy.data

BioInv ==
    /\ TypeOK /\ Places /\ UsersPlaced /\ LocksOwned /\ RefsExact /\ BlocksUnique
    /\ BufsClean /\ QueueHeld /\ DriverBusy

----------------------------------------------------------------------------
(* Facts about the parts of the invariant.                                 *)

BufStates ==
    [block : Blocks \cup {None}, valid : BOOLEAN, dirty : BOOLEAN, refcnt : Nat,
     data : Values \cup {None}]

(* The types as the provers use them.                                      *)
LEMMA Types ==
    ASSUME BioInv
    PROVE  /\ buf \in [Buf -> BufStates] /\ pc \in [Procs -> Points]
           /\ lock \in [Buf -> Procs \cup {None}] /\ b \in [Procs -> Buf \cup {None}]
           /\ disk \in [Blocks -> Values \cup {None}]
           /\ lru \in Seq(Buf) /\ Range(lru) = Buf /\ Len(lru) = NBUF
           /\ idequeue \in Seq(Buf) /\ intr \in {"no", "done", "error"} /\ bad \subseteq Blocks
BY DEF BioInv, TypeOK, Places, BufStates

(* None is no buffer.                                                      *)
LEMMA NoneOutside ==
    ASSUME BioConstants
    PROVE  None \notin Buf /\ None \notin Procs /\ None \notin Blocks
BY DEF BioConstants, Buf, None

(* Elements of the driver's queue.                                         *)
LEMMA QueueElement ==
    ASSUME BioInv, NEW i \in 1..Len(idequeue)
    PROVE  idequeue[i] \in Buf
BY Types

(* A queue that is not empty has a first element.                          *)
LEMMA QueueFirst ==
    ASSUME NEW s \in Seq(Buf), s # <<>>
    PROVE  Head(s) = s[1] /\ 1 \in 1..Len(s) /\ Head(s) \in Buf
<1>1. Len(s) \in Nat /\ Len(s) # 0
  BY EmptySeq
<1> QED
  BY <1>1

(* The users of a buffer can be counted.                                   *)
LEMMA UsersFinite ==
    ASSUME BioConstants, NEW k
    PROVE  /\ IsFiniteSet(Users(k)) /\ Cardinality(Users(k)) \in Nat
           /\ Users(k) = {} <=> Cardinality(Users(k)) = 0
<1>1. Users(k) \in SUBSET Procs /\ IsFiniteSet(Procs)
  BY DEF Users, BioConstants
<1>2. IsFiniteSet(Users(k))
  BY <1>1, FS_Subset
<1> QED
  BY <1>2, FS_CardinalityType, FS_EmptySet

(* The process that waits for a queued buffer has its lock.                *)
LEMMA QueuedLocked ==
    ASSUME BioInv, NEW i \in 1..Len(idequeue)
    PROVE  /\ idequeue[i] \in Buf /\ lock[idequeue[i]] \in Procs
           /\ pc[lock[idequeue[i]]] = "waits" /\ b[lock[idequeue[i]]] = idequeue[i]
           /\ buf[idequeue[i]].block # None
<1>1. PICK p \in Procs : pc[p] = "waits" /\ b[p] = idequeue[i]
  BY DEF BioInv, QueueHeld
<1>2. Placed(p)
  BY DEF BioInv, UsersPlaced
<1>3. b[p] # None /\ lock[b[p]] = p /\ buf[b[p]].block # None
  BY <1>1, <1>2 DEF Placed, Locking
<1> QED
  BY <1>1, <1>3, QueueElement

(* What concerns only the contents of buffers and blocks.                  *)
LEMMA ContentsKept ==
    ASSUME BioInv, UNCHANGED <<disk, bad>>,
           \A k \in Buf : /\ buf'[k].block = buf[k].block /\ buf'[k].valid = buf[k].valid
                          /\ buf'[k].dirty = buf[k].dirty /\ buf'[k].data = buf[k].data
    PROVE  BlocksUnique' /\ BufsClean'
<1>1. BlocksUnique'
  BY DEF BioInv, BlocksUnique
<1>2. BufsClean'
  BY DEF BioInv, BufsClean
<1> QED
  BY <1>1, <1>2

(* What concerns only the driver.                                          *)
LEMMA DriverKept ==
    ASSUME BioInv, UNCHANGED <<idequeue, busy, intr, disk>>,
           \A p \in Procs : pc[p] = "waits" => pc'[p] = "waits" /\ b'[p] = b[p],
           \A i \in 1..Len(idequeue) :
                /\ buf'[idequeue[i]].block = buf[idequeue[i]].block
                /\ buf'[idequeue[i]].dirty = buf[idequeue[i]].dirty
                /\ buf'[idequeue[i]].data = buf[idequeue[i]].data
    PROVE  QueueHeld' /\ DriverBusy'
<1>1. QueueHeld'
  BY DEF BioInv, QueueHeld
<1>2. ASSUME idequeue # <<>> PROVE busy' = Request(buf', Head(idequeue'))
  <2>1. Head(idequeue) = idequeue[1] /\ 1 \in 1..Len(idequeue)
    BY <1>2, Types, QueueFirst
  <2>2. busy = Request(buf, Head(idequeue))
    BY <1>2 DEF BioInv, DriverBusy
  <2> QED
    BY <2>1, <2>2 DEF Request
<1>3. DriverBusy'
  BY <1>2 DEF BioInv, DriverBusy
<1> QED
  BY <1>1, <1>3

(* A process is where it was.                                              *)
LEMMA PlacedKept ==
    ASSUME BioInv, NEW q \in Procs, pc'[q] = pc[q], b'[q] = b[q],
           b[q] # None => /\ lock'[b[q]] = lock[b[q]]
                          /\ buf'[b[q]].block = buf[b[q]].block
                          /\ buf'[b[q]].valid = buf[b[q]].valid
                          /\ buf'[b[q]].dirty = buf[b[q]].dirty,
           UNCHANGED idequeue
    PROVE  Placed(q)'
<1>1. Placed(q)
  BY DEF BioInv, UsersPlaced
<1>2. pc[q] \in Locking \cup {"asleep"} => b[q] # None
  BY <1>1 DEF Placed, Locking
<1> QED
  BY <1>1, <1>2 DEF Placed, Locking

----------------------------------------------------------------------------
(* The sleep locks.                                                        *)

(* The lock is taken, or its taker sleeps while somebody has it.           *)
LEMMA AcquireKeeps ==
    ASSUME BioConstants, BioInv, NEW p \in Procs, acquiresleep(p)
    PROVE  BioInv'
<1>1. /\ pc[p] = "lock" /\ UNCHANGED <<buf, lru, idequeue, busy, intr, disk, b, bad, stopped>>
      /\ \/ /\ lock[b[p]] # None /\ pc' = [pc EXCEPT ![p] = "asleep"] /\ lock' = lock
         \/ /\ lock[b[p]] = None /\ lock' = [lock EXCEPT ![b[p]] = p]
            /\ pc' = [pc EXCEPT ![p] = IF buf[b[p]].valid THEN "holds" ELSE "iderw"]
  BY DEF acquiresleep, Goto
<1>2. \A q \in Procs : Placed(q)
  BY DEF BioInv, UsersPlaced
<1>3. PICK k \in Buf : k = b[p] /\ lock[k] # p /\ buf[k].block # None
  BY <1>1, <1>2, Types, NoneOutside DEF Placed, Locking
<1>4. /\ pc' \in [Procs -> Points] /\ lock' \in [Buf -> Procs \cup {None}]
      /\ \A q \in Procs : q # p => pc'[q] = pc[q]
      /\ \A j \in Buf : j # k => lock'[j] = lock[j]
      /\ pc'[p] # "waits"
  BY <1>1, <1>3, Types DEF Points
<1>5. TypeOK' /\ Places'
  BY <1>1, <1>4 DEF BioInv, TypeOK, Places
<1>6. LocksOwned'
  BY <1>1, <1>3, Types DEF BioInv, LocksOwned
<1>7. RefsExact'
  BY <1>1 DEF BioInv, RefsExact, Users
<1>8. BlocksUnique' /\ BufsClean'
  BY <1>1, ContentsKept
<1>9. QueueHeld' /\ DriverBusy'
  <2>1. \A q \in Procs : pc[q] = "waits" => pc'[q] = "waits" /\ b'[q] = b[q]
    BY <1>1, <1>4
  <2> QED
    BY <1>1, <2>1, DriverKept
<1>10. ASSUME NEW q \in Procs, q # p PROVE Placed(q)'
  <2>1. Placed(q) /\ pc'[q] = pc[q] /\ b'[q] = b[q] /\ buf' = buf /\ idequeue' = idequeue
    BY <1>1, <1>2, <1>4, <1>10
  <2>2. CASE b[q] # k
    <3>1. b[q] # None => lock'[b[q]] = lock[b[q]]
      BY <1>4, <2>2, Types
    <3> QED
      BY <2>1, <3>1, PlacedKept
  <2>3. CASE b[q] = k
    <3>1. CASE lock' = lock
      BY <2>1, <3>1, PlacedKept
    <3>2. CASE lock[k] = None /\ lock'[k] = p
      <4>1. pc[q] \notin Locking /\ pc[q] # "asleep" /\ pc[q] # "user"
        BY <2>1, <2>3, <3>2, NoneOutside DEF Placed
      <4> QED
        BY <1>10, <2>1, <2>3, <3>2, <4>1 DEF Placed, Locking
    <3> QED
      BY <1>1, <1>3, <3>1, <3>2, Types
  <2> QED
    BY <2>2, <2>3
<1>11. Placed(p)'
  <2>1. b'[p] = k /\ k # None /\ buf' = buf /\ buf[k].block # None
    BY <1>1, <1>3, NoneOutside
  <2>2. CASE lock[k] # None /\ pc'[p] = "asleep" /\ lock' = lock
    BY <1>3, <2>1, <2>2 DEF Placed, Locking
  <2>3. CASE lock'[k] = p /\ pc'[p] = IF buf[k].valid THEN "holds" ELSE "iderw"
    BY <2>1, <2>3 DEF Placed, Locking
  <2> QED
    BY <1>1, <1>3, <2>2, <2>3, Types
<1>12. UsersPlaced'
  BY <1>10, <1>11 DEF UsersPlaced
<1> QED
  BY <1>5, <1>6, <1>7, <1>8, <1>9, <1>12 DEF BioInv

(* The lock is given up and everyone who sleeps on it is woken.            *)
LEMMA ReleaseKeeps ==
    ASSUME BioConstants, BioInv, NEW p \in Procs, releasesleep(p)
    PROVE  BioInv'
<1>1. /\ pc[p] = "holds" /\ lock' = [lock EXCEPT ![b[p]] = None]
      /\ pc' = [SleepersWoken(b[p]) EXCEPT ![p] = "drop"]
      /\ UNCHANGED <<buf, lru, idequeue, busy, intr, disk, b, bad, stopped>>
  BY DEF releasesleep
<1>2. \A q \in Procs : Placed(q)
  BY DEF BioInv, UsersPlaced
<1>3. PICK k \in Buf : k = b[p] /\ lock[k] = p /\ buf[k].block # None
  BY <1>1, <1>2, Types, NoneOutside DEF Placed, Locking
<1>4. /\ pc' \in [Procs -> Points] /\ pc'[p] = "drop"
      /\ \A q \in Procs : q # p =>
           pc'[q] = IF pc[q] = "asleep" /\ b[q] = k THEN "lock" ELSE pc[q]
  BY <1>1, <1>3, Types DEF Points, SleepersWoken
<1>5. /\ lock' \in [Buf -> Procs \cup {None}] /\ lock'[k] = None
      /\ \A j \in Buf : j # k => lock'[j] = lock[j]
  BY <1>1, <1>3, Types
<1>6. TypeOK' /\ Places'
  BY <1>1, <1>4, <1>5 DEF BioInv, TypeOK, Places
<1>7. LocksOwned'
  BY <1>1, <1>5 DEF BioInv, LocksOwned
<1>8. RefsExact'
  BY <1>1 DEF BioInv, RefsExact, Users
<1>9. BlocksUnique' /\ BufsClean'
  BY <1>1, ContentsKept
<1>10. QueueHeld' /\ DriverBusy'
  <2>1. \A q \in Procs : pc[q] = "waits" => pc'[q] = "waits" /\ b'[q] = b[q]
    BY <1>1, <1>4
  <2> QED
    BY <1>1, <2>1, DriverKept
<1>11. ASSUME NEW q \in Procs, q # p PROVE Placed(q)'
  <2>1. Placed(q) /\ b'[q] = b[q] /\ buf' = buf /\ idequeue' = idequeue
    BY <1>1, <1>2
  <2>2. CASE b[q] # k
    <3>1. (b[q] # None => lock'[b[q]] = lock[b[q]]) /\ pc'[q] = pc[q]
      BY <1>4, <1>5, <1>11, <2>2, Types
    <3> QED
      BY <2>1, <3>1, PlacedKept
  <2>3. CASE b[q] = k
    <3>1. pc[q] \notin Locking /\ pc[q] # "user" /\ pc'[q] \in {"lock", "drop"}
      <4>1. pc[q] \notin Locking /\ pc[q] # "user"
        BY <1>3, <1>11, <2>1, <2>3, NoneOutside DEF Placed
      <4> QED
        BY <1>4, <1>11, <2>3, <4>1, Types DEF Points, Locking
    <3>2. k # None /\ lock'[k] # q
      BY <1>5, NoneOutside
    <3> QED
      BY <2>1, <2>3, <3>1, <3>2 DEF Placed, Locking
  <2> QED
    BY <2>2, <2>3
<1>12. Placed(p)'
  <2>1. b'[p] = k /\ k # None /\ lock'[k] # p /\ buf' = buf
    BY <1>1, <1>3, <1>5, NoneOutside
  <2> QED
    BY <1>3, <1>4, <2>1 DEF Placed, Locking
<1>13. UsersPlaced'
  BY <1>11, <1>12 DEF UsersPlaced
<1> QED
  BY <1>6, <1>7, <1>8, <1>9, <1>10, <1>13 DEF BioInv

----------------------------------------------------------------------------
(* Holders of a lock.                                                      *)

(* A holder changes its buffer, which is valid and not queued.             *)
LEMMA HolderKeeps ==
    ASSUME BioConstants, BioInv, NEW p \in Procs, pc[p] = "holds",
           NEW k, k = b[p], NEW r \in BufStates, buf' = [buf EXCEPT ![k] = r],
           r.block = buf[k].block, r.valid = buf[k].valid, r.refcnt = buf[k].refcnt,
           r.dirty,
           NEW point \in {"holds", "iderw"}, pc' = [pc EXCEPT ![p] = point],
           UNCHANGED <<lru, lock, idequeue, busy, intr, disk, b, bad, stopped>>
    PROVE  BioInv'
<1>1. \A q \in Procs : Placed(q)
  BY DEF BioInv, UsersPlaced
<1>2. k \in Buf /\ lock[k] = p /\ buf[k].block # None /\ buf[k].valid
  BY <1>1, Types DEF Placed, Locking
<1>3. /\ buf' \in [Buf -> BufStates] /\ buf'[k] = r
      /\ \A j \in Buf : j # k => buf'[j] = buf[j]
  BY <1>2, Types
<1>4. /\ pc' \in [Procs -> Points] /\ pc'[p] = point
      /\ \A q \in Procs : q # p => pc'[q] = pc[q]
  BY Types DEF Points
<1>5. TypeOK' /\ Places'
  BY <1>3, <1>4 DEF BioInv, TypeOK, Places, BufStates
<1>6. LocksOwned'
  BY DEF BioInv, LocksOwned
<1>7. RefsExact'
  <2>1. \A j \in Buf : buf'[j].refcnt = buf[j].refcnt /\ \A i : i = j => Users(i)' = Users(i)
    BY <1>3 DEF Users
  <2> QED
    BY <2>1 DEF BioInv, RefsExact
<1>8. BlocksUnique'
  <2>1. \A j \in Buf : buf'[j].block = buf[j].block
    BY <1>3
  <2> QED
    BY <2>1 DEF BioInv, BlocksUnique
<1>9. BufsClean'
  <2> SUFFICES ASSUME NEW j \in Buf
               PROVE  /\ buf'[j].dirty => buf'[j].valid
                      /\ buf'[j].valid => buf'[j].block # None
                      /\ buf'[j].valid /\ ~buf'[j].dirty /\ buf'[j].block \notin bad =>
                           buf'[j].data = disk[buf'[j].block]
    BY DEF BufsClean
  <2>1. CASE j = k
    BY <1>2, <1>3, <2>1
  <2>2. CASE j # k
    BY <1>3, <2>2 DEF BioInv, BufsClean
  <2> QED
    BY <2>1, <2>2
<1>10. QueueHeld' /\ DriverBusy'
  <2>1. \A q \in Procs : pc[q] = "waits" => pc'[q] = "waits" /\ b'[q] = b[q]
    BY <1>4
  <2>2. ASSUME NEW i \in 1..Len(idequeue) PROVE buf'[idequeue[i]] = buf[idequeue[i]]
    <3>1. idequeue[i] \in Buf /\ pc[lock[idequeue[i]]] = "waits"
      BY QueuedLocked
    <3>2. idequeue[i] # k
      BY <1>2, <3>1
    <3> QED
      BY <1>3, <3>1, <3>2
  <2> QED
    BY <2>1, <2>2, DriverKept
<1>11. ASSUME NEW q \in Procs, q # p PROVE Placed(q)'
  <2>1. Placed(q) /\ pc'[q] = pc[q] /\ b'[q] = b[q] /\ lock' = lock /\ idequeue' = idequeue
    BY <1>1, <1>4, <1>11
  <2>2. CASE b[q] = k
    <3>1. pc[q] \notin Locking
      BY <1>2, <1>11, <2>1, <2>2 DEF Placed
    <3> QED
      BY <1>2, <1>3, <2>1, <2>2, <3>1 DEF Placed, Locking
  <2>3. CASE b[q] # k
    <3>1. b[q] # None => buf'[b[q]] = buf[b[q]]
      BY <1>3, <2>3, Types
    <3> QED
      BY <2>1, <3>1, PlacedKept
  <2> QED
    BY <2>2, <2>3
<1>12. Placed(p)'
  <2>1. b'[p] = k /\ k # None /\ lock'[k] = p /\ buf'[k] = r
    BY <1>2, <1>3, NoneOutside
  <2>2. buf'[k].valid /\ buf'[k].dirty /\ buf'[k].block # None
    BY <1>2, <2>1
  <2>3. pc'[p] = "holds" \/ pc'[p] = "iderw"
    BY <1>4
  <2> QED
    BY <2>1, <2>2, <2>3 DEF Placed, Locking
<1>13. UsersPlaced'
  BY <1>11, <1>12 DEF UsersPlaced
<1> QED
  BY <1>5, <1>6, <1>7, <1>8, <1>9, <1>10, <1>13 DEF BioInv

(* log_write and the others that change a buffer.                          *)
LEMMA ChangeKeeps ==
    ASSUME BioConstants, BioInv, NEW p \in Procs, Change(p)
    PROVE  BioInv'
<1>1. PICK v \in Values :
        /\ pc[p] = "holds"
        /\ buf' = [buf EXCEPT ![b[p]].data = v, ![b[p]].dirty = TRUE]
        /\ UNCHANGED <<lru, lock, idequeue, busy, intr, disk, pc, b, bad, stopped>>
  BY DEF Change
<1>2. PICK k \in Buf : k = b[p]
  <2>1. Placed(p)
    BY DEF BioInv, UsersPlaced
  <2> QED
    BY <1>1, <2>1, Types DEF Placed, Locking
<1>3. PICK r : r = [buf[k] EXCEPT !.data = v, !.dirty = TRUE]
  OBVIOUS
<1>4. buf[k] \in BufStates
  BY Types
<1>5. /\ r \in BufStates /\ r.block = buf[k].block /\ r.valid = buf[k].valid
      /\ r.refcnt = buf[k].refcnt /\ r.dirty
  BY <1>3, <1>4 DEF BufStates
<1>6. buf' = [buf EXCEPT ![k] = r]
  BY <1>1, <1>2, <1>3, Types
<1>7. pc' = [pc EXCEPT ![p] = "holds"]
  BY <1>1, Types
<1>8. UNCHANGED <<lru, lock, idequeue, busy, intr, disk, b, bad, stopped>>
  BY <1>1
<1> QED
  <2>1. "holds" \in {"holds", "iderw"} /\ pc[p] = "holds"
    BY <1>1
  <2> QED
    BY <1>2, <1>5, <1>6, <1>7, <1>8, <2>1, HolderKeeps

(* bwrite marks the buffer for the driver.                                 *)
LEMMA BwriteKeeps ==
    ASSUME BioConstants, BioInv, NEW p \in Procs, bwrite(p)
    PROVE  BioInv'
<1>1. /\ pc[p] = "holds" /\ buf' = [buf EXCEPT ![b[p]].dirty = TRUE]
      /\ pc' = [pc EXCEPT ![p] = "iderw"]
      /\ UNCHANGED <<lru, lock, idequeue, busy, intr, disk, b, bad, stopped>>
  BY DEF bwrite, Goto
<1>2. PICK k \in Buf : k = b[p]
  <2>1. Placed(p)
    BY DEF BioInv, UsersPlaced
  <2> QED
    BY <1>1, <2>1, Types DEF Placed, Locking
<1>3. PICK r : r = [buf[k] EXCEPT !.dirty = TRUE]
  OBVIOUS
<1>4. buf[k] \in BufStates
  BY Types
<1>5. /\ r \in BufStates /\ r.block = buf[k].block /\ r.valid = buf[k].valid
      /\ r.refcnt = buf[k].refcnt /\ r.dirty
  BY <1>3, <1>4 DEF BufStates
<1>6. buf' = [buf EXCEPT ![k] = r]
  BY <1>1, <1>2, <1>3, Types
<1> QED
  BY <1>1, <1>2, <1>5, <1>6, HolderKeeps

----------------------------------------------------------------------------
(* The driver and the disk.                                                *)

(* iderw appends the buffer and starts the disk if it does nothing.        *)
LEMMA IderwKeeps ==
    ASSUME BioConstants, BioInv, NEW p \in Procs, iderw(p)
    PROVE  BioInv'
<1>1. /\ pc[p] = "iderw" /\ idequeue' = Append(idequeue, b[p])
      /\ busy' = (IF idequeue = <<>> THEN Request(buf, b[p]) ELSE busy)
      /\ pc' = [pc EXCEPT ![p] = "waits"]
      /\ UNCHANGED <<buf, lru, lock, intr, disk, b, bad, stopped>>
  BY DEF iderw, Goto
<1>2. \A q \in Procs : Placed(q)
  BY DEF BioInv, UsersPlaced
<1>3. PICK k \in Buf : /\ k = b[p] /\ lock[k] = p /\ buf[k].block # None
                       /\ (~buf[k].valid \/ buf[k].dirty)
  BY <1>1, <1>2, Types, NoneOutside DEF Placed, Locking
<1>4. PICK n \in Nat : n = Len(idequeue)
  BY Types
<1>5. /\ idequeue' \in Seq(Buf) /\ Len(idequeue') = n + 1 /\ idequeue'[n + 1] = k
      /\ \A i \in 1..n : idequeue'[i] = idequeue[i]
  BY <1>1, <1>3, <1>4, Types
<1>6. /\ pc' \in [Procs -> Points] /\ pc'[p] = "waits"
      /\ \A q \in Procs : q # p => pc'[q] = pc[q]
  BY <1>1, Types DEF Points
<1>7. TypeOK' /\ Places'
  <2>1. Range(idequeue') \subseteq Buf
    BY <1>5 DEF Range
  <2> QED
    BY <1>1, <1>5, <1>6, <2>1 DEF BioInv, TypeOK, Places
<1>8. LocksOwned' /\ RefsExact'
  BY <1>1 DEF BioInv, LocksOwned, RefsExact, Users
<1>9. BlocksUnique' /\ BufsClean'
  BY <1>1, ContentsKept
<1>10. \A i \in 1..n : idequeue[i] # k
  <2> SUFFICES ASSUME NEW i \in 1..n, idequeue[i] = k PROVE FALSE
    OBVIOUS
  <2>1. pc[lock[idequeue[i]]] = "waits"
    BY <1>4, QueuedLocked
  <2> QED
    BY <1>1, <1>3, <2>1
<1>11. QueueHeld'
  <2>1. ASSUME NEW i \in 1..(n + 1)
        PROVE  \E q \in Procs : pc'[q] = "waits" /\ b'[q] = idequeue'[i]
    <3>1. CASE i = n + 1
      BY <1>1, <1>3, <1>5, <1>6, <3>1
    <3>2. CASE i \in 1..n
      <4>1. PICK q \in Procs : pc[q] = "waits" /\ b[q] = idequeue[i]
        BY <1>4, <3>2 DEF BioInv, QueueHeld
      <4> QED
        BY <1>1, <1>5, <1>6, <3>2, <4>1
    <3> QED
      BY <1>4, <3>1, <3>2
  <2>2. ASSUME NEW i \in 1..(n + 1), NEW j \in 1..(n + 1), idequeue'[i] = idequeue'[j]
        PROVE  i = j
    <3>1. CASE i \in 1..n /\ j \in 1..n
      <4>1. idequeue[i] = idequeue[j]
        BY <1>5, <2>2, <3>1
      <4> QED
        BY <1>4, <3>1, <4>1 DEF BioInv, QueueHeld
    <3>2. CASE i = n + 1 /\ j \in 1..n
      BY <1>5, <1>10, <2>2, <3>2
    <3>3. CASE i \in 1..n /\ j = n + 1
      BY <1>5, <1>10, <2>2, <3>3
    <3> QED
      BY <1>4, <3>1, <3>2, <3>3
  <2> QED
    BY <1>5, <2>1, <2>2 DEF QueueHeld
<1>12. DriverBusy'
  <2>1. idequeue' # <<>>
    BY <1>4, <1>5
  <2>2. Head(idequeue') = idequeue'[1]
    BY <1>5, <2>1, QueueFirst
  <2>3. CASE idequeue = <<>>
    <3>1. n = 0 /\ intr' = "no"
      BY <1>1, <1>4, <2>3 DEF BioInv, DriverBusy
    <3>2. busy' = Request(buf', Head(idequeue'))
      BY <1>1, <1>3, <1>5, <2>2, <2>3, <3>1
    <3> QED
      BY <2>1, <3>1, <3>2 DEF DriverBusy
  <2>4. CASE idequeue # <<>>
    <3>1. Head(idequeue) = idequeue[1] /\ 1 \in 1..n
      BY <1>4, <2>4, Types, QueueFirst
    <3>2. busy' = busy /\ busy = Request(buf, Head(idequeue))
      BY <1>1, <2>4 DEF BioInv, DriverBusy
    <3>3. busy' = Request(buf', Head(idequeue'))
      BY <1>1, <1>5, <2>2, <3>1, <3>2
    <3> QED
      BY <1>1, <2>1, <3>2, <3>3 DEF BioInv, DriverBusy
  <2> QED
    BY <2>3, <2>4
<1>13. ASSUME NEW q \in Procs, q # p PROVE Placed(q)'
  <2>1. Placed(q) /\ pc'[q] = pc[q] /\ b' = b /\ lock' = lock /\ buf' = buf
    BY <1>1, <1>2, <1>6, <1>13
  <2>2. pc[q] = "waits" => \E i \in 1..Len(idequeue') : idequeue'[i] = b[q]
    <3>1. pc[q] = "waits" => \E i \in 1..n : idequeue[i] = b[q]
      BY <1>4, <2>1 DEF Placed
    <3> QED
      BY <1>4, <1>5, <3>1
  <2> QED
    BY <2>1, <2>2 DEF Placed
<1>14. Placed(p)'
  <2>1. /\ b'[p] = k /\ k # None /\ lock'[k] = p /\ buf' = buf
    BY <1>1, <1>3, NoneOutside
  <2>2. \E i \in 1..Len(idequeue') : idequeue'[i] = k
    BY <1>4, <1>5
  <2> QED
    BY <1>3, <1>6, <2>1, <2>2 DEF Placed, Locking
<1>15. UsersPlaced'
  BY <1>13, <1>14 DEF UsersPlaced
<1> QED
  BY <1>7, <1>8, <1>9, <1>11, <1>12, <1>15 DEF BioInv

(* The request the controller works on.                                    *)
LEMMA BusyFacts ==
    ASSUME BioConstants, BioInv, idequeue # <<>>, NEW k, k = Head(idequeue)
    PROVE  /\ k \in Buf /\ k = idequeue[1] /\ 1 \in 1..Len(idequeue)
           /\ busy.write = buf[k].dirty /\ busy.block = buf[k].block
           /\ buf[k].block \in Blocks /\ (~buf[k].valid \/ buf[k].dirty)
           /\ buf[k].dirty => busy.data = buf[k].data
           /\ lock[k] \in Procs /\ pc[lock[k]] = "waits" /\ b[lock[k]] = k
<1>1. k = idequeue[1] /\ 1 \in 1..Len(idequeue)
  BY Types, QueueFirst
<1>2. /\ k \in Buf /\ lock[k] \in Procs /\ pc[lock[k]] = "waits" /\ b[lock[k]] = k
      /\ buf[k].block # None
  BY <1>1, QueuedLocked
<1>3. busy = Request(buf, k)
  BY DEF BioInv, DriverBusy
<1>4. busy.write = buf[k].dirty /\ busy.block = buf[k].block
      /\ (buf[k].dirty => busy.data = buf[k].data)
  BY <1>3 DEF Request
<1>5. Placed(lock[k])
  BY <1>2 DEF BioInv, UsersPlaced
<1>6. ~buf[k].valid \/ buf[k].dirty
  BY <1>2, <1>5 DEF Placed
<1>7. buf[k].block \in Blocks
  BY <1>2, Types DEF BufStates
<1> QED
  BY <1>1, <1>2, <1>4, <1>6, <1>7

(* What the disk did.                                                      *)
LEMMA DoneFacts ==
    ASSUME BioConstants, BioInv, DiskDone
    PROVE  /\ idequeue # <<>> /\ intr = "no" /\ intr' \in {"done", "error"}
           /\ disk' \in [Blocks -> Values \cup {None}]
           /\ busy.write => disk'[busy.block] = busy.data
           /\ \A x \in Blocks : ~(busy.write /\ x = busy.block) => disk'[x] = disk[x]
           /\ UNCHANGED <<buf, lru, lock, idequeue, busy, pc, b, bad, stopped>>
<1>1. /\ busy # Idle /\ intr = "no" /\ intr' \in {"done", "error"}
      /\ disk' = (IF busy.write THEN [disk EXCEPT ![busy.block] = busy.data] ELSE disk)
      /\ UNCHANGED <<buf, lru, lock, idequeue, busy, pc, b, bad, stopped>>
  BY DEF DiskDone
<1>2. idequeue # <<>>
  BY <1>1 DEF BioInv, DriverBusy
<1>3. PICK k : k = Head(idequeue)
  OBVIOUS
<1>4. /\ k \in Buf /\ busy.write = buf[k].dirty /\ busy.block = buf[k].block
      /\ buf[k].block \in Blocks /\ (buf[k].dirty => busy.data = buf[k].data)
  BY <1>2, <1>3, BusyFacts
<1>5. buf[k].data \in Values \cup {None} /\ disk \in [Blocks -> Values \cup {None}]
  BY <1>4, Types DEF BufStates
<1>6. CASE busy.write
  <2>1. /\ busy.data \in Values \cup {None} /\ busy.block \in Blocks
        /\ disk' = [disk EXCEPT ![busy.block] = busy.data]
    BY <1>1, <1>4, <1>5, <1>6
  <2> QED
    BY <1>1, <1>2, <1>5, <1>6, <2>1
<1>7. CASE ~busy.write
  BY <1>1, <1>2, <1>5, <1>7
<1> QED
  BY <1>6, <1>7

(* The disk ends a request.                                                *)
LEMMA DoneKeeps ==
    ASSUME BioConstants, BioInv, DiskDone
    PROVE  BioInv'
<1>1. /\ idequeue # <<>> /\ intr = "no" /\ intr' \in {"done", "error"}
      /\ disk' \in [Blocks -> Values \cup {None}]
      /\ busy.write => disk'[busy.block] = busy.data
      /\ \A x \in Blocks : ~(busy.write /\ x = busy.block) => disk'[x] = disk[x]
      /\ UNCHANGED <<buf, lru, lock, idequeue, busy, pc, b, bad, stopped>>
  BY DoneFacts
<1>2. TypeOK' /\ Places'
  BY <1>1 DEF BioInv, TypeOK, Places
<1>3. UsersPlaced' /\ LocksOwned'
  BY <1>1 DEF BioInv, UsersPlaced, Placed, LocksOwned
<1>4. RefsExact' /\ BlocksUnique'
  BY <1>1 DEF BioInv, RefsExact, Users, BlocksUnique
<1>5. PICK k : k = Head(idequeue)
  OBVIOUS
<1>6. /\ k \in Buf /\ busy.write = buf[k].dirty /\ busy.block = buf[k].block
      /\ buf[k].block \in Blocks
  BY <1>1, <1>5, BusyFacts
<1>7. BufsClean'
  <2> SUFFICES ASSUME NEW j \in Buf
               PROVE  /\ buf[j].dirty => buf[j].valid
                      /\ buf[j].valid => buf[j].block # None
                      /\ buf[j].valid /\ ~buf[j].dirty /\ buf[j].block \notin bad =>
                           buf[j].data = disk'[buf[j].block]
    BY <1>1 DEF BufsClean
  <2>1. /\ buf[j].dirty => buf[j].valid
        /\ buf[j].valid => buf[j].block # None
        /\ buf[j].valid /\ ~buf[j].dirty /\ buf[j].block \notin bad =>
             buf[j].data = disk[buf[j].block]
    BY DEF BioInv, BufsClean
  <2>2. ASSUME buf[j].valid, ~buf[j].dirty PROVE disk'[buf[j].block] = disk[buf[j].block]
    <3>1. buf[j].block \in Blocks /\ buf[j].block # None
      BY <2>1, <2>2, Types DEF BufStates
    <3>2. ~(busy.write /\ buf[j].block = busy.block)
      BY <1>6, <2>2, <3>1 DEF BioInv, BlocksUnique
    <3> QED
      BY <1>1, <3>1, <3>2
  <2> QED
    BY <2>1, <2>2
<1>8. QueueHeld'
  BY <1>1 DEF BioInv, QueueHeld
<1>9. DriverBusy'
  BY <1>1 DEF BioInv, DriverBusy
<1> QED
  BY <1>2, <1>3, <1>4, <1>7, <1>8, <1>9 DEF BioInv

(* What the interrupt handler does to the first queued buffer.             *)
LEMMA InterruptFacts ==
    ASSUME BioConstants, BioInv, ideintr, NEW k, k = Head(idequeue)
    PROVE  /\ idequeue # <<>> /\ intr # "no" /\ intr' = "no" /\ k \in Buf
           /\ buf' \in [Buf -> BufStates] /\ \A j \in Buf : j # k => buf'[j] = buf[j]
           /\ buf'[k].block = buf[k].block /\ buf'[k].refcnt = buf[k].refcnt
           /\ buf'[k].valid /\ ~buf'[k].dirty
           /\ ~buf[k].dirty /\ intr = "done" => buf'[k].data = disk[buf[k].block]
           /\ buf[k].dirty => buf'[k].data = buf[k].data
           /\ bad' = (IF intr = "error" THEN bad \cup {buf[k].block} ELSE bad)
           /\ idequeue' = Tail(idequeue) /\ busy' = StartNext(Tail(idequeue), buf')
           /\ pc' = [q \in Procs |-> IF pc[q] = "waits" /\ b[q] = k THEN "holds" ELSE pc[q]]
           /\ UNCHANGED <<lru, lock, disk, b, stopped>>
<1>1. PICK read \in BOOLEAN : read <=> ~buf[k].dirty /\ intr = "done"
  OBVIOUS
<1>2. PICK r : r = [buf[k] EXCEPT !.valid = TRUE, !.dirty = FALSE,
                      !.data = IF read THEN disk[buf[k].block] ELSE buf[k].data]
  OBVIOUS
<1>3. idequeue # <<>> /\ intr # "no"
  BY DEF ideintr
<1>4. k \in Buf /\ buf[k].block \in Blocks
  BY <1>3, BusyFacts
<1>5. buf[k] \in BufStates /\ disk[buf[k].block] \in Values \cup {None}
  BY <1>4, Types
<1>6. PICK v \in Values \cup {None} : v = IF read THEN disk[buf[k].block] ELSE buf[k].data
  BY <1>5 DEF BufStates
<1>7. r = [buf[k] EXCEPT !.valid = TRUE, !.dirty = FALSE, !.data = v]
  BY <1>2, <1>6
<1>8. /\ r \in BufStates /\ r.block = buf[k].block /\ r.refcnt = buf[k].refcnt
      /\ r.valid /\ ~r.dirty /\ r.data = v
  BY <1>5, <1>7 DEF BufStates
<1>9. buf' = [buf EXCEPT ![k] = r]
  <2>1. buf' = [buf EXCEPT ![k].valid = TRUE, ![k].dirty = FALSE,
                  ![k].data = IF ~buf[k].dirty /\ intr = "done" THEN disk[buf[k].block] ELSE @]
    BY DEF ideintr
  <2>2. [buf EXCEPT ![k].valid = TRUE, ![k].dirty = FALSE,
            ![k].data = IF ~buf[k].dirty /\ intr = "done" THEN disk[buf[k].block] ELSE @]
        = [buf EXCEPT ![k] = r]
    BY <1>1, <1>4, <1>5, <1>6, <1>7, Types DEF BufStates
  <2> QED
    BY <2>1, <2>2
<1>10. /\ buf' \in [Buf -> BufStates] /\ buf'[k] = r
       /\ \A j \in Buf : j # k => buf'[j] = buf[j]
  BY <1>4, <1>8, <1>9, Types
<1>11. busy' = StartNext(Tail(idequeue), buf')
  BY DEF ideintr
<1>12. /\ intr' = "no" /\ idequeue' = Tail(idequeue)
       /\ bad' = (IF intr = "error" THEN bad \cup {buf[k].block} ELSE bad)
       /\ pc' = [q \in Procs |-> IF pc[q] = "waits" /\ b[q] = k THEN "holds" ELSE pc[q]]
       /\ UNCHANGED <<lru, lock, disk, b, stopped>>
  BY DEF ideintr
<1>13. /\ ~buf[k].dirty /\ intr = "done" => r.data = disk[buf[k].block]
       /\ buf[k].dirty => r.data = buf[k].data
  BY <1>1, <1>6, <1>8
<1> QED
  BY <1>3, <1>4, <1>8, <1>10, <1>11, <1>12, <1>13

(* The interrupt handler ends the first request and starts the next.       *)
LEMMA InterruptKeeps ==
    ASSUME BioConstants, BioInv, ideintr
    PROVE  BioInv'
<1>1. PICK k : k = Head(idequeue)
  OBVIOUS
<1>2. /\ idequeue # <<>> /\ intr # "no" /\ intr' = "no" /\ k \in Buf
      /\ buf' \in [Buf -> BufStates] /\ \A j \in Buf : j # k => buf'[j] = buf[j]
      /\ buf'[k].block = buf[k].block /\ buf'[k].refcnt = buf[k].refcnt
      /\ buf'[k].valid /\ ~buf'[k].dirty
      /\ UNCHANGED <<lru, lock, disk, b, stopped>>
  BY <1>1, InterruptFacts
<1>3. /\ ~buf[k].dirty /\ intr = "done" => buf'[k].data = disk[buf[k].block]
      /\ buf[k].dirty => buf'[k].data = buf[k].data
      /\ bad' = (IF intr = "error" THEN bad \cup {buf[k].block} ELSE bad)
  BY <1>1, InterruptFacts
<1>4. /\ idequeue' = Tail(idequeue) /\ busy' = StartNext(Tail(idequeue), buf')
      /\ pc' = [q \in Procs |-> IF pc[q] = "waits" /\ b[q] = k THEN "holds" ELSE pc[q]]
  BY <1>1, InterruptFacts
<1>5. /\ k = idequeue[1] /\ 1 \in 1..Len(idequeue)
      /\ busy.write = buf[k].dirty /\ busy.block = buf[k].block
      /\ buf[k].block \in Blocks
      /\ buf[k].dirty => busy.data = buf[k].data
      /\ lock[k] \in Procs /\ pc[lock[k]] = "waits" /\ b[lock[k]] = k
  BY <1>1, <1>2, BusyFacts
<1>6. PICK n \in Nat : n + 1 = Len(idequeue)
  <2>1. Len(idequeue) \in Nat \ {0}
    BY <1>5, Types
  <2>2. Len(idequeue) - 1 \in Nat /\ (Len(idequeue) - 1) + 1 = Len(idequeue)
    BY <2>1
  <2> QED
    BY <2>2
<1>7. /\ idequeue' \in Seq(Buf) /\ Len(idequeue') = n
      /\ \A i \in 1..n : idequeue'[i] = idequeue[i + 1]
  BY <1>2, <1>4, <1>6, Types
<1>8. pc' \in [Procs -> Points]
      /\ \A q \in Procs : pc'[q] = IF pc[q] = "waits" /\ b[q] = k THEN "holds" ELSE pc[q]
  BY <1>4, Types DEF Points
<1>9. TypeOK' /\ Places'
  <2>1. Range(idequeue') \subseteq Buf
    BY <1>7 DEF Range
  <2>2. bad' \subseteq Blocks
    BY <1>3, <1>5, Types
  <2> QED
    BY <1>2, <1>7, <1>8, <2>1, <2>2 DEF BioInv, TypeOK, Places, BufStates
<1>10. LocksOwned'
  BY <1>2 DEF BioInv, LocksOwned
<1>11. RefsExact' /\ BlocksUnique'
  <2>1. \A j \in Buf : buf'[j].refcnt = buf[j].refcnt /\ buf'[j].block = buf[j].block
    BY <1>2
  <2>2. \A i : Users(i)' = Users(i)
    BY <1>2 DEF Users
  <2>3. RefsExact'
    BY <2>1, <2>2 DEF BioInv, RefsExact
  <2>4. BlocksUnique'
    BY <2>1 DEF BioInv, BlocksUnique
  <2> QED
    BY <2>3, <2>4
<1>12. BufsClean'
  <2> SUFFICES ASSUME NEW j \in Buf
               PROVE  /\ buf'[j].dirty => buf'[j].valid
                      /\ buf'[j].valid => buf'[j].block # None
                      /\ buf'[j].valid /\ ~buf'[j].dirty /\ buf'[j].block \notin bad' =>
                           buf'[j].data = disk[buf'[j].block]
    BY <1>2 DEF BufsClean
  <2>1. CASE j # k
    BY <1>2, <1>3, <2>1 DEF BioInv, BufsClean
  <2>2. CASE j = k
    <3>1. buf[k].dirty => disk[buf[k].block] = buf[k].data
      BY <1>2, <1>5 DEF BioInv, DriverBusy
    <3>2. intr \in {"done", "error"}
      BY <1>2, Types
    <3>3. buf[k].block \notin bad' => buf'[k].data = disk[buf[k].block]
      BY <1>3, <3>1, <3>2
    <3> QED
      BY <1>2, <1>5, <2>2, <3>3, NoneOutside
  <2> QED
    BY <2>1, <2>2
<1>13. \A i, j \in 1..(n + 1) : idequeue[i] = idequeue[j] => i = j
  BY <1>6 DEF BioInv, QueueHeld
<1>14. QueueHeld'
  <2>1. ASSUME NEW i \in 1..n
        PROVE  \E q \in Procs : pc'[q] = "waits" /\ b'[q] = idequeue'[i]
    <3>1. i + 1 \in 1..(n + 1) /\ 1 \in 1..(n + 1) /\ i + 1 # 1
      OBVIOUS
    <3>2. PICK q \in Procs : pc[q] = "waits" /\ b[q] = idequeue[i + 1]
      BY <1>6, <3>1 DEF BioInv, QueueHeld
    <3>3. b[q] # k
      BY <1>5, <1>13, <3>1, <3>2
    <3> QED
      BY <1>2, <1>7, <1>8, <3>2, <3>3
  <2>2. ASSUME NEW i \in 1..n, NEW j \in 1..n, idequeue'[i] = idequeue'[j]
        PROVE  i = j
    <3>1. i + 1 \in 1..(n + 1) /\ j + 1 \in 1..(n + 1)
      OBVIOUS
    <3>2. idequeue[i + 1] = idequeue[j + 1]
      BY <1>7, <2>2
    <3>3. i + 1 = j + 1
      BY <1>13, <3>1, <3>2
    <3> QED
      BY <3>3
  <2> QED
    BY <1>7, <2>1, <2>2 DEF QueueHeld
<1>15. DriverBusy'
  BY <1>2, <1>4 DEF DriverBusy, StartNext
<1>16. ASSUME NEW q \in Procs PROVE Placed(q)'
  <2>1. Placed(q) /\ b' = b /\ lock' = lock
    BY <1>2 DEF BioInv, UsersPlaced
  <2>2. CASE b[q] = k /\ pc[q] = "waits"
    BY <1>2, <1>8, <2>1, <2>2 DEF Placed, Locking
  <2>3. CASE b[q] = k /\ pc[q] # "waits"
    <3>1. pc[q] \notin Locking /\ pc'[q] = pc[q]
      BY <1>5, <1>8, <2>1, <2>3 DEF Placed
    <3> QED
      BY <1>2, <2>1, <2>3, <3>1 DEF Placed, Locking
  <2>4. CASE b[q] # k
    <3>1. pc'[q] = pc[q] /\ (b[q] # None => buf'[b[q]] = buf[b[q]])
      BY <1>2, <1>8, <2>4, Types
    <3>2. pc[q] = "waits" => \E i \in 1..Len(idequeue') : idequeue'[i] = b[q]
      <4>1. SUFFICES ASSUME pc[q] = "waits"
                     PROVE  \E i \in 1..n : idequeue'[i] = b[q]
        BY <1>7
      <4>2. PICK i \in 1..(n + 1) : idequeue[i] = b[q]
        BY <1>6, <2>1, <4>1 DEF Placed
      <4>3. PICK j \in 1..n : j + 1 = i
        <5>1. i # 1
          BY <1>5, <2>4, <4>2
        <5>2. i - 1 \in 1..n /\ (i - 1) + 1 = i
          BY <5>1
        <5> QED
          BY <5>2
      <4> QED
        BY <1>7, <4>2, <4>3
    <3>3. pc[q] \in Locking => b[q] # None
      BY <2>1 DEF Placed
    <3> QED
      BY <2>1, <3>1, <3>2, <3>3 DEF Placed, Locking
  <2> QED
    BY <2>2, <2>3, <2>4
<1>17. UsersPlaced'
  BY <1>16 DEF UsersPlaced
<1> QED
  BY <1>9, <1>10, <1>11, <1>12, <1>14, <1>15, <1>17 DEF BioInv

----------------------------------------------------------------------------
(* bget.                                                                   *)

(* A new user is counted.                                                  *)
LEMMA RefsAdded ==
    ASSUME BioConstants, BioInv, NEW p \in Procs, b[p] = None, NEW k \in Buf,
           b' = [b EXCEPT ![p] = k], buf'[k].refcnt = buf[k].refcnt + 1,
           \A j \in Buf : j # k => buf'[j].refcnt = buf[j].refcnt
    PROVE  RefsExact'
<1>1. \A q \in Procs : b'[q] = IF q = p THEN k ELSE b[q]
  BY Types
<1>2. p \notin Users(k)
  BY NoneOutside DEF Users
<1>3. ASSUME NEW j \in Buf PROVE buf'[j].refcnt = Cardinality(Users(j)')
  <2>1. buf[j].refcnt = Cardinality(Users(j)) /\ IsFiniteSet(Users(j))
    BY UsersFinite DEF BioInv, RefsExact
  <2>2. CASE j # k
    <3>1. Users(j)' = Users(j)
      BY <1>1, <2>2, NoneOutside DEF Users
    <3> QED
      BY <2>1, <2>2, <3>1
  <2>3. CASE j = k
    <3>1. Users(j)' = Users(j) \cup {p}
      BY <1>1, <2>3 DEF Users
    <3>2. Cardinality(Users(j) \cup {p}) = Cardinality(Users(j)) + 1
      BY <1>2, <2>1, <2>3, FS_AddElement
    <3> QED
      BY <2>1, <2>3, <3>1, <3>2
  <2> QED
    BY <2>2, <2>3
<1> QED
  BY <1>3 DEF RefsExact

(* bget hands out a buffer for which the process will take the lock.       *)
LEMMA TakeKeeps ==
    ASSUME BioConstants, BioInv, NEW p \in Procs, pc[p] = "user", NEW k \in Buf,
           NEW r \in BufStates, buf' = [buf EXCEPT ![k] = r],
           b' = [b EXCEPT ![p] = k], pc' = [pc EXCEPT ![p] = "lock"],
           r.refcnt = buf[k].refcnt + 1, r.block \in Blocks,
           \/ /\ r.block = buf[k].block /\ r.valid = buf[k].valid
              /\ r.dirty = buf[k].dirty /\ r.data = buf[k].data
           \/ /\ buf[k].refcnt = 0 /\ ~r.valid /\ ~r.dirty
              /\ \A j \in Buf : buf[j].block # r.block,
           UNCHANGED <<lru, lock, idequeue, busy, intr, disk, bad>>
    PROVE  BioInv'
<1>1. \A q \in Procs : Placed(q)
  BY DEF BioInv, UsersPlaced
<1>2. b[p] = None
  BY <1>1 DEF Placed
<1>3. /\ buf' \in [Buf -> BufStates] /\ buf'[k] = r
      /\ \A j \in Buf : j # k => buf'[j] = buf[j]
  BY Types
<1>4. /\ pc' \in [Procs -> Points] /\ pc'[p] = "lock"
      /\ \A q \in Procs : q # p => pc'[q] = pc[q]
  BY Types DEF Points
<1>5. /\ b' \in [Procs -> Buf \cup {None}] /\ b'[p] = k
      /\ \A q \in Procs : q # p => b'[q] = b[q]
  BY Types
<1>6. k # None /\ r.block # None
  BY NoneOutside
<1>7. buf[k].refcnt = 0 => \A q \in Procs : b[q] # k
  <2>1. buf[k].refcnt = 0 => Users(k) = {}
    BY UsersFinite DEF BioInv, RefsExact
  <2> QED
    BY <2>1 DEF Users
<1>8. lock[k] # p
  BY <1>2, <1>6, NoneOutside DEF BioInv, LocksOwned
<1>9. TypeOK' /\ Places'
  BY <1>3, <1>4, <1>5 DEF BioInv, TypeOK, Places, BufStates
<1>10. LocksOwned'
  <2> SUFFICES ASSUME NEW j \in Buf, lock[j] # None PROVE b'[lock[j]] = j
    BY DEF LocksOwned
  <2>1. b[lock[j]] = j /\ lock[j] \in Procs
    BY Types DEF BioInv, LocksOwned
  <2>2. lock[j] # p
    BY <1>2, <2>1, NoneOutside
  <2> QED
    BY <1>5, <2>1, <2>2
<1>11. RefsExact'
  BY <1>2, <1>3, RefsAdded
<1>12. BlocksUnique'
  <2> SUFFICES ASSUME NEW i \in Buf, NEW j \in Buf, buf'[i].block = buf'[j].block,
                      buf'[i].block # None
               PROVE  i = j
    BY DEF BlocksUnique
  <2>1. CASE r.block = buf[k].block
    <3>1. \A h \in Buf : buf'[h].block = buf[h].block
      BY <1>3, <2>1
    <3> QED
      BY <3>1 DEF BioInv, BlocksUnique
  <2>2. CASE \A h \in Buf : buf[h].block # r.block
    BY <1>3, <2>2 DEF BioInv, BlocksUnique
  <2> QED
    BY <2>1, <2>2
<1>13. BufsClean'
  <2> SUFFICES ASSUME NEW j \in Buf
               PROVE  /\ buf'[j].dirty => buf'[j].valid
                      /\ buf'[j].valid => buf'[j].block # None
                      /\ buf'[j].valid /\ ~buf'[j].dirty /\ buf'[j].block \notin bad =>
                           buf'[j].data = disk[buf'[j].block]
    BY DEF BufsClean
  <2>1. /\ buf[j].dirty => buf[j].valid
        /\ buf[j].valid => buf[j].block # None
        /\ buf[j].valid /\ ~buf[j].dirty /\ buf[j].block \notin bad =>
             buf[j].data = disk[buf[j].block]
    BY DEF BioInv, BufsClean
  <2>2. CASE j # k
    BY <1>3, <2>1, <2>2
  <2>3. CASE j = k
    BY <1>3, <1>6, <2>1, <2>3
  <2> QED
    BY <2>2, <2>3
<1>14. QueueHeld' /\ DriverBusy'
  <2>1. \A q \in Procs : pc[q] = "waits" => pc'[q] = "waits" /\ b'[q] = b[q]
    BY <1>4, <1>5
  <2>2. ASSUME NEW i \in 1..Len(idequeue)
        PROVE  /\ buf'[idequeue[i]].block = buf[idequeue[i]].block
               /\ buf'[idequeue[i]].dirty = buf[idequeue[i]].dirty
               /\ buf'[idequeue[i]].data = buf[idequeue[i]].data
    <3>1. /\ idequeue[i] \in Buf /\ lock[idequeue[i]] \in Procs
          /\ b[lock[idequeue[i]]] = idequeue[i]
      BY QueuedLocked
    <3>2. CASE idequeue[i] # k
      BY <1>3, <3>1, <3>2
    <3>3. CASE idequeue[i] = k
      <4>1. buf[k].refcnt # 0
        BY <1>7, <3>1, <3>3
      <4> QED
        BY <1>3, <3>3, <4>1
    <3> QED
      BY <3>2, <3>3
  <2> QED
    BY <2>1, <2>2, DriverKept
<1>15. ASSUME NEW q \in Procs, q # p PROVE Placed(q)'
  <2>1. pc'[q] = pc[q] /\ b'[q] = b[q]
    BY <1>4, <1>5, <1>15
  <2>2. b[q] # None => /\ buf'[b[q]].block = buf[b[q]].block
                       /\ buf'[b[q]].valid = buf[b[q]].valid
                       /\ buf'[b[q]].dirty = buf[b[q]].dirty
    <3>1. CASE b[q] # k
      BY <1>3, <3>1, Types
    <3>2. CASE b[q] = k
      BY <1>3, <1>7, <3>2
    <3> QED
      BY <3>1, <3>2
  <2> QED
    BY <2>1, <2>2, PlacedKept
<1>16. Placed(p)'
  BY <1>3, <1>4, <1>5, <1>6, <1>8 DEF Placed, Locking
<1>17. UsersPlaced'
  BY <1>15, <1>16 DEF UsersPlaced
<1> QED
  BY <1>9, <1>10, <1>11, <1>12, <1>13, <1>14, <1>17 DEF BioInv

(* The scan from the end of the list finds a buffer that can be recycled.  *)
LEMMA VictimFound ==
    ASSUME BioConstants, BioInv, NEW k \in Buf, Recyclable(k)
    PROVE  Victim \in Buf /\ Recyclable(Victim)
<1>1. lru \in Seq(Buf) /\ Range(lru) = Buf /\ Len(lru) = NBUF /\ NBUF \in Nat
  BY Types DEF BioConstants
<1>2. DOMAIN lru = 1..NBUF
  BY <1>1
<1> DEFINE S == {m \in 0..NBUF : NBUF - m \in 1..NBUF /\ Recyclable(lru[NBUF - m])}
<1>3. PICK i \in 1..NBUF : lru[i] = k
  BY <1>1, <1>2 DEF Range
<1>4. NBUF - i \in S
  <2>1. NBUF - i \in 0..NBUF /\ NBUF - (NBUF - i) = i
    BY <1>1
  <2> QED
    BY <1>3, <2>1
<1>5. S \subseteq Nat /\ S # {}
  <2>1. S \subseteq Nat
    BY <1>1
  <2>2. S # {}
    <3> HIDE DEF S
    <3> QED
      BY <1>4
  <2> QED
    BY <2>1, <2>2
<1>6. PICK m \in S : \A n \in S : ~(<<n, m>> \in OpToRel(<, Nat))
  <2> HIDE DEF S
  <2> QED
    BY <1>5, NatLessThanWellFounded, WFMin
<1>7. \A n \in S : ~(n < m)
  <2> HIDE DEF S
  <2> QED
    BY <1>5, <1>6 DEF OpToRel
<1>8. PICK z \in 1..NBUF : z = NBUF - m /\ Recyclable(lru[z])
  BY <1>6
<1>9. ASSUME NEW j \in 1..NBUF, Recyclable(lru[j]) PROVE j <= z
  <2>1. NBUF - j \in S
    <3>1. NBUF - j \in 0..NBUF /\ NBUF - (NBUF - j) = j
      BY <1>1
    <3> QED
      BY <1>9, <3>1
  <2>2. ~(NBUF - j < m)
    BY <1>7, <2>1
  <2>3. m \in Nat
    BY <1>1
  <2> QED
    BY <1>1, <1>8, <2>2, <2>3
<1>10. \E h \in DOMAIN lru :
          Recyclable(lru[h]) /\ \A j \in DOMAIN lru : Recyclable(lru[j]) => j <= h
  BY <1>2, <1>8, <1>9
<1>11. PICK h \in DOMAIN lru : Victim = lru[h] /\ Recyclable(lru[h])
  BY <1>10 DEF Victim
<1> QED
  BY <1>1, <1>11

(* bget finds the buffer of the block, recycles one, or panics.            *)
LEMMA BgetKeeps ==
    ASSUME BioConstants, BioInv, NEW p \in Procs, bget(p)
    PROVE  BioInv'
<1>1. PICK blk \in Blocks :
      /\ pc[p] = "user"
      /\ \/ \E k \in CachedBufs(blk) :
              /\ buf' = [buf EXCEPT ![k].refcnt = @ + 1]
              /\ b' = [b EXCEPT ![p] = k] /\ pc' = [pc EXCEPT ![p] = "lock"]
         \/ /\ CachedBufs(blk) = {} /\ \E k \in Buf : Recyclable(k)
            /\ buf' = [buf EXCEPT ![Victim] = [block |-> blk, valid |-> FALSE,
                         dirty |-> FALSE, refcnt |-> 1, data |-> @.data]]
            /\ b' = [b EXCEPT ![p] = Victim] /\ pc' = [pc EXCEPT ![p] = "lock"]
         \/ UNCHANGED <<buf, b, pc>>
      /\ UNCHANGED <<lru, lock, idequeue, busy, intr, disk, bad>>
  BY DEF bget, Goto
<1>2. CASE \E k \in CachedBufs(blk) :
             /\ buf' = [buf EXCEPT ![k].refcnt = @ + 1]
             /\ b' = [b EXCEPT ![p] = k] /\ pc' = [pc EXCEPT ![p] = "lock"]
  <2>1. PICK k \in Buf : /\ buf[k].block = blk /\ buf' = [buf EXCEPT ![k].refcnt = @ + 1]
                         /\ b' = [b EXCEPT ![p] = k] /\ pc' = [pc EXCEPT ![p] = "lock"]
    BY <1>2 DEF CachedBufs
  <2>2. buf[k] \in BufStates /\ buf[k].refcnt \in Nat
    BY Types DEF BufStates
  <2>3. PICK r : r = [buf[k] EXCEPT !.refcnt = buf[k].refcnt + 1]
    OBVIOUS
  <2>4. /\ r \in BufStates /\ r.refcnt = buf[k].refcnt + 1 /\ r.block = buf[k].block
        /\ r.valid = buf[k].valid /\ r.dirty = buf[k].dirty /\ r.data = buf[k].data
    BY <2>2, <2>3 DEF BufStates
  <2>5. buf' = [buf EXCEPT ![k] = r]
    BY <2>1, <2>3
  <2>6. r.block \in Blocks
    BY <2>1, <2>4
  <2> QED
    BY <1>1, <2>1, <2>4, <2>5, <2>6, TakeKeeps
<1>3. CASE /\ CachedBufs(blk) = {} /\ \E k \in Buf : Recyclable(k)
           /\ buf' = [buf EXCEPT ![Victim] = [block |-> blk, valid |-> FALSE,
                        dirty |-> FALSE, refcnt |-> 1, data |-> @.data]]
           /\ b' = [b EXCEPT ![p] = Victim] /\ pc' = [pc EXCEPT ![p] = "lock"]
  <2>1. PICK k \in Buf : k = Victim /\ Recyclable(k)
    BY <1>3, VictimFound
  <2>2. buf[k] \in BufStates /\ buf[k].refcnt = 0
    BY <2>1, Types DEF Recyclable
  <2>3. PICK r : r = [block |-> blk, valid |-> FALSE, dirty |-> FALSE, refcnt |-> 1,
                      data |-> buf[k].data]
    OBVIOUS
  <2>4. /\ r \in BufStates /\ r.refcnt = buf[k].refcnt + 1 /\ r.block = blk
        /\ ~r.valid /\ ~r.dirty
    BY <2>2, <2>3 DEF BufStates
  <2>5. buf' = [buf EXCEPT ![k] = r]
    BY <1>3, <2>1, <2>3
  <2>6. \A j \in Buf : buf[j].block # r.block
    BY <1>3, <2>4 DEF CachedBufs
  <2>7. b' = [b EXCEPT ![p] = k] /\ pc' = [pc EXCEPT ![p] = "lock"] /\ r.block \in Blocks
    BY <1>3, <2>1, <2>4
  <2> QED
    BY <1>1, <2>2, <2>4, <2>5, <2>6, <2>7, TakeKeeps
<1>4. CASE UNCHANGED <<buf, b, pc>>
  <2>1. UNCHANGED <<buf, b, pc, lru, lock, idequeue, busy, intr, disk, bad>>
    BY <1>1, <1>4
  <2>2. TypeOK' /\ Places' /\ UsersPlaced' /\ LocksOwned'
    BY <2>1 DEF BioInv, TypeOK, Places, UsersPlaced, Placed, LocksOwned
  <2>3. RefsExact' /\ BlocksUnique' /\ BufsClean'
    BY <2>1 DEF BioInv, RefsExact, Users, BlocksUnique, BufsClean
  <2>4. QueueHeld' /\ DriverBusy'
    BY <2>1 DEF BioInv, QueueHeld, DriverBusy
  <2> QED
    BY <2>2, <2>3, <2>4 DEF BioInv
<1> QED
  BY <1>1, <1>2, <1>3, <1>4

----------------------------------------------------------------------------
(* brelse.                                                                 *)

(* The elements after the move: k, those that were before it, the others.  *)
LEMMA ToFrontElements ==
    ASSUME NEW s \in Seq(Buf), NEW k \in Range(s)
    PROVE  \E z \in 1..Len(s) :
             /\ s[z] = k /\ ToFront(s, k) \in Seq(Buf) /\ Len(ToFront(s, k)) = Len(s)
             /\ \A i \in 1..Len(s) : ToFront(s, k)[i] =
                  IF i = 1 THEN k ELSE IF i <= z THEN s[i - 1] ELSE s[i]
<1>1. Len(s) \in Nat /\ DOMAIN s = 1..Len(s) /\ (\A i \in 1..Len(s) : s[i] \in Buf)
  OBVIOUS
<1>2. PICK z \in 1..Len(s) : z = (CHOOSE i \in DOMAIN s : s[i] = k) /\ s[z] = k
  BY <1>1 DEF Range
<1> DEFINE left == SubSeq(s, 1, z - 1)
           right == SubSeq(s, z + 1, Len(s))
<1>3. ToFront(s, k) = <<k>> \o (left \o right)
  BY <1>2 DEF ToFront, RemoveAt
<1>4. left \in Seq(Buf) /\ Len(left) = z - 1 /\ \A i \in 1..(z - 1) : left[i] = s[i]
  <2>1. z - 1 \in Int /\ \A i \in 1..(z - 1) : s[i] \in Buf
    BY <1>1
  <2>2. /\ left \in Seq(Buf)
        /\ Len(left) = IF 1 <= z - 1 THEN (z - 1) - 1 + 1 ELSE 0
        /\ \A i \in 1..((z - 1) - 1 + 1) : left[i] = s[1 + i - 1]
    BY <2>1, SubSeqProperties, 1 \in Int
  <2> QED
    BY <2>2
<1>5. right \in Seq(Buf) /\ Len(right) = Len(s) - z
      /\ \A i \in 1..(Len(s) - z) : right[i] = s[i + z]
  <2>1. z + 1 \in Int /\ Len(s) \in Int /\ \A i \in (z + 1)..Len(s) : s[i] \in Buf
    BY <1>1
  <2>2. /\ right \in Seq(Buf)
        /\ Len(right) = IF z + 1 <= Len(s) THEN Len(s) - (z + 1) + 1 ELSE 0
        /\ \A i \in 1..(Len(s) - (z + 1) + 1) : right[i] = s[(z + 1) + i - 1]
    BY <2>1, SubSeqProperties
  <2> HIDE DEF right
  <2>3. ASSUME NEW i \in 1..(Len(s) - z) PROVE right[i] = s[i + z]
    <3>1. i \in 1..(Len(s) - (z + 1) + 1) /\ (z + 1) + i - 1 = i + z
      BY <1>1
    <3> QED
      BY <2>2, <3>1
  <2>4. Len(right) = Len(s) - z
    <3>1. PICK n \in Nat : n = Len(s)
      BY <1>1
    <3>2. PICK m : m = Len(right)
      OBVIOUS
    <3>3. m = IF z + 1 <= n THEN n - (z + 1) + 1 ELSE 0
      BY <2>2, <3>1, <3>2
    <3>4. z \in 1..n
      BY <1>2, <3>1
    <3>5. m = n - z
      BY <3>3, <3>4
    <3> QED
      BY <3>1, <3>2, <3>5
  <2> QED
    BY <2>2, <2>3, <2>4
<1> HIDE DEF left, right
<1> DEFINE rest == left \o right
<1>6. /\ rest \in Seq(Buf) /\ Len(rest) = Len(s) - 1
      /\ \A i \in 1..(Len(s) - 1) :
           rest[i] = IF i <= z - 1 THEN left[i] ELSE right[i - (z - 1)]
  <2>1. Len(left) + Len(right) = Len(s) - 1
    BY <1>1, <1>4, <1>5
  <2>2. /\ left \o right \in Seq(Buf)
        /\ Len(left \o right) = Len(left) + Len(right)
        /\ \A i \in 1..(Len(left) + Len(right)) : (left \o right)[i] =
             IF i <= Len(left) THEN left[i] ELSE right[i - Len(left)]
    BY <1>4, <1>5, ConcatProperties
  <2> QED
    BY <1>4, <2>1, <2>2
<1>7. ASSUME NEW i \in 1..(Len(s) - 1) PROVE rest[i] = IF i < z THEN s[i] ELSE s[i + 1]
  <2>1. CASE i < z
    BY <1>4, <1>6, <2>1
  <2>2. CASE ~(i < z)
    <3>1. i - (z - 1) \in 1..(Len(s) - z) /\ (i - (z - 1)) + z = i + 1
      BY <2>2
    <3> QED
      BY <1>5, <1>6, <2>2, <3>1
  <2> QED
    BY <2>1, <2>2
<1> HIDE DEF rest
<1>8. <<k>> \in Seq(Buf) /\ Len(<<k>>) = 1 /\ <<k>>[1] = k
  BY <1>1, <1>2
<1>9. /\ <<k>> \o rest \in Seq(Buf) /\ Len(<<k>> \o rest) = Len(s)
      /\ \A i \in 1..Len(s) :
           (<<k>> \o rest)[i] = IF i <= 1 THEN <<k>>[i] ELSE rest[i - 1]
  <2>1. /\ <<k>> \o rest \in Seq(Buf)
        /\ Len(<<k>> \o rest) = Len(<<k>>) + Len(rest)
        /\ \A i \in 1..(Len(<<k>>) + Len(rest)) : (<<k>> \o rest)[i] =
             IF i <= Len(<<k>>) THEN <<k>>[i] ELSE rest[i - Len(<<k>>)]
    BY <1>6, <1>8, ConcatProperties
  <2>2. Len(<<k>>) + Len(rest) = Len(s)
    BY <1>1, <1>6, <1>8
  <2> QED
    BY <1>8, <2>1, <2>2
<1>10. ToFront(s, k) = <<k>> \o rest
  BY <1>3 DEF rest
<1>11. ASSUME NEW i \in 1..Len(s)
       PROVE  ToFront(s, k)[i] = IF i = 1 THEN k ELSE IF i <= z THEN s[i - 1] ELSE s[i]
  <2>1. CASE i = 1
    BY <1>10, <1>8, <1>9, <2>1
  <2>2. CASE i # 1
    <3>1. i - 1 \in 1..(Len(s) - 1) /\ (i - 1) + 1 = i /\ ~(i <= 1)
      BY <1>1, <2>2
    <3>2. ToFront(s, k)[i] = rest[i - 1]
      BY <1>10, <1>9, <3>1
    <3>3. rest[i - 1] = IF i - 1 < z THEN s[i - 1] ELSE s[(i - 1) + 1]
      BY <1>7, <3>1
    <3> QED
      BY <2>2, <3>1, <3>2, <3>3
  <2> QED
    BY <2>1, <2>2
<1> QED
  BY <1>2, <1>9, <1>10, <1>11

(* Moving a buffer to the front loses none.                                *)
LEMMA ToFrontFacts ==
    ASSUME NEW s \in Seq(Buf), NEW k \in Range(s)
    PROVE  /\ ToFront(s, k) \in Seq(Buf) /\ Len(ToFront(s, k)) = Len(s)
           /\ Range(ToFront(s, k)) = Range(s)
<1>1. PICK t : t = ToFront(s, k)
  OBVIOUS
<1>2. PICK z \in 1..Len(s) :
        /\ s[z] = k /\ t \in Seq(Buf) /\ Len(t) = Len(s)
        /\ \A i \in 1..Len(s) : t[i] =
             IF i = 1 THEN k ELSE IF i <= z THEN s[i - 1] ELSE s[i]
  BY <1>1, ToFrontElements
<1>3. DOMAIN s = 1..Len(s) /\ DOMAIN t = 1..Len(s) /\ Len(s) \in Nat
  BY <1>2
<1>4. ASSUME NEW x \in Range(t) PROVE x \in Range(s)
  <2>1. PICK i \in 1..Len(s) : t[i] = x
    BY <1>3 DEF Range
  <2>2. PICK j \in 1..Len(s) : s[j] = x
    <3>1. CASE i = 1
      BY <1>2, <2>1, <3>1
    <3>2. CASE i # 1 /\ i <= z
      <4>1. i - 1 \in 1..Len(s)
        BY <1>3, <3>2
      <4> QED
        BY <1>2, <2>1, <3>2, <4>1
    <3>3. CASE i # 1 /\ ~(i <= z)
      BY <1>2, <2>1, <3>3
    <3> QED
      BY <3>1, <3>2, <3>3
  <2> QED
    BY <1>3, <2>2 DEF Range
<1>5. ASSUME NEW x \in Range(s) PROVE x \in Range(t)
  <2>1. PICK i \in 1..Len(s) : s[i] = x
    BY <1>3 DEF Range
  <2>2. PICK j \in 1..Len(s) : t[j] = x
    <3>1. CASE i = z
      <4>1. 1 \in 1..Len(s)
        BY <1>3
      <4> QED
        BY <1>2, <2>1, <3>1, <4>1
    <3>2. CASE i < z
      <4>1. i + 1 \in 1..Len(s) /\ i + 1 # 1 /\ i + 1 <= z /\ (i + 1) - 1 = i
        BY <1>3, <3>2
      <4>2. t[i + 1] = s[(i + 1) - 1]
        BY <1>2, <4>1
      <4> QED
        BY <2>1, <4>1, <4>2
    <3>3. CASE i > z
      <4>1. i # 1 /\ ~(i <= z)
        BY <1>3, <3>3
      <4> QED
        BY <1>2, <2>1, <4>1
    <3> QED
      BY <1>3, <3>1, <3>2, <3>3
  <2> QED
    BY <1>3, <2>2 DEF Range
<1> QED
  BY <1>1, <1>2, <1>4, <1>5

(* A user that leaves is counted, and there was one to leave.              *)
LEMMA RefsDropped ==
    ASSUME BioConstants, BioInv, NEW p \in Procs, NEW k \in Buf, b[p] = k,
           b' = [b EXCEPT ![p] = None], buf'[k].refcnt = buf[k].refcnt - 1,
           \A j \in Buf : j # k => buf'[j].refcnt = buf[j].refcnt
    PROVE  RefsExact' /\ buf[k].refcnt \in Nat \ {0}
<1>1. \A q \in Procs : b'[q] = IF q = p THEN None ELSE b[q]
  BY Types
<1>2. p \in Users(k)
  BY DEF Users
<1>3. ASSUME NEW j \in Buf PROVE buf'[j].refcnt = Cardinality(Users(j)')
  <2>1. buf[j].refcnt = Cardinality(Users(j)) /\ IsFiniteSet(Users(j))
    BY UsersFinite DEF BioInv, RefsExact
  <2>2. CASE j # k
    <3>1. Users(j)' = Users(j)
      BY <1>1, <2>2, NoneOutside DEF Users
    <3> QED
      BY <2>1, <2>2, <3>1
  <2>3. CASE j = k
    <3>1. Users(j)' = Users(j) \ {p}
      BY <1>1, <2>3, NoneOutside DEF Users
    <3>2. Cardinality(Users(j) \ {p}) = Cardinality(Users(j)) - 1
      BY <1>2, <2>1, <2>3, FS_RemoveElement
    <3> QED
      BY <2>1, <2>3, <3>1, <3>2
  <2> QED
    BY <2>2, <2>3
<1>4. Users(k) # {} /\ Cardinality(Users(k)) \in Nat /\ Cardinality(Users(k)) # 0
  BY <1>2, UsersFinite
<1>5. buf[k].refcnt = Cardinality(Users(k))
  BY DEF BioInv, RefsExact
<1> QED
  BY <1>3, <1>4, <1>5 DEF RefsExact

(* brelse drops the reference of a process that has given up the lock.     *)
LEMMA BrelseKeeps ==
    ASSUME BioConstants, BioInv, NEW p \in Procs, brelse(p)
    PROVE  BioInv'
<1>1. /\ pc[p] = "drop" /\ buf' = [buf EXCEPT ![b[p]].refcnt = buf[b[p]].refcnt - 1]
      /\ lru' = (IF buf[b[p]].refcnt = 1 THEN ToFront(lru, b[p]) ELSE lru)
      /\ b' = [b EXCEPT ![p] = None] /\ pc' = [pc EXCEPT ![p] = "user"]
      /\ UNCHANGED <<lock, idequeue, busy, intr, disk, bad, stopped>>
  BY DEF brelse, Goto
<1>2. \A q \in Procs : Placed(q)
  BY DEF BioInv, UsersPlaced
<1>3. PICK k \in Buf : k = b[p] /\ lock[k] # p
  BY <1>1, <1>2, Types, NoneOutside DEF Placed, Locking
<1>4. buf[k] \in BufStates /\ buf[k].refcnt \in Nat \ {0}
  <2>1. p \in Users(k) /\ buf[k].refcnt = Cardinality(Users(k))
    BY <1>3 DEF Users, BioInv, RefsExact
  <2>2. Cardinality(Users(k)) \in Nat /\ Cardinality(Users(k)) # 0
    BY <2>1, UsersFinite
  <2> QED
    BY <2>1, <2>2, Types
<1>5. PICK r : r = [buf[k] EXCEPT !.refcnt = buf[k].refcnt - 1]
  OBVIOUS
<1>6. /\ r \in BufStates /\ r.refcnt = buf[k].refcnt - 1 /\ r.block = buf[k].block
      /\ r.valid = buf[k].valid /\ r.dirty = buf[k].dirty /\ r.data = buf[k].data
  BY <1>4, <1>5 DEF BufStates
<1>7. buf' = [buf EXCEPT ![k] = r]
  BY <1>1, <1>3, <1>5
<1>8. /\ buf' \in [Buf -> BufStates] /\ buf'[k] = r
      /\ \A j \in Buf : j # k => buf'[j] = buf[j]
  BY <1>6, <1>7, Types
<1>9. \A j \in Buf : /\ buf'[j].block = buf[j].block /\ buf'[j].valid = buf[j].valid
                     /\ buf'[j].dirty = buf[j].dirty /\ buf'[j].data = buf[j].data
  BY <1>6, <1>8
<1>10. /\ pc' \in [Procs -> Points] /\ pc'[p] = "user"
       /\ \A q \in Procs : q # p => pc'[q] = pc[q]
  BY <1>1, Types DEF Points
<1>11. /\ b' \in [Procs -> Buf \cup {None}] /\ b'[p] = None
       /\ \A q \in Procs : q # p => b'[q] = b[q]
  BY <1>1, Types
<1>12. lru' \in Seq(Buf) /\ Range(lru') = Buf /\ Len(lru') = NBUF
  <2>1. lru \in Seq(Buf) /\ Range(lru) = Buf /\ Len(lru) = NBUF /\ k \in Range(lru)
    BY Types
  <2> QED
    BY <1>1, <1>3, <2>1, ToFrontFacts
<1>13. TypeOK' /\ Places'
  BY <1>1, <1>8, <1>10, <1>11, <1>12 DEF BioInv, TypeOK, Places, BufStates
<1>14. LocksOwned'
  <2> SUFFICES ASSUME NEW j \in Buf, lock[j] # None PROVE b'[lock[j]] = j
    BY <1>1 DEF LocksOwned
  <2>1. b[lock[j]] = j /\ lock[j] \in Procs
    BY Types DEF BioInv, LocksOwned
  <2>2. lock[j] # p
    BY <1>3, <2>1
  <2> QED
    BY <1>11, <2>1, <2>2
<1>15. RefsExact'
  BY <1>1, <1>3, <1>6, <1>8, RefsDropped
<1>16. BlocksUnique' /\ BufsClean'
  BY <1>1, <1>9, ContentsKept
<1>17. QueueHeld' /\ DriverBusy'
  <2>1. \A q \in Procs : pc[q] = "waits" => pc'[q] = "waits" /\ b'[q] = b[q]
    BY <1>1, <1>10, <1>11
  <2> QED
    BY <1>1, <1>9, <2>1, QueueElement, DriverKept
<1>18. ASSUME NEW q \in Procs, q # p PROVE Placed(q)'
  <2>1. b[q] # None => b[q] \in Buf
    BY Types
  <2>2. pc'[q] = pc[q] /\ b'[q] = b[q]
    BY <1>10, <1>11, <1>18
  <2> QED
    BY <1>1, <1>9, <2>1, <2>2, PlacedKept
<1>19. Placed(p)'
  BY <1>10, <1>11 DEF Placed, Locking
<1>20. UsersPlaced'
  BY <1>18, <1>19 DEF UsersPlaced
<1> QED
  BY <1>13, <1>14, <1>15, <1>16, <1>17, <1>20 DEF BioInv

----------------------------------------------------------------------------
(* The invariant.                                                          *)

(* binit leaves every buffer free and in the list.                         *)
LEMMA BioInit ==
    ASSUME BioConstants, Init
    PROVE  BioInv
<1>1. /\ lock = [k \in Buf |-> None] /\ idequeue = <<>> /\ busy = Idle /\ intr = "no"
      /\ disk = [k \in Blocks |-> CHOOSE v \in Values : TRUE]
      /\ pc = [p \in Procs |-> "user"] /\ b = [p \in Procs |-> None] /\ bad = {}
      /\ lru = [k \in Buf |-> NBUF + 1 - k]
  BY DEF Init
<1>2. \A k \in Buf : buf[k] = [block |-> None, valid |-> FALSE, dirty |-> FALSE,
                               refcnt |-> 0, data |-> None]
  BY DEF Init
<1>3. buf \in [Buf -> BufStates]
  BY DEF Init, BufStates
<1>4. lru \in Seq(Buf) /\ Range(lru) = Buf /\ Len(lru) = NBUF
  <2>1. NBUF \in Nat /\ Buf = 1..NBUF
    BY DEF BioConstants, Buf
  <2>2. \A k \in 1..NBUF : NBUF + 1 - k \in 1..NBUF /\ NBUF + 1 - (NBUF + 1 - k) = k
    BY <2>1
  <2>3. lru \in [1..NBUF -> Buf] /\ DOMAIN lru = 1..NBUF
    BY <1>1, <2>1, <2>2
  <2>4. lru \in Seq(Buf) /\ Len(lru) = NBUF
    BY <2>1, <2>3
  <2>5. ASSUME NEW k \in Buf PROVE k \in Range(lru)
    <3>1. NBUF + 1 - k \in DOMAIN lru /\ lru[NBUF + 1 - k] = k
      BY <1>1, <2>1, <2>2, <2>3
    <3> QED
      BY <3>1 DEF Range
  <2>6. Range(lru) \subseteq Buf
    BY <2>3 DEF Range
  <2> QED
    BY <2>4, <2>5, <2>6
<1>5. disk \in [Blocks -> Values \cup {None}]
  <2>1. (CHOOSE v \in Values : TRUE) \in Values
    BY DEF BioConstants
  <2> QED
    BY <1>1, <2>1
<1>6. idequeue \in Seq(Buf) /\ Range(idequeue) \subseteq Buf /\ Len(idequeue) = 0
  BY <1>1 DEF Range
<1>7. TypeOK /\ Places
  BY <1>1, <1>3, <1>4, <1>5, <1>6 DEF TypeOK, Places, Points, BufStates
<1>8. UsersPlaced /\ LocksOwned
  BY <1>1 DEF UsersPlaced, Placed, Locking, LocksOwned
<1>9. RefsExact
  <2> SUFFICES ASSUME NEW k \in Buf PROVE buf[k].refcnt = Cardinality(Users(k))
    BY DEF RefsExact
  <2>1. Users(k) = {}
    BY <1>1, NoneOutside DEF Users
  <2> QED
    BY <1>2, <2>1, UsersFinite
<1>10. BlocksUnique /\ BufsClean
  BY <1>2 DEF BlocksUnique, BufsClean
<1>11. QueueHeld /\ DriverBusy
  BY <1>1, <1>6 DEF QueueHeld, DriverBusy, Idle
<1> QED
  BY <1>7, <1>8, <1>9, <1>10, <1>11 DEF BioInv

(* Every step keeps the invariant.                                         *)
LEMMA BioNext ==
    ASSUME BioConstants, BioInv, [Next]_bvars
    PROVE  BioInv'
<1>1. CASE UNCHANGED bvars
  <2>1. UNCHANGED <<buf, b, pc, lru, lock, idequeue, busy, intr, disk, bad>>
    BY <1>1 DEF bvars
  <2>2. TypeOK' /\ Places' /\ UsersPlaced' /\ LocksOwned'
    BY <2>1 DEF BioInv, TypeOK, Places, UsersPlaced, Placed, LocksOwned
  <2>3. RefsExact' /\ BlocksUnique' /\ BufsClean'
    BY <2>1 DEF BioInv, RefsExact, Users, BlocksUnique, BufsClean
  <2>4. QueueHeld' /\ DriverBusy'
    BY <2>1 DEF BioInv, QueueHeld, DriverBusy
  <2> QED
    BY <2>2, <2>3, <2>4 DEF BioInv
<1>2. ASSUME NEW p \in Procs, bget(p) \/ Change(p) \/ Step(p) PROVE BioInv'
  <2>1. CASE bget(p)
    BY <2>1, BgetKeeps
  <2>2. CASE Change(p)
    BY <2>2, ChangeKeeps
  <2>3. CASE acquiresleep(p)
    BY <2>3, AcquireKeeps
  <2>4. CASE releasesleep(p)
    BY <2>4, ReleaseKeeps
  <2>5. CASE brelse(p)
    BY <2>5, BrelseKeeps
  <2>6. CASE bwrite(p)
    BY <2>6, BwriteKeeps
  <2>7. CASE iderw(p)
    BY <2>7, IderwKeeps
  <2> QED
    BY <1>2, <2>1, <2>2, <2>3, <2>4, <2>5, <2>6, <2>7 DEF Step
<1>3. CASE DiskDone
  BY <1>3, DoneKeeps
<1>4. CASE ideintr
  BY <1>4, InterruptKeeps
<1> QED
  BY <1>1, <1>2, <1>3, <1>4 DEF Next

(* The inductive invariant of the cache, the sleep locks and the driver    *)
(* holds in every reachable state.                                         *)
THEOREM BioCorrect ==
    ASSUME BioConstants
    PROVE  Spec => []BioInv
<1>1. Init => BioInv
  BY BioInit
<1>2. BioInv /\ [Next]_bvars => BioInv'
  BY BioNext
<1> QED
  BY <1>1, <1>2, PTL DEF Spec

(* bget never caches a block twice nor recycles a buffer that somebody     *)
(* uses; references are counted exactly; a process has the lock of its     *)
(* buffer exactly between acquiresleep and releasesleep, and what it reads *)
(* has been read in.                                                       *)
THEOREM BuffersCorrect ==
    ASSUME BioConstants
    PROVE  Spec => []OneBufferPerBlock
<1>1. BioInv => OneBufferPerBlock
  <2> SUFFICES ASSUME BioInv PROVE OneBufferPerBlock
    OBVIOUS
  <2>1. \A j, k \in Buf : buf[j].block = buf[k].block /\ buf[j].block # None => j = k
    BY DEF BioInv, BlocksUnique
  <2>2. \A k \in Buf : buf[k].refcnt = Cardinality({p \in Procs : b[p] = k})
    BY DEF BioInv, RefsExact, Users
  <2>3. \A p \in Procs : /\ pc[p] \in {"holds", "iderw", "waits"} <=>
                              b[p] # None /\ lock[b[p]] = p
                         /\ pc[p] = "holds" => buf[b[p]].valid
    BY DEF BioInv, UsersPlaced, Placed, Locking
  <2> QED
    BY <2>1, <2>2, <2>3 DEF OneBufferPerBlock
<1> QED
  BY <1>1, BioCorrect, PTL

(* The driver forgets no request: ideintr starts the next one of the       *)
(* queue, a process sleeps in iderw only for a queued buffer and in        *)
(* acquiresleep only for a lock that is held, and no buffer is queued      *)
(* twice.                                                                  *)
THEOREM DiskCorrect ==
    ASSUME BioConstants
    PROVE  Spec => []DiskKeepsWorking
<1>1. BioInv => DiskKeepsWorking
  <2> SUFFICES ASSUME BioInv PROVE DiskKeepsWorking
    OBVIOUS
  <2>1. DOMAIN idequeue = 1..Len(idequeue)
    BY Types
  <2>2. idequeue # <<>> => busy = Request(buf, Head(idequeue))
    BY DEF BioInv, DriverBusy
  <2>3. ASSUME NEW p \in Procs PROVE /\ pc[p] = "waits" => b[p] \in Range(idequeue)
                                     /\ pc[p] = "asleep" => lock[b[p]] # None
    BY <2>1 DEF BioInv, UsersPlaced, Placed, Range
  <2>4. \A i, j \in DOMAIN idequeue : idequeue[i] = idequeue[j] => i = j
    BY <2>1 DEF BioInv, QueueHeld
  <2> QED
    BY <2>2, <2>3, <2>4 DEF DiskKeepsWorking
<1> QED
  BY <1>1, BioCorrect, PTL

----------------------------------------------------------------------------
(* What a block holds.                                                     *)

(* The next reader of blk finds v: in the valid buffer of the block, or on *)
(* the disk when it has none.                                              *)
Shows(bs, ds, blk, v) ==
    \/ \E k \in Buf : bs[k].block = blk /\ bs[k].valid /\ bs[k].data = v
    \/ (\A k \in Buf : bs[k].block = blk => ~bs[k].valid) /\ ds[blk] = v

(* With one buffer for a block there is one such value, its contents.      *)
LEMMA ContentsShown ==
    ASSUME BlocksUnique, NEW blk, blk # None, NEW v
    PROVE  Shows(buf, disk, blk, v) <=> Contents(blk) = v
<1>1. CASE \E k \in CachedBufs(blk) : buf[k].valid
  <2>1. PICK k \in Buf : /\ k = (CHOOSE j \in CachedBufs(blk) : buf[j].valid)
                         /\ buf[k].block = blk /\ buf[k].valid
    BY <1>1 DEF CachedBufs
  <2>2. Contents(blk) = buf[k].data
    BY <1>1, <2>1 DEF Contents
  <2> QED
    BY <2>1, <2>2 DEF Shows, BlocksUnique
<1>2. CASE ~\E k \in CachedBufs(blk) : buf[k].valid
  BY <1>2 DEF Contents, Shows, CachedBufs
<1> QED
  BY <1>1, <1>2

(* The same after a step.                                                  *)
LEMMA ContentsShownNext ==
    ASSUME BlocksUnique', NEW blk, blk # None, NEW v
    PROVE  Shows(buf', disk', blk, v) <=> Contents(blk)' = v
<1>1. CASE \E k \in CachedBufs(blk)' : buf'[k].valid
  <2>1. PICK k \in Buf : /\ k = (CHOOSE j \in CachedBufs(blk)' : buf'[j].valid)
                         /\ buf'[k].block = blk /\ buf'[k].valid
    BY <1>1 DEF CachedBufs
  <2>2. Contents(blk)' = buf'[k].data
    BY <1>1, <2>1 DEF Contents
  <2> QED
    BY <2>1, <2>2 DEF Shows, BlocksUnique
<1>2. CASE ~\E k \in CachedBufs(blk)' : buf'[k].valid
  BY <1>2 DEF Contents, Shows, CachedBufs
<1> QED
  BY <1>1, <1>2

(* Recycling a buffer shows what the disk has, and that is what the buffer *)
(* held.                                                                   *)
LEMMA BgetShows ==
    ASSUME BioConstants, BioInv, NEW p \in Procs, bget(p), NEW blk \in Blocks \ bad',
           NEW v, Shows(buf, disk, blk, v)
    PROVE  Shows(buf', disk', blk, v)
<1>1. PICK new \in Blocks :
      /\ \/ \E k \in CachedBufs(new) : buf' = [buf EXCEPT ![k].refcnt = @ + 1]
         \/ /\ CachedBufs(new) = {} /\ \E k \in Buf : Recyclable(k)
            /\ buf' = [buf EXCEPT ![Victim] = [block |-> new, valid |-> FALSE,
                         dirty |-> FALSE, refcnt |-> 1, data |-> @.data]]
         \/ UNCHANGED buf
      /\ UNCHANGED <<disk, bad>>
  BY DEF bget
<1>2. CASE \E k \in CachedBufs(new) : buf' = [buf EXCEPT ![k].refcnt = @ + 1]
  <2>1. PICK k \in Buf : buf' = [buf EXCEPT ![k].refcnt = @ + 1]
    BY <1>2 DEF CachedBufs
  <2>2. \A j \in Buf : buf[j] \in BufStates
    BY Types
  <2>3. \A j \in Buf : /\ buf'[j].block = buf[j].block /\ buf'[j].valid = buf[j].valid
                       /\ buf'[j].data = buf[j].data
    BY <2>1, <2>2, Types DEF BufStates
  <2> QED
    BY <1>1, <2>3 DEF Shows
<1>3. CASE /\ CachedBufs(new) = {} /\ \E k \in Buf : Recyclable(k)
           /\ buf' = [buf EXCEPT ![Victim] = [block |-> new, valid |-> FALSE,
                        dirty |-> FALSE, refcnt |-> 1, data |-> @.data]]
  <2>1. PICK k \in Buf : k = Victim /\ Recyclable(k)
    BY <1>3, VictimFound
  <2>2. /\ buf'[k].block = new /\ ~buf'[k].valid
        /\ \A j \in Buf : j # k => buf'[j] = buf[j]
    BY <1>3, <2>1, Types
  <2>3. buf[k].valid /\ buf[k].block = blk => buf[k].data = disk[blk]
    BY <1>1, <2>1 DEF BioInv, BufsClean, Recyclable
  <2>4. CASE buf[k].valid /\ buf[k].block = blk
    <3>1. v = disk[blk]
      BY <2>3, <2>4, NoneOutside DEF Shows, BioInv, BlocksUnique
    <3>2. \A j \in Buf : buf'[j].block = blk => ~buf'[j].valid
      BY <2>2, <2>4, NoneOutside DEF BioInv, BlocksUnique
    <3> QED
      BY <1>1, <3>1, <3>2 DEF Shows
  <2>5. CASE ~(buf[k].valid /\ buf[k].block = blk)
    BY <1>1, <2>2, <2>5 DEF Shows
  <2> QED
    BY <2>4, <2>5
<1>4. CASE UNCHANGED buf
  BY <1>1, <1>4 DEF Shows
<1> QED
  BY <1>1, <1>2, <1>3, <1>4

(* The controller writes what the buffer holds, and the interrupt handler  *)
(* reads in what the disk has.                                             *)
LEMMA DriverShows ==
    ASSUME BioConstants, BioInv, DiskDone \/ ideintr, NEW blk \in Blocks \ bad',
           NEW v, Shows(buf, disk, blk, v)
    PROVE  Shows(buf', disk', blk, v)
<1>1. PICK k : k = Head(idequeue)
  OBVIOUS
<1>2. blk # None
  BY NoneOutside
<1>3. CASE DiskDone
  <2>1. /\ idequeue # <<>> /\ UNCHANGED buf
        /\ \A x \in Blocks : ~(busy.write /\ x = busy.block) => disk'[x] = disk[x]
    BY <1>3, DoneFacts
  <2>2. k \in Buf /\ busy.write = buf[k].dirty /\ busy.block = buf[k].block
    BY <1>1, <2>1, BusyFacts
  <2>3. buf[k].dirty => buf[k].valid
    BY <2>2 DEF BioInv, BufsClean
  <2>4. CASE busy.write /\ blk = busy.block
    BY <2>1, <2>2, <2>3, <2>4 DEF Shows
  <2>5. CASE ~(busy.write /\ blk = busy.block)
    BY <2>1, <2>5 DEF Shows
  <2> QED
    BY <2>4, <2>5
<1>4. CASE ideintr
  <2>1. /\ idequeue # <<>> /\ intr # "no" /\ k \in Buf
        /\ \A j \in Buf : j # k => buf'[j] = buf[j]
        /\ buf'[k].block = buf[k].block /\ buf'[k].valid
        /\ ~buf[k].dirty /\ intr = "done" => buf'[k].data = disk[buf[k].block]
        /\ buf[k].dirty => buf'[k].data = buf[k].data
        /\ bad' = (IF intr = "error" THEN bad \cup {buf[k].block} ELSE bad)
        /\ UNCHANGED disk
    BY <1>1, <1>4, InterruptFacts
  <2>2. ~buf[k].valid \/ buf[k].dirty
    BY <1>1, <2>1, BusyFacts
  <2>3. buf[k].dirty => buf[k].valid
    BY <2>1 DEF BioInv, BufsClean
  <2>4. \A j \in Buf : buf[j].block = buf[k].block /\ buf[j].block # None => j = k
    BY <2>1 DEF BioInv, BlocksUnique
  <2>5. CASE buf[k].block # blk
    BY <2>1, <2>5 DEF Shows
  <2>6. CASE buf[k].block = blk /\ buf[k].dirty
    BY <1>2, <2>1, <2>3, <2>4, <2>6 DEF Shows
  <2>7. CASE buf[k].block = blk /\ ~buf[k].dirty
    <3>1. intr = "done"
      BY <2>1, <2>7, Types
    <3>2. v = disk[blk]
      BY <1>2, <2>2, <2>4, <2>7 DEF Shows
    <3> QED
      BY <2>1, <2>7, <3>1, <3>2 DEF Shows
  <2> QED
    BY <2>5, <2>6, <2>7
<1> QED
  BY <1>3, <1>4

(* What changes no data changes no block.                                  *)
LEMMA QuietShows ==
    ASSUME BioInv, NEW p \in Procs, Step(p), NEW blk, NEW v, Shows(buf, disk, blk, v)
    PROVE  Shows(buf', disk', blk, v)
<1>1. CASE UNCHANGED <<buf, disk>>
  BY <1>1 DEF Shows
<1>2. ASSUME brelse(p) \/ bwrite(p) PROVE Shows(buf', disk', blk, v)
  <2>1. \A j \in Buf : buf[j] \in BufStates
    BY Types
  <2>2. \A j \in Buf : /\ buf'[j].block = buf[j].block /\ buf'[j].valid = buf[j].valid
                       /\ buf'[j].data = buf[j].data
    <3>1. CASE brelse(p)
      <4>1. buf' = [buf EXCEPT ![b[p]].refcnt = @ - 1]
        BY <3>1 DEF brelse
      <4> QED
        BY <2>1, <4>1, Types DEF BufStates
    <3>2. CASE bwrite(p)
      <4>1. buf' = [buf EXCEPT ![b[p]].dirty = TRUE]
        BY <3>2 DEF bwrite
      <4> QED
        BY <2>1, <4>1, Types DEF BufStates
    <3> QED
      BY <1>2, <3>1, <3>2
  <2>3. UNCHANGED disk
    BY <1>2 DEF brelse, bwrite
  <2> QED
    BY <2>2, <2>3 DEF Shows
<1>3. acquiresleep(p) \/ releasesleep(p) \/ iderw(p) => UNCHANGED <<buf, disk>>
  BY DEF acquiresleep, releasesleep, iderw
<1> QED
  BY <1>1, <1>2, <1>3 DEF Step

(* A process changes the block whose buffer it holds.                      *)
LEMMA ChangeShows ==
    ASSUME BioInv, NEW p \in Procs, Change(p), NEW blk, NEW v,
           Shows(buf, disk, blk, v), ~Shows(buf', disk', blk, v)
    PROVE  pc[p] = "holds" /\ buf[b[p]].block = blk
<1>1. PICK w \in Values :
        /\ pc[p] = "holds" /\ UNCHANGED disk
        /\ buf' = [buf EXCEPT ![b[p]].data = w, ![b[p]].dirty = TRUE]
  BY DEF Change
<1>2. Placed(p)
  BY DEF BioInv, UsersPlaced
<1>3. PICK k \in Buf : k = b[p]
  BY <1>1, <1>2, Types DEF Placed
<1>4. \A j \in Buf : buf[j] \in BufStates
  BY Types
<1>5. /\ \A j \in Buf : j # k => buf'[j] = buf[j]
      /\ buf'[k].block = buf[k].block /\ buf'[k].valid = buf[k].valid
  BY <1>1, <1>3, <1>4, Types DEF BufStates
<1>6. ASSUME buf[k].block # blk PROVE Shows(buf', disk', blk, v)
  BY <1>1, <1>5, <1>6 DEF Shows
<1> QED
  BY <1>1, <1>3, <1>6

(* The cache is transparent: recycling a buffer, reading a block in,       *)
(* writing it back and releasing it change no block, unless its read has   *)
(* failed; only a process that holds its buffer does.                      *)
THEOREM CacheCorrect ==
    ASSUME BioConstants
    PROVE  Spec => CacheTransparent
<1>1. ASSUME BioInv, BioInv', [Next]_bvars PROVE [OnlyHoldersChange]_bvars
  <2> SUFFICES ASSUME Next, NEW blk \in Blocks \ bad', Contents(blk)' # Contents(blk)
               PROVE  \E p \in Procs : pc[p] = "holds" /\ buf[b[p]].block = blk
    BY <1>1 DEF OnlyHoldersChange
  <2>1. PICK v : v = Contents(blk)
    OBVIOUS
  <2>2. blk # None
    BY NoneOutside
  <2>3. Shows(buf, disk, blk, v)
    BY <1>1, <2>1, <2>2, ContentsShown DEF BioInv
  <2>4. ~Shows(buf', disk', blk, v)
    BY <1>1, <2>1, <2>2, ContentsShownNext DEF BioInv
  <2>5. \E p \in Procs : Change(p)
    BY <1>1, <2>3, <2>4, BgetShows, QuietShows, DriverShows DEF Next
  <2> QED
    BY <1>1, <2>3, <2>4, <2>5, ChangeShows
<1>2. BioInv /\ BioInv' /\ [Next]_bvars => [OnlyHoldersChange]_bvars
  BY <1>1
<1> QED
  BY <1>2, BioCorrect, PTL DEF Spec, CacheTransparent
=============================================================================
