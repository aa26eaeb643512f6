---------------------------- MODULE SyncLogProofs ---------------------------
(***************************************************************************)
(* Theorems about the group-commit log of project 3, for every number of   *)
(* processes, every set of blocks and contents and every number of         *)
(* buffers, through any number of crashes.                                 *)
(*                                                                         *)
(* Some hold of every behaviour: recovery, cut short or not, yields what   *)
(* the crash left; a buffer that bget recycles holds nothing the disk does *)
(* not; nobody sleeps on &log with no commit to wake it.  The others hold  *)
(* of the behaviours in which the log keeps its promises, and say so: that *)
(* commits do not overlap (OneCommit), or that no other call is under way  *)
(* while one runs (CommitsAlone).  The code breaks both, since sync1 waits *)
(* for no call and bget's sync1(0) not even for another commit; the        *)
(* theorems show that nothing else goes wrong.                             *)
(***************************************************************************)
EXTENDS SyncLog, SequenceTheorems, TLAPS

(* Where a commit is under way.                                            *)
Busy == CommitPoints \ {"synced"}

InstallPoints == {"inst_from", "inst_to", "clear_head", "erase_head"}

(* log.c: "in commit(), please wait".  No commit starts inside another.    *)
OneCommit == \A p, q \in Caller : pc[p] \in Busy /\ pc[q] \in Busy => p = q

(* log.c: the log "only commits when there are no FS system calls active"  *)
(* besides the one that forced the commit.                                 *)
CommitsAlone == \A p \in Caller : pc[p] \in Busy => Undisturbed(p)

IsFcn(f, S) == f = [x \in S |-> f[x]]

(* The log blocks hold what system calls see in the blocks they stand for. *)
Copied(n) == \A i \in 1..n : logdata[i] = Contents(lh[i])

(* The first n blocks of the header are in their places on disk.           *)
Installed(n) == \A i \in 1..n : disk[hdr[i]] = logdata[i]

(* The shape of the state; no block is in the log twice, and whoever is    *)
(* about to log a block has it locked.                                     *)
Shape ==
    /\ IsFcn(disk, Home) /\ IsFcn(buf, Home) /\ IsFcn(logdata, LogSlot)
    /\ hdr \in Seq(Home) /\ lh \in Seq(Home)
    /\ IsInjective(hdr) /\ IsInjective(lh)
    /\ pc \in [Caller -> CallerPoints] /\ tail \in [Caller -> Nat \ {0}]
    /\ IsFcn(want, Caller) /\ IsFcn(held, Caller) /\ IsFcn(home, Caller)
    /\ IsFcn(forced, Caller)
    /\ mode \in {"up", "install"}
    /\ \A p \in Caller : pc[p] = "log_write" => want[p] \in Home /\ want[p] \in held[p]

(* A buffer that is neither pinned nor being changed agrees with the disk. *)
CleanBuffers ==
    Up => \A b \in Home :
            b \notin dirty /\ (\A p \in Caller : pc[p] = "log_write" => want[p] # b)
                => buf[b] = None \/ buf[b] = disk[b]

(* How far the recovery has come: lh is what it has still to install.      *)
Recovery ==
    mode = "install" =>
        /\ fault = "none" /\ dirty = {} /\ \A b \in Home : buf[b] = None
        /\ \A p \in Caller : pc[p] = "out"
        /\ Len(lh) <= Len(hdr)
        /\ \A i \in 1..Len(lh) : lh[i] = hdr[Len(hdr) - Len(lh) + i]
        /\ Installed(Len(hdr) - Len(lh))

CacheInv == Shape /\ CleanBuffers /\ Recovery

(* log.committing is up exactly while a commit is under way.               *)
Flags ==
    /\ committing <=> \E p \in Caller : pc[p] \in Busy
    /\ \A p \in Caller : forced[p] => pc[p] \in CommitPoints
    /\ CommitFlagged

(* How far the copying of p's commit has come.                             *)
CopyState(p) ==
    /\ pc[p] \in {"log_from", "inst_to"} =>
         tail[p] \in LogSlot /\ tail[p] <= Len(lh) /\ home[p] = lh[tail[p]]
    /\ Undisturbed(p) =>
         /\ pc[p] \in {"log_to", "log_from"} =>
              tail[p] <= Len(lh) + 1 /\ Copied(tail[p] - 1)
         /\ pc[p] \in {"write_head", "inst_from", "inst_to"} => Copied(Len(lh))

Copying == Up => \A p \in Caller : CopyState(p)

CommitInv == Flags /\ Copying

(* The header on disk is empty, or that of the commit being installed; the *)
(* pinned buffers are those of the blocks still to install.                *)
Installing(p) ==
    /\ pc[p] = "write_head" => tail[p] = 1
    /\ pc[p] \in {"inst_from", "inst_to"} =>
         /\ hdr = lh /\ tail[p] <= Len(lh) + 1 /\ Installed(tail[p] - 1)
         /\ dirty = {lh[i] : i \in tail[p]..Len(lh)}
    /\ pc[p] = "clear_head" => hdr = lh /\ Installed(Len(hdr)) /\ dirty = {}
    /\ pc[p] = "erase_head" => lh = <<>> /\ Installed(Len(hdr)) /\ dirty = {}
    /\ pc[p] = "finish" => lh = <<>>

LogExact ==
    Up =>
        /\ (\A p \in Caller : pc[p] \notin InstallPoints) => hdr = <<>> /\ dirty = Range(lh)
        /\ \A p \in Caller : Installing(p)

----------------------------------------------------------------------------
(* What a step of one caller does to the others.                           *)

Asleep == {"bsleep", "esleep", "ssleep"}

OthersKept(p) ==
    \A r \in Caller \ {p} :
        /\ tail'[r] = tail[r] /\ home'[r] = home[r] /\ want'[r] = want[r]
        /\ held'[r] = held[r] /\ forced'[r] = forced[r]
        /\ pc'[r] = pc[r] \/ (pc[r] \in Asleep /\ pc'[r] = WokenPoint(pc[r]))

(* A function that changed at a at most.                                   *)
LEMMA FcnKept ==
    ASSUME NEW f, NEW S, IsFcn(f, S), NEW a, NEW g, g = f \/ \E v : g = [f EXCEPT ![a] = v]
    PROVE  IsFcn(g, S) /\ \A x \in S \ {a} : g[x] = f[x]
<1>1. CASE g = f
  BY <1>1
<1>2. ASSUME NEW v, g = [f EXCEPT ![a] = v] PROVE IsFcn(g, S) /\ \A x \in S \ {a} : g[x] = f[x]
  <2>1. DOMAIN f = S
    BY DEF IsFcn
  <2>2. g = [x \in S |-> IF x = a THEN v ELSE f[x]]
    BY <1>2, <2>1
  <2> QED
    BY <2>2 DEF IsFcn
<1> QED
  BY <1>1, <1>2

(* A caller that moves to a point leaves the others where they are.        *)
LEMMA GotoOthers ==
    ASSUME NEW p \in Caller, NEW point, pc \in [Caller -> CallerPoints], Goto(p, point),
           point \in CallerPoints
    PROVE  /\ pc' \in [Caller -> CallerPoints] /\ pc'[p] = point
           /\ \A r \in Caller \ {p} : pc'[r] = pc[r]
BY DEF Goto

(* wakeup(&log) moves the callers that sleep.                              *)
LEMMA WakeupOthers ==
    ASSUME NEW p \in Caller, NEW point, pc \in [Caller -> CallerPoints],
           WakeupAll(p, point), point \in CallerPoints
    PROVE  /\ pc' \in [Caller -> CallerPoints] /\ pc'[p] = point
           /\ \A r \in Caller \ {p} :
                pc'[r] = pc[r] \/ (pc[r] \in Asleep /\ pc'[r] = WokenPoint(pc[r]))
<1>1. \A c \in CallerPoints :
        /\ WokenPoint(c) \in CallerPoints
        /\ c \notin Asleep => WokenPoint(c) = c
  BY DEF WokenPoint, Asleep, CallerPoints, BgetPoints, CommitPoints
<1> QED
  BY <1>1 DEF WakeupAll

----------------------------------------------------------------------------
(* What every behaviour keeps: the cache agrees with the disk.             *)

(* A step that leaves the disk, the cache and the log alone and neither    *)
(* begins nor ends a log_write.                                            *)
QuietStep(p) ==
    /\ UNCHANGED <<disk, logdata, hdr, buf, dirty, lh, mode>>
    /\ OthersKept(p)
    /\ pc' \in [Caller -> CallerPoints] /\ tail' \in [Caller -> Nat \ {0}]
    /\ IsFcn(want', Caller) /\ IsFcn(held', Caller) /\ IsFcn(home', Caller)
    /\ IsFcn(forced', Caller)
    /\ pc[p] # "log_write" /\ pc'[p] # "log_write"

(* No sleeper is woken into a log_write.                                   *)
LEMMA OthersLogging ==
    ASSUME NEW p \in Caller, OthersKept(p), NEW r \in Caller \ {p}
    PROVE  pc'[r] = "log_write" <=> pc[r] = "log_write"
<1>1. pc[r] \in Asleep => pc[r] # "log_write" /\ WokenPoint(pc[r]) # "log_write"
  BY DEF Asleep, WokenPoint
<1> QED
  BY <1>1 DEF OthersKept

(* A quiet step keeps the cache.                                           *)
LEMMA QuietCache ==
    ASSUME NEW p \in Caller, CacheInv, Up, QuietStep(p)
    PROVE  CacheInv'
<1>1. \A r \in Caller : pc'[r] = "log_write" => pc[r] = "log_write" /\ r # p
  BY OthersLogging DEF QuietStep
<1>2. \A r \in Caller : pc[r] = "log_write" => pc'[r] = "log_write" /\ r # p
  BY OthersLogging DEF QuietStep
<1>3. \A r \in Caller \ {p} : want'[r] = want[r] /\ held'[r] = held[r]
  BY DEF QuietStep, OthersKept
<1>4. Shape'
  <2>1. \A r \in Caller : pc'[r] = "log_write" => want'[r] \in Home /\ want'[r] \in held'[r]
    BY <1>1, <1>3 DEF CacheInv, Shape
  <2> QED
    BY <2>1 DEF CacheInv, Shape, QuietStep
<1>5. CleanBuffers'
  <2>1. \A b : (\A r \in Caller : pc'[r] = "log_write" => want'[r] # b)
               => (\A r \in Caller : pc[r] = "log_write" => want[r] # b)
    BY <1>2, <1>3
  <2> QED
    BY <2>1 DEF CacheInv, CleanBuffers, QuietStep, Up
<1>6. Recovery'
  BY DEF Recovery, QuietStep, Up
<1> QED
  BY <1>4, <1>5, <1>6 DEF CacheInv

(* The steps of system calls that change no block.                         *)
LEMMA QuietCalls ==
    ASSUME NEW p \in Caller, CacheInv,
           \/ Start(p) \/ begin_op(p) \/ end_op(p) \/ sys_sync(p) \/ sync1(p) \/ Return(p)
    PROVE  Up /\ QuietStep(p)
<1> USE DEF CacheInv, Shape
<1>1. Up /\ pc[p] # "log_write" /\ UNCHANGED <<disk, logdata, hdr, buf, dirty, lh, mode>>
  BY DEF Start, begin_op, end_op, sys_sync, sync1, Return, At, onDisk, cache, logVars
<1>2. UNCHANGED <<want, held, home, tail>>
  BY DEF Start, begin_op, end_op, sys_sync, sync1, Return
<1>3. forced' = forced \/ \E v : forced' = [forced EXCEPT ![p] = v]
  BY DEF Start, begin_op, end_op, sys_sync, sync1, Return
<1>4. IsFcn(forced', Caller) /\ \A r \in Caller \ {p} : forced'[r] = forced[r]
  <2>1. IsFcn(forced, Caller)
    OBVIOUS
  <2> HIDE DEF CacheInv, Shape
  <2> QED
    BY <1>3, <2>1, FcnKept
<1>5. \/ \E point \in CallerPoints \ {"log_write"} : Goto(p, point)
      \/ WakeupAll(p, "out")
  <2>1. {"begin", "bsleep", "op", "esleep", "sync1", "ssleep", "commit", "find", "out"}
            \subseteq CallerPoints \ {"log_write"}
    BY DEF CallerPoints, BgetPoints, CommitPoints
  <2> QED
    BY <2>1 DEF Start, begin_op, end_op, sys_sync, sync1, Return
<1>6. /\ pc' \in [Caller -> CallerPoints] /\ pc'[p] # "log_write"
      /\ \A r \in Caller \ {p} :
            pc'[r] = pc[r] \/ (pc[r] \in Asleep /\ pc'[r] = WokenPoint(pc[r]))
  <2>1. "out" \in CallerPoints
    BY DEF CallerPoints
  <2> QED
    BY <1>5, <2>1, GotoOthers, WakeupOthers
<1> QED
  BY <1>1, <1>2, <1>4, <1>6 DEF QuietStep, OthersKept

(* The steps of bread and brelse that change no block.                     *)
LEMMA QuietBread ==
    ASSUME NEW p \in Caller, CacheInv,
           \/ bget(p) \/ ForceSync(p) \/ acquiresleep(p)
           \/ \E b \in Home : bread(p, b) \/ brelse(p, b)
    PROVE  Up /\ QuietStep(p)
<1> USE DEF CacheInv, Shape
<1>1. Up /\ pc[p] # "log_write" /\ UNCHANGED <<disk, logdata, hdr, buf, dirty, lh, mode>>
  BY DEF bget, ForceSync, acquiresleep, bread, brelse, At, onDisk, cache, logVars
<1>2. UNCHANGED <<home, tail>>
  BY DEF bget, ForceSync, acquiresleep, bread, brelse
<1>3. /\ forced' = forced \/ \E v : forced' = [forced EXCEPT ![p] = v]
      /\ want' = want \/ \E v : want' = [want EXCEPT ![p] = v]
      /\ held' = held \/ \E v : held' = [held EXCEPT ![p] = v]
  BY DEF bget, ForceSync, acquiresleep, bread, brelse
<1>4. /\ IsFcn(forced', Caller) /\ \A r \in Caller \ {p} : forced'[r] = forced[r]
      /\ IsFcn(want', Caller) /\ \A r \in Caller \ {p} : want'[r] = want[r]
      /\ IsFcn(held', Caller) /\ \A r \in Caller \ {p} : held'[r] = held[r]
  <2>1. IsFcn(forced', Caller) /\ \A r \in Caller \ {p} : forced'[r] = forced[r]
    <3>1. IsFcn(forced, Caller)
      OBVIOUS
    <3> HIDE DEF CacheInv, Shape
    <3> QED
      BY <1>3, <3>1, FcnKept
  <2>2. IsFcn(want', Caller) /\ \A r \in Caller \ {p} : want'[r] = want[r]
    <3>1. IsFcn(want, Caller)
      OBVIOUS
    <3> HIDE DEF CacheInv, Shape
    <3> QED
      BY <1>3, <3>1, FcnKept
  <2>3. IsFcn(held', Caller) /\ \A r \in Caller \ {p} : held'[r] = held[r]
    <3>1. IsFcn(held, Caller)
      OBVIOUS
    <3> HIDE DEF CacheInv, Shape
    <3> QED
      BY <1>3, <3>1, FcnKept
  <2> QED
    BY <2>1, <2>2, <2>3
<1>5. pc' = pc \/ \E point \in CallerPoints \ {"log_write"} : Goto(p, point)
  <2>1. {"bget", "force", "find", "op", "commit"} \subseteq CallerPoints \ {"log_write"}
    BY DEF CallerPoints, BgetPoints, CommitPoints
  <2> QED
    BY <2>1 DEF bget, ForceSync, acquiresleep, bread, brelse
<1>6. /\ pc' \in [Caller -> CallerPoints] /\ pc'[p] # "log_write"
      /\ \A r \in Caller \ {p} : pc'[r] = pc[r]
  BY <1>1, <1>5, GotoOthers
<1> QED
  BY <1>1, <1>2, <1>4, <1>6 DEF QuietStep, OthersKept

(* The steps of commit that change no block.                               *)
LEMMA QuietCommit ==
    ASSUME NEW p \in Caller, CacheInv,
           commit(p) \/ LogTo(p) \/ InstFrom(p) \/ Finish(p)
    PROVE  Up /\ QuietStep(p)
<1> USE DEF CacheInv, Shape
<1>1. Up /\ pc[p] # "log_write" /\ UNCHANGED <<disk, logdata, hdr, buf, dirty, lh, mode>>
  BY DEF commit, LogTo, InstFrom, NextSlot, Finish, At, onDisk, cache, logVars
<1>2. UNCHANGED <<want, held, forced>>
  BY DEF commit, LogTo, InstFrom, NextSlot, Finish
<1>3. /\ tail' = tail \/ tail' = [tail EXCEPT ![p] = 1]
      /\ home' = home \/ \E v : home' = [home EXCEPT ![p] = v]
  BY DEF commit, LogTo, InstFrom, NextSlot, Finish
<1>4. /\ tail' \in [Caller -> Nat \ {0}] /\ \A r \in Caller \ {p} : tail'[r] = tail[r]
      /\ IsFcn(home', Caller) /\ \A r \in Caller \ {p} : home'[r] = home[r]
  <2>1. tail' \in [Caller -> Nat \ {0}] /\ \A r \in Caller \ {p} : tail'[r] = tail[r]
    BY <1>3
  <2>2. IsFcn(home', Caller) /\ \A r \in Caller \ {p} : home'[r] = home[r]
    <3>1. IsFcn(home, Caller)
      OBVIOUS
    <3> HIDE DEF CacheInv, Shape
    <3> QED
      BY <1>3, <3>1, FcnKept
  <2> QED
    BY <2>1, <2>2
<1>5. \/ pc' = pc \/ \E point \in CallerPoints \ {"log_write"} : Goto(p, point)
      \/ WakeupAll(p, "synced")
  <2>1. {"finish", "log_to", "log_from", "write_head", "inst_to", "clear_head"}
            \subseteq CallerPoints \ {"log_write"}
    BY DEF CallerPoints, BgetPoints, CommitPoints
  <2> QED
    BY <2>1 DEF commit, LogTo, InstFrom, NextSlot, Finish, Wakes
<1>6. /\ pc' \in [Caller -> CallerPoints] /\ pc'[p] # "log_write"
      /\ \A r \in Caller \ {p} :
            pc'[r] = pc[r] \/ (pc[r] \in Asleep /\ pc'[r] = WokenPoint(pc[r]))
  <2>1. "synced" \in CallerPoints
    BY DEF CallerPoints, CommitPoints
  <2> QED
    BY <1>1, <1>5, <2>1, GotoOthers, WakeupOthers
<1> QED
  BY <1>1, <1>2, <1>4, <1>6 DEF QuietStep, OthersKept

(* Appending a block the log does not hold yet.                            *)
LEMMA AppendFresh ==
    ASSUME NEW s \in Seq(Home), IsInjective(s), NEW b \in Home, b \notin Range(s)
    PROVE  IsInjective(Append(s, b)) /\ Range(Append(s, b)) = Range(s) \cup {b}
<1>1. /\ DOMAIN s = 1..Len(s) /\ DOMAIN Append(s, b) = 1..(Len(s) + 1)
      /\ \A i \in 1..Len(s) : Append(s, b)[i] = s[i]
      /\ Append(s, b)[Len(s) + 1] = b
  OBVIOUS
<1>2. \A i \in 1..Len(s) : s[i] # b
  BY <1>1 DEF Range
<1>3. IsInjective(Append(s, b))
  <2>1. \A i, j \in 1..Len(s) : s[i] = s[j] => i = j
    BY <1>1 DEF IsInjective
  <2>2. ASSUME NEW i \in 1..(Len(s) + 1), NEW j \in 1..(Len(s) + 1),
               Append(s, b)[i] = Append(s, b)[j]
        PROVE  i = j
    <3>1. Len(s) \in Nat
      OBVIOUS
    <3>2. (i \in 1..Len(s) \/ i = Len(s) + 1) /\ (j \in 1..Len(s) \/ j = Len(s) + 1)
      BY <3>1
    <3> QED
      BY <1>1, <1>2, <2>1, <2>2, <3>2
  <2> QED
    BY <1>1, <2>2 DEF IsInjective
<1>4. \A x : x \in Range(Append(s, b)) <=> x \in Range(s) \/ x = b
  <2>1. \A x : x \in Range(Append(s, b)) <=> \E i \in 1..(Len(s) + 1) : x = Append(s, b)[i]
    BY <1>1, Zenon DEF Range
  <2>2. \A x : x \in Range(s) <=> \E i \in 1..Len(s) : x = s[i]
    BY <1>1, Zenon DEF Range
  <2>3. Len(s) \in Nat
    OBVIOUS
  <2>4. \A i : i \in 1..(Len(s) + 1) <=> i \in 1..Len(s) \/ i = Len(s) + 1
    BY <2>3
  <2>5. ASSUME NEW x, x \in Range(Append(s, b)) PROVE x \in Range(s) \/ x = b
    <3>1. PICK i \in 1..(Len(s) + 1) : x = Append(s, b)[i]
      BY <2>1, <2>5
    <3> QED
      BY <1>1, <2>2, <2>4, <3>1
  <2>6. ASSUME NEW x, x \in Range(s) PROVE x \in Range(Append(s, b))
    <3>1. PICK i \in 1..Len(s) : x = s[i]
      BY <2>2, <2>6
    <3> QED
      BY <1>1, <2>1, <2>4, <3>1
  <2>7. b \in Range(Append(s, b))
    BY <1>1, <2>1, <2>4
  <2> QED
    BY <2>5, <2>6, <2>7
<1> QED
  BY <1>3, <1>4

(* bget finds a buffer, and fills it from the disk if it was not there.    *)
LEMMA FindCache ==
    ASSUME NEW p \in Caller, CacheInv, Find(p)
    PROVE  CacheInv' /\ OthersKept(p)
<1>1. /\ Up /\ pc[p] = "find"
      /\ UNCHANGED <<disk, logdata, hdr, dirty, lh, mode, want, held, tail, home, forced>>
  BY DEF Find, At, onDisk, logVars
<1>2. CASE pc' = pc /\ buf' = buf /\ fault' = "bget: no buffers"
  <2>1. Shape'
    BY <1>1, <1>2 DEF CacheInv, Shape
  <2>2. CleanBuffers' /\ Recovery'
    BY <1>1, <1>2 DEF CleanBuffers, Recovery, Up
  <2> QED
    BY <1>1, <1>2, <2>1, <2>2 DEF CacheInv, OthersKept
<1>3. CASE Goto(p, "lock") /\ buf' = [buf EXCEPT ![want[p]] = Contents(want[p])]
  <2>1. /\ pc' \in [Caller -> CallerPoints] /\ pc'[p] = "lock"
        /\ \A r \in Caller \ {p} : pc'[r] = pc[r]
    <3>1. pc \in [Caller -> CallerPoints] /\ "lock" \in CallerPoints
      BY DEF CacheInv, Shape, CallerPoints, BgetPoints
    <3> QED
      BY <1>3, <3>1, GotoOthers
  <2>2. /\ IsFcn(buf', Home)
        /\ \A b \in Home : buf'[b] = buf[b] \/ buf'[b] = Contents(b)
    <3>1. IsFcn(buf, Home)
      BY DEF CacheInv, Shape
    <3> QED
      BY <1>3, <3>1 DEF IsFcn
  <2>3. \A r \in Caller : pc'[r] = "log_write" <=> pc[r] = "log_write"
    BY <1>1, <2>1
  <2>4. Shape'
    BY <1>1, <2>1, <2>2, <2>3 DEF CacheInv, Shape
  <2>5. CleanBuffers'
    BY <1>1, <2>2, <2>3 DEF CacheInv, CleanBuffers, Contents
  <2>6. Recovery'
    BY <1>1 DEF Recovery, Up
  <2> QED
    BY <1>1, <2>1, <2>4, <2>5, <2>6 DEF CacheInv, OthersKept
<1> QED
  BY <1>1, <1>2, <1>3 DEF Find

(* The buffer of another block is taken.                                   *)
LEMMA RecycleCache ==
    ASSUME NEW b \in Home, CacheInv, Recycle(b)
    PROVE  CacheInv' /\ buf[b] = disk[b] /\ \A a \in Home : Contents(a)' = Contents(a)
<1>1. /\ Up /\ buf[b] # None /\ b \notin dirty /\ Users(b) = {}
      /\ buf' = [buf EXCEPT ![b] = None]
      /\ UNCHANGED <<disk, logdata, hdr, dirty, lh, mode, want, held, tail, home, forced, pc,
                     fault>>
  BY DEF Recycle, onDisk, logVars, callerVars
<1>2. /\ IsFcn(buf', Home)
      /\ \A a \in Home : buf'[a] = IF a = b THEN None ELSE buf[a]
  <2>1. IsFcn(buf, Home)
    BY DEF CacheInv, Shape
  <2> QED
    BY <1>1, <2>1 DEF IsFcn
<1>3. buf[b] = disk[b]
  <2>1. \A p \in Caller : pc[p] = "log_write" => want[p] # b
    BY <1>1 DEF Users, CacheInv, Shape
  <2> QED
    BY <1>1, <2>1 DEF CacheInv, CleanBuffers
<1>4. Shape'
  BY <1>1, <1>2 DEF CacheInv, Shape
<1>5. CleanBuffers'
  BY <1>1, <1>2 DEF CacheInv, CleanBuffers, Up
<1>6. Recovery'
  BY <1>1 DEF Recovery, Up
<1>7. \A a \in Home : Contents(a)' = Contents(a)
  BY <1>1, <1>2, <1>3 DEF Contents
<1> QED
  BY <1>3, <1>4, <1>5, <1>6, <1>7 DEF CacheInv

(* A caller changes a buffer it has locked.                                *)
LEMMA ModifyCache ==
    ASSUME NEW p \in Caller, NEW b \in Home, NEW v \in Val, CacheInv, Modify(p, b, v)
    PROVE  CacheInv' /\ OthersKept(p)
<1>1. /\ Up /\ pc[p] = "op" /\ b \in held[p]
      /\ buf' = [buf EXCEPT ![b] = v] /\ want' = [want EXCEPT ![p] = b]
      /\ UNCHANGED <<disk, logdata, hdr, dirty, lh, mode, held, tail, home, forced>>
  BY DEF Modify, At, onDisk, logVars
<1>2. /\ IsFcn(buf', Home) /\ \A a \in Home : a # b => buf'[a] = buf[a]
      /\ IsFcn(want', Caller) /\ want'[p] = b
      /\ \A r \in Caller \ {p} : want'[r] = want[r]
  <2>1. IsFcn(buf, Home) /\ IsFcn(want, Caller)
    BY DEF CacheInv, Shape
  <2>2. IsFcn(buf', Home) /\ \A a \in Home : a # b => buf'[a] = buf[a]
    BY <1>1, <2>1 DEF IsFcn
  <2>3. IsFcn(want', Caller) /\ \A r \in Caller : want'[r] = IF r = p THEN b ELSE want[r]
    BY <1>1, <2>1 DEF IsFcn
  <2> QED
    BY <2>2, <2>3
<1>3. CASE fault' # "none" /\ pc' = pc
  <2>1. Shape'
    BY <1>1, <1>2, <1>3 DEF CacheInv, Shape
  <2>2. CleanBuffers' /\ Recovery'
    BY <1>1, <1>3 DEF CleanBuffers, Recovery, Up
  <2> QED
    BY <1>1, <1>2, <1>3, <2>1, <2>2 DEF CacheInv, OthersKept
<1>4. CASE Goto(p, "log_write") /\ fault' = fault
  <2>1. /\ pc' \in [Caller -> CallerPoints] /\ pc'[p] = "log_write"
        /\ \A r \in Caller \ {p} : pc'[r] = pc[r]
    <3>1. pc \in [Caller -> CallerPoints] /\ "log_write" \in CallerPoints
      BY DEF CacheInv, Shape, CallerPoints
    <3> QED
      BY <1>4, <3>1, GotoOthers
  <2>2. Shape'
    BY <1>1, <1>2, <2>1 DEF CacheInv, Shape
  <2>3. CleanBuffers'
    <3>1. ASSUME NEW a \in Home, \A r \in Caller : pc'[r] = "log_write" => want'[r] # a
          PROVE  a # b /\ \A r \in Caller : pc[r] = "log_write" => want[r] # a
      BY <1>1, <1>2, <2>1, <3>1
    <3> QED
      BY <1>1, <1>2, <1>4, <3>1 DEF CacheInv, CleanBuffers
  <2>4. Recovery'
    BY <1>1 DEF Recovery, Up
  <2> QED
    BY <1>1, <1>2, <2>1, <2>2, <2>3, <2>4 DEF CacheInv, OthersKept
<1> QED
  BY <1>3, <1>4 DEF Modify

(* log_write pins the block and notes it once.                             *)
LEMMA LogWriteCache ==
    ASSUME NEW p \in Caller, CacheInv, log_write(p)
    PROVE  CacheInv' /\ OthersKept(p)
<1> DEFINE b == want[p]
<1>1. /\ Up /\ pc[p] = "log_write" /\ b \in Home /\ dirty' = dirty \cup {b}
      /\ lh' = IF b \in Range(lh) THEN lh ELSE Append(lh, b)
      /\ want' = [want EXCEPT ![p] = None]
      /\ UNCHANGED <<disk, logdata, hdr, buf, mode, held, tail, home, forced, fault>>
  BY DEF log_write, At, onDisk, Pinned, CacheInv, Shape
<1>2. /\ pc' \in [Caller -> CallerPoints] /\ pc'[p] = "op"
      /\ \A r \in Caller \ {p} : pc'[r] = pc[r]
  <2>1. Goto(p, "op") /\ pc \in [Caller -> CallerPoints] /\ "op" \in CallerPoints
    BY DEF log_write, CacheInv, Shape, CallerPoints
  <2> QED
    BY <2>1, GotoOthers
<1>3. IsFcn(want', Caller) /\ \A r \in Caller \ {p} : want'[r] = want[r]
  <2>1. IsFcn(want, Caller)
    BY DEF CacheInv, Shape
  <2> QED
    BY <1>1, <2>1 DEF IsFcn
<1>4. lh' \in Seq(Home) /\ IsInjective(lh')
  <2>1. lh \in Seq(Home) /\ IsInjective(lh)
    BY DEF CacheInv, Shape
  <2>2. CASE b \in Range(lh)
    BY <1>1, <2>1, <2>2
  <2>3. CASE b \notin Range(lh)
    <3>1. lh' = Append(lh, b)
      BY <1>1, <2>3
    <3>2. Append(lh, b) \in Seq(Home)
      BY <1>1, <2>1
    <3> QED
      BY <1>1, <2>1, <2>3, <3>1, <3>2, AppendFresh
  <2> QED
    BY <2>2, <2>3
<1>5. Shape'
  BY <1>1, <1>2, <1>3, <1>4 DEF CacheInv, Shape
<1>6. CleanBuffers'
  <2>1. ASSUME NEW a \in Home, a \notin dirty',
               \A r \in Caller : pc'[r] = "log_write" => want'[r] # a
        PROVE  a \notin dirty /\ \A r \in Caller : pc[r] = "log_write" => want[r] # a
    BY <1>1, <1>2, <1>3, <2>1
  <2> QED
    BY <1>1, <2>1 DEF CacheInv, CleanBuffers
<1>7. Recovery'
  BY <1>1 DEF Recovery, Up
<1> QED
  BY <1>1, <1>2, <1>3, <1>5, <1>6, <1>7 DEF CacheInv, OthersKept

(* Where the steps of commit that write go on.                             *)
LEMMA CommitMoves ==
    ASSUME NEW p \in Caller, CacheInv, NEW point,
           point \in {"log_to", "inst_from", "erase_head", "finish"}, Goto(p, point)
    PROVE  /\ pc' \in [Caller -> CallerPoints] /\ pc'[p] = point
           /\ \A r \in Caller \ {p} : pc'[r] = pc[r]
           /\ pc[p] # "log_write" =>
                \A r \in Caller : pc'[r] = "log_write" <=> pc[r] = "log_write"
<1>1. pc \in [Caller -> CallerPoints] /\ point \in CallerPoints /\ point # "log_write"
  BY DEF CacheInv, Shape, CallerPoints, CommitPoints
<1> QED
  BY <1>1, GotoOthers

(* write_log copies a block.                                               *)
LEMMA LogFromCache ==
    ASSUME NEW p \in Caller, CacheInv, LogFrom(p)
    PROVE  CacheInv' /\ OthersKept(p)
<1>1. /\ Up /\ pc[p] = "log_from" /\ Goto(p, "log_to")
      /\ logdata' = [logdata EXCEPT ![tail[p]] = Contents(home[p])]
      /\ buf' = [buf EXCEPT ![home[p]] = Contents(home[p])]
      /\ tail' = [tail EXCEPT ![p] = @ + 1] /\ home' = [home EXCEPT ![p] = None]
      /\ UNCHANGED <<disk, hdr, dirty, lh, mode, want, held, forced, fault>>
  BY DEF LogFrom, At, logVars
<1>2. /\ pc' \in [Caller -> CallerPoints]
      /\ \A r \in Caller \ {p} : pc'[r] = pc[r]
      /\ \A r \in Caller : pc'[r] = "log_write" <=> pc[r] = "log_write"
  BY <1>1, CommitMoves
<1>3. /\ IsFcn(disk, Home) /\ IsFcn(buf, Home) /\ IsFcn(logdata, LogSlot)
      /\ IsFcn(home, Caller) /\ tail \in [Caller -> Nat \ {0}]
  BY DEF CacheInv, Shape
<1>4. /\ IsFcn(buf', Home) /\ \A a \in Home : buf'[a] = buf[a] \/ buf'[a] = Contents(a)
  BY <1>1, <1>3 DEF IsFcn
<1>5. IsFcn(logdata', LogSlot)
  BY <1>1, <1>3 DEF IsFcn
<1>6. IsFcn(home', Caller) /\ \A r \in Caller \ {p} : home'[r] = home[r]
  BY <1>1, <1>3 DEF IsFcn
<1>7. tail' \in [Caller -> Nat \ {0}] /\ \A r \in Caller \ {p} : tail'[r] = tail[r]
  BY <1>1, <1>3
<1>8. Shape'
  BY <1>1, <1>2, <1>4, <1>5, <1>6, <1>7 DEF CacheInv, Shape
<1>9. CleanBuffers'
  BY <1>1, <1>2, <1>4 DEF CacheInv, CleanBuffers, Contents
<1>10. Recovery'
  BY <1>1 DEF Recovery, Up
<1> QED
  BY <1>1, <1>2, <1>6, <1>7, <1>8, <1>9, <1>10 DEF CacheInv, OthersKept

(* install_trans puts a block in its place, in the cache and on disk.      *)
LEMMA InstToCache ==
    ASSUME NEW p \in Caller, CacheInv, InstTo(p)
    PROVE  CacheInv' /\ OthersKept(p)
<1> DEFINE b == home[p]
           v == logdata[tail[p]]
<1>1. /\ Up /\ pc[p] = "inst_to" /\ Goto(p, "inst_from")
      /\ disk' = [disk EXCEPT ![b] = v] /\ buf' = [buf EXCEPT ![b] = v]
      /\ dirty' = dirty \ {b}
      /\ tail' = [tail EXCEPT ![p] = @ + 1] /\ home' = [home EXCEPT ![p] = None]
      /\ UNCHANGED <<logdata, hdr, lh, mode, want, held, forced, fault>>
  BY DEF InstTo, At, logVars
<1>2. /\ pc' \in [Caller -> CallerPoints]
      /\ \A r \in Caller \ {p} : pc'[r] = pc[r]
      /\ \A r \in Caller : pc'[r] = "log_write" <=> pc[r] = "log_write"
  BY <1>1, CommitMoves
<1>3. /\ IsFcn(disk, Home) /\ IsFcn(buf, Home)
      /\ IsFcn(home, Caller) /\ tail \in [Caller -> Nat \ {0}]
  BY DEF CacheInv, Shape
<1>4. IsFcn(buf', Home) /\ \A a \in Home : buf'[a] = IF a = b THEN v ELSE buf[a]
  BY <1>1, <1>3 DEF IsFcn
<1>5. IsFcn(disk', Home) /\ \A a \in Home : disk'[a] = IF a = b THEN v ELSE disk[a]
  BY <1>1, <1>3 DEF IsFcn
<1>6. IsFcn(home', Caller) /\ \A r \in Caller \ {p} : home'[r] = home[r]
  BY <1>1, <1>3 DEF IsFcn
<1>7. tail' \in [Caller -> Nat \ {0}] /\ \A r \in Caller \ {p} : tail'[r] = tail[r]
  BY <1>1, <1>3
<1>8. Shape'
  BY <1>1, <1>2, <1>4, <1>5, <1>6, <1>7 DEF CacheInv, Shape
<1>9. CleanBuffers'
  BY <1>1, <1>2, <1>4, <1>5 DEF CacheInv, CleanBuffers
<1>10. Recovery'
  BY <1>1 DEF Recovery, Up
<1> QED
  BY <1>1, <1>2, <1>6, <1>7, <1>8, <1>9, <1>10 DEF CacheInv, OthersKept

(* The header is written, in memory or on disk.                            *)
LEMMA HeadCache ==
    ASSUME NEW p \in Caller, CacheInv, write_head(p) \/ clear_head(p) \/ erase_head(p)
    PROVE  CacheInv' /\ OthersKept(p)
<1>1. /\ Up /\ pc[p] # "log_write"
      /\ \E point \in {"inst_from", "erase_head", "finish"} : Goto(p, point)
      /\ hdr' \in {hdr, lh} /\ lh' \in {lh, <<>>}
      /\ UNCHANGED <<disk, logdata, buf, dirty, mode, want, held, tail, home, forced>>
  BY DEF write_head, clear_head, erase_head, HeadWritten, At, onDisk, cache, logVars
<1>2. /\ pc' \in [Caller -> CallerPoints]
      /\ \A r \in Caller \ {p} : pc'[r] = pc[r]
      /\ \A r \in Caller : pc'[r] = "log_write" <=> pc[r] = "log_write"
  BY <1>1, CommitMoves
<1>3. hdr' \in Seq(Home) /\ lh' \in Seq(Home) /\ IsInjective(hdr') /\ IsInjective(lh')
  <2>1. <<>> \in Seq(Home) /\ IsInjective(<<>>)
    BY DEF IsInjective
  <2> QED
    BY <1>1, <2>1 DEF CacheInv, Shape
<1>4. Shape'
  BY <1>1, <1>2, <1>3 DEF CacheInv, Shape
<1>5. CleanBuffers'
  BY <1>1, <1>2 DEF CacheInv, CleanBuffers, Up
<1>6. Recovery'
  BY <1>1 DEF Recovery, Up
<1> QED
  BY <1>1, <1>2, <1>4, <1>5, <1>6 DEF CacheInv, OthersKept

(* A crash loses the memory and starts the recovery with the header.       *)
LEMMA CrashCache ==
    ASSUME CacheInv, Crash
    PROVE  CacheInv'
<1>1. /\ UNCHANGED <<disk, logdata, hdr>> /\ lh' = hdr /\ dirty' = {}
      /\ mode' = "install" /\ fault' = "none"
  BY DEF Crash, onDisk
<1>2. /\ buf' = [b \in Home |-> None] /\ pc' = [r \in Caller |-> "out"]
      /\ want' = [r \in Caller |-> None] /\ held' = [r \in Caller |-> {}]
      /\ tail' = [r \in Caller |-> 1] /\ home' = [r \in Caller |-> None]
      /\ forced' = [r \in Caller |-> FALSE]
  BY DEF Crash
<1>3. Shape'
  <2>1. /\ IsFcn(buf', Home) /\ IsFcn(want', Caller) /\ IsFcn(held', Caller)
        /\ IsFcn(home', Caller)
    BY <1>2 DEF IsFcn
  <2>2. IsFcn(forced', Caller)
    BY <1>2, Zenon DEF IsFcn
  <2>3. pc' \in [Caller -> CallerPoints] /\ \A r \in Caller : pc'[r] = "out"
    BY <1>2 DEF CallerPoints
  <2>4. tail' \in [Caller -> Nat \ {0}]
    BY <1>2
  <2> QED
    BY <1>1, <2>1, <2>2, <2>3, <2>4 DEF CacheInv, Shape
<1>4. CleanBuffers'
  BY <1>1 DEF CleanBuffers, Up
<1>5. Recovery'
  <2>1. Len(hdr) \in Nat
    BY DEF CacheInv, Shape
  <2>2. /\ Len(lh') <= Len(hdr') /\ Len(hdr') - Len(lh') = 0
        /\ \A i \in 1..Len(lh') : lh'[i] = hdr'[Len(hdr') - Len(lh') + i]
    BY <1>1, <2>1
  <2>3. Installed(Len(hdr) - Len(lh))'
    BY <2>2 DEF Installed
  <2>4. \A b \in Home : buf'[b] = None
    BY <1>2
  <2>5. \A r \in Caller : pc'[r] = "out"
    BY <1>2
  <2> QED
    BY <1>1, <2>2, <2>3, <2>4, <2>5 DEF Recovery
<1> QED
  BY <1>3, <1>4, <1>5 DEF CacheInv

(* Recovery installs the next block of the log.                            *)
LEMMA RecoverInstallCache ==
    ASSUME CacheInv, RecoverInstall
    PROVE  /\ CacheInv'
           /\ \A b \in Home : (\A i \in 1..Len(hdr) : hdr[i] # b) => disk'[b] = disk[b]
<1> DEFINE n == Len(hdr) - Len(lh) + 1
<1>1. mode = "install" /\ lh # <<>> /\ lh' = Tail(lh)
  BY DEF RecoverInstall
<1>2. disk' = [disk EXCEPT ![Head(lh)] = logdata[n]]
  BY DEF RecoverInstall
<1>3. UNCHANGED <<logdata, hdr, buf, dirty, mode, fault, pc, tail, home, want, held, forced>>
  BY DEF RecoverInstall, cache, callerVars
<1>4. /\ lh \in Seq(Home) /\ hdr \in Seq(Home) /\ Len(lh) \in Nat \ {0} /\ Len(hdr) \in Nat
      /\ IsInjective(hdr) /\ IsInjective(lh)
  BY <1>1 DEF CacheInv, Shape
<1>5. /\ Head(lh) = lh[1] /\ lh' \in Seq(Home) /\ Len(lh') = Len(lh) - 1
      /\ \A i \in 1..Len(lh') : lh'[i] = lh[i + 1]
  BY <1>1, <1>4
<1>6. /\ Len(lh) <= Len(hdr)
      /\ \A i \in 1..Len(lh) : lh[i] = hdr[Len(hdr) - Len(lh) + i]
      /\ Installed(Len(hdr) - Len(lh))
  BY <1>1 DEF CacheInv, Recovery
<1>7. n \in 1..Len(hdr) /\ Head(lh) = hdr[n] /\ hdr[n] \in Home
  BY <1>4, <1>5, <1>6
<1>8. /\ \A b \in Home : b # hdr[n] => disk'[b] = disk[b]
      /\ disk'[hdr[n]] = logdata[n] /\ IsFcn(disk', Home)
  <2>1. IsFcn(disk, Home)
    BY DEF CacheInv, Shape
  <2> QED
    BY <1>2, <1>7, <2>1 DEF IsFcn
<1>9. IsInjective(lh')
  <2>1. \A i, j \in 1..Len(lh) : lh[i] = lh[j] => i = j
    BY <1>4 DEF IsInjective
  <2>2. ASSUME NEW i \in 1..Len(lh'), NEW j \in 1..Len(lh'), lh'[i] = lh'[j] PROVE i = j
    <3>1. i + 1 \in 1..Len(lh) /\ j + 1 \in 1..Len(lh)
      BY <1>4, <1>5
    <3>2. lh[i + 1] = lh[j + 1]
      BY <1>5, <2>2
    <3>3. i + 1 = j + 1
      BY <2>1, <3>1, <3>2
    <3> QED
      BY <3>3
  <2>3. DOMAIN lh' = 1..Len(lh')
    BY <1>5
  <2> QED
    BY <2>2, <2>3 DEF IsInjective
<1>10. Shape'
  BY <1>3, <1>5, <1>8, <1>9 DEF CacheInv, Shape
<1>11. CleanBuffers'
  BY <1>1, <1>3 DEF CleanBuffers, Up
<1>12. Recovery'
  <2>1. Len(lh') <= Len(hdr') /\ Len(hdr') - Len(lh') = n
    BY <1>3, <1>4, <1>5, <1>6
  <2>2. ASSUME NEW i \in 1..Len(lh')
        PROVE  lh'[i] = hdr'[Len(hdr') - Len(lh') + i]
    <3>1. i + 1 \in 1..Len(lh) /\ Len(hdr) - Len(lh) + (i + 1) = n + i
      BY <1>4, <1>5
    <3>2. lh'[i] = lh[i + 1] /\ lh[i + 1] = hdr[Len(hdr) - Len(lh) + (i + 1)]
      BY <1>5, <1>6, <3>1
    <3> QED
      BY <1>3, <2>1, <3>1, <3>2
  <2>3. ASSUME NEW i \in 1..n PROVE disk'[hdr[i]] = logdata[i]
    <3>1. i = n \/ i \in 1..(Len(hdr) - Len(lh))
      BY <1>4
    <3>2. i \in 1..Len(hdr) /\ hdr[i] \in Home
      BY <1>4, <1>7
    <3>3. i # n => hdr[i] # hdr[n]
      <4>1. DOMAIN hdr = 1..Len(hdr)
        BY <1>4
      <4> QED
        BY <1>4, <1>7, <3>2, <4>1 DEF IsInjective
    <3> QED
      BY <1>6, <1>8, <3>1, <3>2, <3>3 DEF Installed
  <2>4. Installed(Len(hdr) - Len(lh))'
    BY <1>3, <2>1, <2>3 DEF Installed
  <2>5. /\ fault' = "none" /\ dirty' = {} /\ \A b \in Home : buf'[b] = None
        /\ \A p \in Caller : pc'[p] = "out"
    BY <1>1, <1>3 DEF CacheInv, Recovery
  <2> QED
    BY <2>1, <2>2, <2>4, <2>5 DEF Recovery
<1>13. \A b \in Home : (\A i \in 1..Len(hdr) : hdr[i] # b) => disk'[b] = disk[b]
  BY <1>7, <1>8
<1> QED
  BY <1>10, <1>11, <1>12, <1>13 DEF CacheInv

(* Recovery clears the header and system calls may run.                    *)
LEMMA RecoverClearCache ==
    ASSUME CacheInv, RecoverClear
    PROVE  CacheInv'
<1>1. /\ mode = "install" /\ hdr' = <<>> /\ mode' = "up"
      /\ UNCHANGED <<disk, logdata, buf, dirty, lh, fault, pc, tail, home, want, held, forced>>
  BY DEF RecoverClear, cache, logVars, callerVars
<1>2. \A b \in Home : buf[b] = None
  BY <1>1 DEF CacheInv, Recovery
<1>3. Shape'
  <2>1. <<>> \in Seq(Home) /\ IsInjective(<<>>)
    BY DEF IsInjective
  <2> QED
    BY <1>1, <2>1 DEF CacheInv, Shape
<1>4. CleanBuffers'
  BY <1>1, <1>2 DEF CleanBuffers
<1>5. Recovery'
  BY <1>1 DEF Recovery
<1> QED
  BY <1>3, <1>4, <1>5 DEF CacheInv

(* The initial states.                                                     *)
LEMMA InitCache == ASSUME Init PROVE CacheInv
<1>1. mode = "up" /\ fault = "none" /\ hdr = <<>> /\ lh = <<>>
  BY DEF Init
<1>2. IsFcn(disk, Home) /\ IsFcn(logdata, LogSlot)
  <2>1. PICK v, w : disk = [b \in Home |-> v] /\ logdata = [i \in LogSlot |-> w]
    BY DEF Init
  <2> QED
    BY <2>1 DEF IsFcn
<1>3. buf = [b \in Home |-> None] /\ IsFcn(buf, Home)
  BY DEF Init, IsFcn
<1>4. IsFcn(want, Caller) /\ IsFcn(held, Caller) /\ IsFcn(home, Caller)
  BY DEF Init, IsFcn
<1>5. IsFcn(forced, Caller)
  BY Zenon DEF Init, IsFcn
<1>6. pc \in [Caller -> CallerPoints] /\ (\A p \in Caller : pc[p] = "out")
  BY DEF Init, CallerPoints
<1>7. tail \in [Caller -> Nat \ {0}]
  BY DEF Init
<1>8. <<>> \in Seq(Home) /\ IsInjective(<<>>)
  BY DEF IsInjective
<1>9. Shape
  BY <1>1, <1>2, <1>3, <1>4, <1>5, <1>6, <1>7, <1>8 DEF Shape
<1>10. CleanBuffers /\ Recovery
  BY <1>1, <1>3 DEF CleanBuffers, Recovery
<1> QED
  BY <1>9, <1>10 DEF CacheInv

(* Every step keeps the invariant.                                         *)
LEMMA NextCache == ASSUME CacheInv, [Next]_vars PROVE CacheInv'
<1>1. CASE UNCHANGED vars
  BY <1>1 DEF CacheInv, Shape, CleanBuffers, Recovery, Installed, Up, vars, onDisk, cache,
     logVars, callerVars
<1>2. ASSUME NEW p \in Caller, Start(p) \/ sys_sync(p) \/ CallerStep(p) PROVE CacheInv'
  <2>1. CASE \/ Start(p) \/ begin_op(p) \/ end_op(p) \/ sys_sync(p) \/ sync1(p) \/ Return(p)
    BY <2>1, QuietCalls, QuietCache
  <2>2. CASE \/ bget(p) \/ ForceSync(p) \/ acquiresleep(p)
             \/ \E b \in Home : bread(p, b) \/ brelse(p, b)
    BY <2>2, QuietBread, QuietCache
  <2>3. CASE commit(p) \/ LogTo(p) \/ InstFrom(p) \/ Finish(p)
    BY <2>3, QuietCommit, QuietCache
  <2>4. CASE Find(p) \/ log_write(p)
    BY <2>4, FindCache, LogWriteCache
  <2>5. CASE LogFrom(p) \/ InstTo(p)
    BY <2>5, LogFromCache, InstToCache
  <2>6. CASE write_head(p) \/ clear_head(p) \/ erase_head(p)
    BY <2>6, HeadCache
  <2> QED
    BY <1>2, <2>1, <2>2, <2>3, <2>4, <2>5, <2>6
       DEF CallerStep, LeaveOp, BgetStep, CommitStep
<1>3. ASSUME NEW p \in Caller, NEW b \in Home,
             bread(p, b) \/ \E v \in Val : Modify(p, b, v)
      PROVE  CacheInv'
  <2>1. CASE bread(p, b)
    BY <2>1, QuietBread, QuietCache
  <2>2. ASSUME NEW v \in Val, Modify(p, b, v) PROVE CacheInv'
    BY <2>2, ModifyCache
  <2> QED
    BY <1>3, <2>1, <2>2
<1>4. ASSUME NEW b \in Home, Recycle(b) PROVE CacheInv'
  BY <1>4, RecycleCache
<1>5. CASE Crash \/ RecoverInstall \/ RecoverClear
  BY <1>5, CrashCache, RecoverInstallCache, RecoverClearCache
<1> QED
  BY <1>1, <1>2, <1>3, <1>4, <1>5 DEF Next

(* For any number of processes, whatever they and their commits do to each *)
(* other, and through every crash and panic: a buffer that is not pinned   *)
(* agrees with the disk, no block is in the log twice, and a recovery is a *)
(* prefix of the installation of the header it found.                      *)
THEOREM CacheCorrect == Spec => []CacheInv
<1>1. Init => CacheInv
  BY InitCache
<1>2. CacheInv /\ [Next]_vars => CacheInv'
  BY NextCache
<1> QED
  BY <1>1, <1>2, PTL DEF Spec

(* bget loses no change of a system call when it takes the buffer of       *)
(* another block.                                                          *)
THEOREM RecycleCorrect == Spec => [][\A b \in Home : Recycle(b) => Vol' = Vol]_vars
<1>1. CacheInv => \A b \in Home : Recycle(b) => Vol' = Vol
  <2> SUFFICES ASSUME CacheInv, NEW b \in Home, Recycle(b) PROVE Vol' = Vol
    OBVIOUS
  <2>1. mode = "up" /\ mode' = "up"
    BY DEF Recycle, Up
  <2> QED
    BY <2>1, RecycleCache DEF Vol
<1>2. CacheInv /\ [Next]_vars => [\A b \in Home : Recycle(b) => Vol' = Vol]_vars
  BY <1>1
<1> QED
  BY <1>2, CacheCorrect, PTL DEF Spec

----------------------------------------------------------------------------
(* What a crash leaves, for a header h, log blocks ld and home blocks d.   *)
RecoveredOf(h, ld, d) ==
    [b \in Home |-> IF b \in Range(h)
                    THEN ld[CHOOSE i \in DOMAIN h : h[i] = b]
                    ELSE d[b]]

(* A block the header names once comes from its log block.                 *)
LEMMA RecoveredFacts ==
    ASSUME NEW h \in Seq(Home), IsInjective(h), NEW ld, NEW d, NEW b \in Home
    PROVE  /\ \A i \in 1..Len(h) : h[i] = b => RecoveredOf(h, ld, d)[b] = ld[i]
           /\ (\A i \in 1..Len(h) : h[i] # b) => RecoveredOf(h, ld, d)[b] = d[b]
<1>1. DOMAIN h = 1..Len(h)
  OBVIOUS
<1>2. ASSUME NEW i \in 1..Len(h), h[i] = b PROVE RecoveredOf(h, ld, d)[b] = ld[i]
  <2>1. b \in Range(h)
    BY <1>1, <1>2 DEF Range
  <2>2. (CHOOSE j \in DOMAIN h : h[j] = b) = i
    BY <1>1, <1>2 DEF IsInjective
  <2> QED
    BY <2>1, <2>2 DEF RecoveredOf
<1>3. ASSUME \A i \in 1..Len(h) : h[i] # b PROVE RecoveredOf(h, ld, d)[b] = d[b]
  <2>1. b \notin Range(h)
    BY <1>1, <1>3 DEF Range
  <2> QED
    BY <2>1 DEF RecoveredOf
<1> QED
  BY <1>2, <1>3

(* With an empty header a crash leaves the home blocks.                    *)
LEMMA RecoveredEmpty ==
    ASSUME NEW ld, NEW d, IsFcn(d, Home)
    PROVE  RecoveredOf(<<>>, ld, d) = d
<1>1. Range(<<>>) = {}
  BY DEF Range
<1> QED
  BY <1>1 DEF RecoveredOf, IsFcn

(* What a crash leaves does not depend on the home blocks it will install. *)
LEMMA RecoveredSame ==
    ASSUME NEW h \in Seq(Home), IsInjective(h), NEW ld, NEW d, NEW e,
           \A b \in Home : (\A i \in 1..Len(h) : h[i] # b) => d[b] = e[b]
    PROVE  RecoveredOf(h, ld, d) = RecoveredOf(h, ld, e)
<1>1. ASSUME NEW b \in Home
      PROVE  RecoveredOf(h, ld, d)[b] = RecoveredOf(h, ld, e)[b]
  <2>1. CASE \E i \in 1..Len(h) : h[i] = b
    <3>1. PICK i \in 1..Len(h) : h[i] = b
      BY <2>1
    <3> QED
      BY <3>1, RecoveredFacts
  <2>2. CASE \A i \in 1..Len(h) : h[i] # b
    BY <2>2, RecoveredFacts
  <2> QED
    BY <2>1, <2>2
<1>2. \A x : RecoveredOf(h, ld, x) = [b \in Home |-> RecoveredOf(h, ld, x)[b]]
  BY DEF RecoveredOf
<1> QED
  BY <1>1, <1>2

(* The header is a sequence without repetitions, so that what a crash      *)
(* leaves can be computed before and after a step.                         *)
LEMMA HeaderTyped ==
    ASSUME CacheInv
    PROVE  /\ hdr \in Seq(Home) /\ IsInjective(hdr) /\ IsFcn(disk, Home)
           /\ Recovered = RecoveredOf(hdr, logdata, disk)
BY DEF CacheInv, Shape, Recovered, RecoveredOf

(* Once every block of the header is installed, a crash leaves the disk.   *)
LEMMA RecoveredInstalled ==
    ASSUME CacheInv, Installed(Len(hdr))
    PROVE  Recovered = disk
<1>1. /\ Recovered = RecoveredOf(hdr, logdata, disk) /\ IsFcn(disk, Home)
      /\ hdr \in Seq(Home) /\ IsInjective(hdr)
  BY HeaderTyped
<1>2. ASSUME NEW b \in Home PROVE RecoveredOf(hdr, logdata, disk)[b] = disk[b]
  <2>1. CASE \E i \in 1..Len(hdr) : hdr[i] = b
    <3>1. PICK i \in 1..Len(hdr) : hdr[i] = b
      BY <2>1
    <3>2. disk[b] = logdata[i]
      BY <3>1 DEF Installed
    <3> QED
      BY <1>1, <3>1, <3>2, RecoveredFacts
  <2>2. CASE \A i \in 1..Len(hdr) : hdr[i] # b
    BY <1>1, <2>2, RecoveredFacts
  <2> QED
    BY <2>1, <2>2
<1> QED
  BY <1>1, <1>2 DEF RecoveredOf, IsFcn

(* Steps that neither write the disk nor the header change nothing that a  *)
(* crash leaves.                                                           *)
LEMMA RecoveredKept ==
    ASSUME UNCHANGED <<disk, logdata, hdr>> PROVE Recovered' = Recovered
BY DEF Recovered

(* The steps of a recovery.                                                *)
LEMMA RecoverySteps ==
    ASSUME CacheInv, RecoverInstall \/ RecoverClear
    PROVE  Recovered' = Recovered /\ (mode' = "up" => Vol' = Recovered)
<1>1. CASE RecoverInstall
  <2>1. UNCHANGED <<logdata, hdr>> /\ mode' # "up"
    BY <1>1 DEF RecoverInstall
  <2>2. \A b \in Home : (\A i \in 1..Len(hdr) : hdr[i] # b) => disk'[b] = disk[b]
    BY <1>1, RecoverInstallCache
  <2>3. RecoveredOf(hdr, logdata, disk') = RecoveredOf(hdr, logdata, disk)
    BY <2>2, HeaderTyped, RecoveredSame
  <2> QED
    BY <2>1, <2>3 DEF Recovered, RecoveredOf
<1>2. CASE RecoverClear
  <2>1. /\ mode = "install" /\ lh = <<>> /\ UNCHANGED <<disk, logdata, buf>>
        /\ hdr' = <<>> /\ mode' = "up"
    BY <1>2 DEF RecoverClear, cache
  <2>2. Installed(Len(hdr)) /\ \A b \in Home : buf[b] = None
    BY <2>1 DEF CacheInv, Recovery, Shape
  <2>3. Recovered = disk
    BY <2>2, RecoveredInstalled
  <2>4. Recovered' = RecoveredOf(<<>>, logdata', disk')
    BY <2>1 DEF Recovered, RecoveredOf
  <2>5. Recovered' = Recovered
    BY <2>1, <2>3, <2>4, HeaderTyped, RecoveredEmpty
  <2>6. Vol' = [b \in Home |-> disk[b]]
    BY <2>1, <2>2 DEF Vol, Contents
  <2>7. disk = [b \in Home |-> disk[b]]
    BY HeaderTyped DEF IsFcn
  <2> QED
    BY <2>3, <2>5, <2>6, <2>7
<1> QED
  BY <1>1, <1>2

(* For any number of processes: a crash, at whatever moment, and every     *)
(* step of the recovery, however often it is itself cut short, leave what  *)
(* the disk and the log held; system calls start from that.                *)
THEOREM RecoveryCorrect ==
    Spec => [][mode = "install" \/ mode' = "install" =>
                 Recovered' = Recovered /\ (mode' = "up" => Vol' = Recovered)]_vars
<1>1. CacheInv /\ [Next]_vars =>
        [mode = "install" \/ mode' = "install" =>
           Recovered' = Recovered /\ (mode' = "up" => Vol' = Recovered)]_vars
  <2> SUFFICES ASSUME CacheInv, Next, mode = "install" \/ mode' = "install"
               PROVE  Recovered' = Recovered /\ (mode' = "up" => Vol' = Recovered)
    OBVIOUS
  <2>1. CASE Crash
    <3>1. mode' # "up" /\ UNCHANGED <<disk, logdata, hdr>>
      BY <2>1 DEF Crash, onDisk
    <3> QED
      BY <3>1, RecoveredKept
  <2>2. CASE RecoverInstall \/ RecoverClear
    BY <2>2, RecoverySteps
  <2>3. CASE ~(Crash \/ RecoverInstall \/ RecoverClear)
    <3>1. ASSUME NEW p \in Caller, Start(p) \/ sys_sync(p) \/ CallerStep(p)
          PROVE  mode = "up" /\ mode' = mode
      <4>1. CASE \/ Start(p) \/ begin_op(p) \/ end_op(p) \/ sys_sync(p) \/ sync1(p) \/ Return(p)
        BY <4>1, QuietCalls DEF QuietStep, Up
      <4>2. CASE \/ bget(p) \/ ForceSync(p) \/ acquiresleep(p)
                 \/ \E b \in Home : bread(p, b) \/ brelse(p, b)
        BY <4>2, QuietBread DEF QuietStep, Up
      <4>3. CASE commit(p) \/ LogTo(p) \/ InstFrom(p) \/ Finish(p)
        BY <4>3, QuietCommit DEF QuietStep, Up
      <4>4. CASE \/ Find(p) \/ log_write(p) \/ LogFrom(p) \/ InstTo(p)
                 \/ write_head(p) \/ clear_head(p) \/ erase_head(p)
        BY <4>4 DEF Find, log_write, LogFrom, InstTo, write_head, clear_head, erase_head,
           HeadWritten, At, Up
      <4> QED
        BY <3>1, <4>1, <4>2, <4>3, <4>4 DEF CallerStep, LeaveOp, BgetStep, CommitStep
    <3>2. ASSUME NEW b \in Home,
                 \/ Recycle(b)
                 \/ \E p \in Caller : bread(p, b) \/ \E v \in Val : Modify(p, b, v)
          PROVE  mode = "up" /\ mode' = mode
      BY <3>2 DEF Recycle, bread, Modify, At, Up
    <3> QED
      BY <2>3, <3>1, <3>2 DEF Next
  <2> QED
    BY <2>1, <2>2, <2>3
<1> QED
  BY <1>1, CacheCorrect, PTL DEF Spec

----------------------------------------------------------------------------
(* Commits that do not overlap.                                            *)

StepOf(p) ==
    \/ Start(p) \/ sys_sync(p) \/ CallerStep(p)
    \/ \E b \in Home : bread(p, b) \/ \E v \in Val : Modify(p, b, v)

(* A step of p moves the others only out of their sleep on &log.           *)
LEMMA StepOthers ==
    ASSUME NEW p \in Caller, CacheInv, StepOf(p)
    PROVE  OthersKept(p) /\ Up /\ mode' = "up"
<1>1. CASE \/ Start(p) \/ begin_op(p) \/ end_op(p) \/ sys_sync(p) \/ sync1(p) \/ Return(p)
  BY <1>1, QuietCalls DEF QuietStep, Up
<1>2. CASE \/ bget(p) \/ ForceSync(p) \/ acquiresleep(p)
           \/ \E b \in Home : bread(p, b) \/ brelse(p, b)
  BY <1>2, QuietBread DEF QuietStep, Up
<1>3. CASE commit(p) \/ LogTo(p) \/ InstFrom(p) \/ Finish(p)
  BY <1>3, QuietCommit DEF QuietStep, Up
<1>4. CASE Find(p) \/ log_write(p)
  BY <1>4, FindCache, LogWriteCache DEF Find, log_write, At, Up
<1>5. CASE LogFrom(p) \/ InstTo(p)
  BY <1>5, LogFromCache, InstToCache DEF LogFrom, InstTo, At, Up
<1>6. CASE write_head(p) \/ clear_head(p) \/ erase_head(p)
  BY <1>6, HeadCache DEF write_head, clear_head, erase_head, HeadWritten, At, Up
<1>7. ASSUME NEW b \in Home, NEW v \in Val, Modify(p, b, v)
      PROVE  OthersKept(p) /\ Up /\ mode' = "up"
  BY <1>7, ModifyCache DEF Modify, At, Up
<1> QED
  BY <1>1, <1>2, <1>3, <1>4, <1>5, <1>6, <1>7
     DEF StepOf, CallerStep, LeaveOp, BgetStep, CommitStep

(* What the others' points say does not change under a wakeup.             *)
LEMMA OthersPoints ==
    ASSUME NEW p \in Caller, OthersKept(p), NEW r \in Caller \ {p}
    PROVE  /\ pc'[r] \in Busy <=> pc[r] \in Busy
           /\ pc[r] \in CommitPoints => pc'[r] = pc[r]
           /\ pc'[r] \in Busy => pc'[r] = pc[r]
           /\ pc'[r] \in Aside <=> pc[r] \in Aside
<1>1. pc[r] \in Asleep =>
        /\ pc[r] \notin CommitPoints /\ WokenPoint(pc[r]) \notin CommitPoints
        /\ WokenPoint(pc[r]) \in Aside <=> pc[r] \in Aside
  BY DEF Asleep, WokenPoint, CommitPoints, Aside
<1>2. pc'[r] = pc[r] \/ (pc[r] \in Asleep /\ pc'[r] = WokenPoint(pc[r]))
  BY DEF OthersKept
<1> QED
  BY <1>1, <1>2 DEF Busy

(* The point a caller goes on at.                                          *)
LEMMA OwnPoint ==
    ASSUME NEW p \in Caller, CacheInv, NEW point
    PROVE  /\ Goto(p, point) => pc'[p] = point
           /\ WakeupAll(p, point) => pc'[p] = point
BY DEF CacheInv, Shape, Goto, WakeupAll

(* The steps outside a commit: where they lead, and the flag.              *)
LEMMA CallFlags ==
    ASSUME NEW p \in Caller, CacheInv, Flags,
           \/ Start(p) \/ begin_op(p) \/ end_op(p) \/ sys_sync(p) \/ Return(p)
           \/ bget(p) \/ acquiresleep(p) \/ Find(p) \/ log_write(p)
           \/ \E b \in Home : bread(p, b) \/ brelse(p, b) \/ \E v \in Val : Modify(p, b, v)
    PROVE  /\ pc[p] \notin Busy /\ pc'[p] \notin Busy /\ committing' = committing
           /\ ~forced'[p] /\ fault' # "in commit, log.committing 0"
<1> USE DEF Busy, CommitPoints
<1>0. \A point : /\ Goto(p, point) => pc'[p] = point
                 /\ WakeupAll(p, point) => pc'[p] = point
  BY OwnPoint
<1>1. IsFcn(forced, Caller)
  BY DEF CacheInv, Shape
<1>2. CASE Start(p) \/ begin_op(p) \/ end_op(p) \/ sys_sync(p)
  <2>1. pc[p] \in {"out", "begin", "op", "end"} /\ committing' = committing
    BY <1>2 DEF Start, begin_op, end_op, sys_sync, At, logVars
  <2>2. fault' = "none" /\ forced' = forced
    BY <1>2 DEF Start, begin_op, end_op, sys_sync, At, Up
  <2>3. pc'[p] \in {"begin", "bsleep", "op", "esleep", "out", "sync1"}
    BY <1>0, <1>2 DEF Start, begin_op, end_op, sys_sync
  <2> QED
    BY <2>1, <2>2, <2>3 DEF Flags
<1>3. CASE Return(p)
  <2>1. pc[p] \in {"synced", "swoken"} /\ committing' = committing /\ fault' = "none"
    BY <1>3 DEF Return, At, Up
  <2>2. pc'[p] \in {"find", "out"} /\ ~forced'[p]
    BY <1>0, <1>1, <1>3 DEF Return, IsFcn
  <2> QED
    BY <2>1, <2>2
<1>4. CASE bget(p) \/ acquiresleep(p) \/ \E b \in Home : bread(p, b) \/ brelse(p, b)
  <2>1. pc[p] \in {"bget", "lock", "op"} /\ committing' = committing
    BY <1>4 DEF bget, acquiresleep, bread, brelse, At, logVars
  <2>2. fault' = "none" /\ forced' = forced
    BY <1>4 DEF bget, acquiresleep, bread, brelse, At, Up
  <2>3. pc'[p] \in {"force", "find", "op", "bget"}
    BY <1>0, <1>4, <2>1 DEF bget, acquiresleep, bread, brelse, At
  <2> QED
    BY <2>1, <2>2, <2>3 DEF Flags
<1>5. CASE Find(p) \/ log_write(p) \/ \E b \in Home, v \in Val : Modify(p, b, v)
  <2>1. pc[p] \in {"find", "log_write", "op"} /\ committing' = committing
    BY <1>5 DEF Find, log_write, Modify, At, logVars
  <2>2. fault' \in {"none", "bget: no buffers", "too big a transaction"} /\ forced' = forced
    BY <1>5 DEF Find, log_write, Modify, At, Up
  <2>3. pc'[p] \in {"find", "lock", "op", "log_write"}
    BY <1>0, <1>5, <2>1 DEF Find, log_write, Modify, At
  <2> QED
    BY <2>1, <2>2, <2>3 DEF Flags
<1> QED
  BY <1>2, <1>3, <1>4, <1>5

(* The steps inside a commit.                                              *)
LEMMA BusyFlags ==
    ASSUME NEW p \in Caller, CacheInv, Flags,
           \/ commit(p) \/ LogTo(p) \/ LogFrom(p) \/ write_head(p) \/ InstFrom(p)
           \/ InstTo(p) \/ clear_head(p) \/ erase_head(p)
    PROVE  /\ pc[p] \in Busy /\ pc'[p] \in Busy /\ committing' = committing
           /\ fault' # "in commit, log.committing 0"
<1> USE DEF Busy, CommitPoints
<1>0. \A point : Goto(p, point) => pc'[p] = point
  BY OwnPoint
<1>1. \A q \in Caller : BreadFault # "in commit, log.committing 0"
                        /\ SlotFault(q) # "in commit, log.committing 0"
  BY DEF BreadFault, SlotFault
<1>2. CASE commit(p)
  <2>1. pc[p] = "commit" /\ committing' = committing /\ Up
    BY <1>2 DEF commit, At, logVars
  <2>2. committing
    BY <2>1 DEF Flags
  <2>3. fault' = "none" /\ pc'[p] \in {"finish", "log_to"}
    BY <1>0, <1>2, <2>1, <2>2 DEF commit, Up
  <2> QED
    BY <2>1, <2>3
<1>3. CASE LogTo(p) \/ InstFrom(p)
  <2>1. /\ pc[p] \in {"log_to", "inst_from"} /\ committing' = committing
        /\ pc'[p] \in {"log_from", "write_head", "inst_to", "clear_head"}
    BY <1>0, <1>3 DEF LogTo, InstFrom, NextSlot, At, logVars
  <2>2. fault' # "in commit, log.committing 0"
    BY <1>1, <1>3 DEF LogTo, InstFrom, NextSlot, At, Up
  <2> QED
    BY <2>1, <2>2
<1>4. CASE LogFrom(p) \/ InstTo(p) \/ clear_head(p)
  <2>1. /\ pc[p] \in {"log_from", "inst_to", "clear_head"} /\ committing' = committing
        /\ pc'[p] \in {"log_to", "inst_from", "erase_head"}
    BY <1>0, <1>4 DEF LogFrom, InstTo, clear_head, At, logVars
  <2>2. fault' = "none"
    BY <1>4 DEF LogFrom, InstTo, clear_head, At, Up
  <2> QED
    BY <2>1, <2>2
<1>5. CASE write_head(p) \/ erase_head(p)
  <2>1. /\ pc[p] \in {"write_head", "erase_head"} /\ committing' = committing
        /\ pc'[p] \in {"inst_from", "finish"} /\ fault' = BreadFault
    BY <1>0, <1>5 DEF write_head, erase_head, HeadWritten, At, logVars
  <2> QED
    BY <1>1, <2>1
<1> QED
  BY <1>2, <1>3, <1>4, <1>5

(* A step of p that neither starts nor ends a commit keeps the flag.       *)
LEMMA FlagKept ==
    ASSUME NEW p \in Caller, Flags, OthersKept(p), committing' = committing,
           pc'[p] \in Busy <=> pc[p] \in Busy, forced'[p] => pc'[p] \in CommitPoints,
           fault' # "in commit, log.committing 0"
    PROVE  Flags'
<1>1. \A r \in Caller : pc'[r] \in Busy <=> pc[r] \in Busy
  BY OthersPoints
<1>2. \A r \in Caller \ {p} : forced'[r] = forced[r]
  BY DEF OthersKept
<1>3. \A r \in Caller : forced'[r] => pc'[r] \in CommitPoints
  BY <1>2, OthersPoints DEF Flags
<1> QED
  BY <1>1, <1>3 DEF Flags, CommitFlagged

(* Every step of a caller keeps the flag, as long as commits do not        *)
(* overlap.                                                                *)
LEMMA StepFlags ==
    ASSUME NEW p \in Caller, CacheInv, Flags, OneCommit, StepOf(p)
    PROVE  Flags'
<1>0. OthersKept(p) /\ Up
  BY StepOthers
<1>1. CASE \/ Start(p) \/ begin_op(p) \/ end_op(p) \/ sys_sync(p) \/ Return(p)
           \/ bget(p) \/ acquiresleep(p) \/ Find(p) \/ log_write(p)
           \/ \E b \in Home : bread(p, b) \/ brelse(p, b) \/ \E v \in Val : Modify(p, b, v)
  <2>1. /\ pc[p] \notin Busy /\ pc'[p] \notin Busy /\ committing' = committing
        /\ ~forced'[p] /\ fault' # "in commit, log.committing 0"
    BY <1>1, CallFlags
  <2> QED
    BY <1>0, <2>1, FlagKept
<1>2. CASE \/ commit(p) \/ LogTo(p) \/ LogFrom(p) \/ write_head(p) \/ InstFrom(p)
           \/ InstTo(p) \/ clear_head(p) \/ erase_head(p)
  <2>1. /\ pc[p] \in Busy /\ pc'[p] \in Busy /\ committing' = committing
        /\ fault' # "in commit, log.committing 0"
    BY <1>2, BusyFlags
  <2>2. pc'[p] \in CommitPoints
    BY <2>1 DEF Busy
  <2> QED
    BY <1>0, <2>1, <2>2, FlagKept
<1>3. CASE sync1(p) /\ committing
  <2>1. pc[p] = "sync1" /\ Goto(p, "ssleep") /\ committing' = committing /\ fault' = "none"
    BY <1>3 DEF sync1, At, Up
  <2>2. pc'[p] = "ssleep" /\ ~forced'[p]
    <3>1. IsFcn(forced, Caller) /\ forced' = [forced EXCEPT ![p] = FALSE]
      BY <1>3 DEF CacheInv, Shape, sync1
    <3> QED
      BY <2>1, <3>1, OwnPoint DEF IsFcn
  <2>3. pc[p] \notin Busy /\ pc'[p] \notin Busy
    BY <2>1, <2>2 DEF Busy, CommitPoints
  <2> QED
    BY <1>0, <2>1, <2>2, <2>3, FlagKept
<1>4. CASE (sync1(p) /\ ~committing) \/ ForceSync(p)
  <2>1. Goto(p, "commit") /\ committing' = TRUE /\ fault' = "none"
    BY <1>4 DEF sync1, ForceSync, At, Up
  <2>2. pc'[p] = "commit"
    BY <2>1, OwnPoint
  <2>3. pc'[p] \in Busy
    BY <2>2 DEF Busy, CommitPoints
  <2>4. \A r \in Caller \ {p} : forced'[r] => pc'[r] \in CommitPoints
    <3>1. \A r \in Caller \ {p} : forced'[r] = forced[r]
      BY <1>0 DEF OthersKept
    <3> QED
      BY <1>0, <3>1, OthersPoints DEF Flags
  <2> QED
    BY <2>1, <2>3, <2>4 DEF Flags, CommitFlagged, Busy
<1>5. CASE Finish(p)
  <2>1. /\ pc[p] = "finish" /\ WakeupAll(p, "synced") /\ committing' = FALSE
        /\ fault' = "none"
    BY <1>5 DEF Finish, Wakes, At, Up
  <2>2. pc'[p] = "synced" /\ pc[p] \in Busy
    BY <2>1, OwnPoint DEF Busy, CommitPoints
  <2>3. \A r \in Caller : pc'[r] \notin Busy
    BY <1>0, <2>2, OthersPoints DEF OneCommit, Busy
  <2>4. \A r \in Caller \ {p} : forced'[r] => pc'[r] \in CommitPoints
    <3>1. \A r \in Caller \ {p} : forced'[r] = forced[r]
      BY <1>0 DEF OthersKept
    <3> QED
      BY <1>0, <3>1, OthersPoints DEF Flags
  <2>5. "synced" \in CommitPoints
    BY DEF CommitPoints
  <2> QED
    BY <2>1, <2>2, <2>3, <2>4, <2>5 DEF Flags, CommitFlagged
<1> QED
  BY <1>1, <1>2, <1>3, <1>4, <1>5 DEF StepOf, CallerStep, LeaveOp, BgetStep, CommitStep

(* The steps of no caller.                                                 *)
LEMMA OtherFlags ==
    ASSUME CacheInv, Flags,
           (\E b \in Home : Recycle(b)) \/ Crash \/ RecoverInstall \/ RecoverClear
    PROVE  Flags'
<1>1. CASE (\E b \in Home : Recycle(b)) \/ RecoverInstall \/ RecoverClear
  <2>1. UNCHANGED <<pc, forced, committing, fault>>
    BY <1>1 DEF Recycle, RecoverInstall, RecoverClear, callerVars, logVars
  <2> QED
    BY <2>1 DEF Flags, CommitFlagged
<1>2. CASE Crash
  <2>1. \A r \in Caller : pc'[r] = "out" /\ ~forced'[r]
    BY <1>2 DEF Crash
  <2>2. committing' = FALSE /\ fault' = "none"
    BY <1>2 DEF Crash
  <2> QED
    BY <2>1, <2>2 DEF Flags, CommitFlagged, Busy, CommitPoints
<1> QED
  BY <1>1, <1>2

(* Whatever another caller does while p commits: either it had no call     *)
(* under way and changes no block, or it still has one.                    *)
LEMMA IdleActor ==
    ASSUME NEW p \in Caller, CacheInv, Flags, committing, pc[p] \notin Busy, StepOf(p)
    PROVE  /\ logdata' = logdata
           /\ lh' = lh \/ (lh' = Append(lh, want[p]) /\ want[p] \in Home)
           /\ \/ pc[p] \in Aside /\ ~forced[p] /\ UNCHANGED <<disk, buf, lh>>
              \/ pc'[p] \notin Aside
<1>0. \A point : Goto(p, point) => pc'[p] = point
  BY OwnPoint
<1>1. CASE Start(p) \/ begin_op(p) \/ sys_sync(p) \/ sync1(p)
  <2>1. /\ pc[p] \in {"out", "begin", "sync1"}
        /\ UNCHANGED <<disk, logdata, buf, lh>>
    BY <1>1 DEF Start, begin_op, sys_sync, sync1, At, onDisk, cache, logVars
  <2> QED
    BY <2>1 DEF Aside, Flags, CommitPoints
<1>2. CASE Return(p)
  <2>1. pc[p] \in {"synced", "swoken"} /\ UNCHANGED <<disk, logdata, buf, lh>>
    BY <1>2 DEF Return, At, onDisk, cache
  <2>2. forced[p] => pc'[p] = "find"
    BY <1>0, <1>2 DEF Return
  <2> QED
    BY <2>1, <2>2 DEF Aside
<1>3. CASE end_op(p)
  <2>1. Goto(p, "esleep") /\ UNCHANGED <<logdata, lh>>
    BY <1>3 DEF end_op, onDisk
  <2>2. pc'[p] = "esleep"
    BY <1>0, <2>1
  <2> QED
    BY <2>1, <2>2 DEF Aside
<1>4. CASE \/ bget(p) \/ ForceSync(p) \/ acquiresleep(p) \/ Find(p)
           \/ \E b \in Home : bread(p, b) \/ brelse(p, b) \/ \E v \in Val : Modify(p, b, v)
  <2>1. UNCHANGED <<logdata, lh>>
    BY <1>4 DEF bget, ForceSync, acquiresleep, Find, bread, brelse, Modify, onDisk, logVars
  <2>2. pc'[p] \in {"force", "find", "commit", "op", "lock", "bget", "log_write"}
    BY <1>0, <1>4 DEF bget, ForceSync, acquiresleep, Find, bread, brelse, Modify, At
  <2> QED
    BY <2>1, <2>2 DEF Aside
<1>5. CASE log_write(p)
  <2>1. logdata' = logdata /\ Goto(p, "op") /\ pc[p] = "log_write"
    BY <1>5 DEF log_write, onDisk, At
  <2>2. want[p] \in Home
    BY <2>1 DEF CacheInv, Shape
  <2>3. lh' = lh \/ lh' = Append(lh, want[p])
    BY <1>5 DEF log_write
  <2>4. pc'[p] = "op"
    BY <1>0, <2>1
  <2> QED
    BY <2>1, <2>2, <2>3, <2>4 DEF Aside
<1>6. CASE \/ commit(p) \/ LogTo(p) \/ LogFrom(p) \/ write_head(p) \/ InstFrom(p)
           \/ InstTo(p) \/ clear_head(p) \/ erase_head(p)
  BY <1>6, BusyFlags
<1>7. CASE Finish(p)
  BY <1>7 DEF Finish, At, Busy, CommitPoints
<1> QED
  BY <1>1, <1>2, <1>3, <1>4, <1>5, <1>6, <1>7
     DEF StepOf, CallerStep, LeaveOp, BgetStep, CommitStep

(* Copying a block into the log changes nothing that system calls read.    *)
LEMMA LogFromContents ==
    ASSUME NEW p \in Caller, CacheInv, LogFrom(p)
    PROVE  \A a \in Home : Contents(a)' = Contents(a)
<1>1. disk' = disk /\ buf' = [buf EXCEPT ![home[p]] = Contents(home[p])]
  BY DEF LogFrom
<1>2. IsFcn(buf, Home)
  BY DEF CacheInv, Shape
<1>3. \A a \in Home : buf'[a] = IF a = home[p] THEN Contents(a) ELSE buf[a]
  BY <1>1, <1>2 DEF IsFcn
<1> QED
  BY <1>1, <1>3 DEF Contents

(* Nor does installing a block, if nobody changed it since it was copied.  *)
LEMMA InstToContents ==
    ASSUME NEW p \in Caller, CacheInv, Copying, InstTo(p), Undisturbed(p)
    PROVE  \A a \in Home : Contents(a)' = Contents(a)
<1> DEFINE b == home[p]
           v == logdata[tail[p]]
<1>1. /\ Up /\ pc[p] = "inst_to"
      /\ disk' = [disk EXCEPT ![b] = v] /\ buf' = [buf EXCEPT ![b] = v]
  BY DEF InstTo, At
<1>2. tail[p] <= Len(lh) /\ b = lh[tail[p]] /\ Copied(Len(lh))
  BY <1>1 DEF Copying, CopyState
<1>3. tail[p] \in 1..Len(lh)
  BY <1>2 DEF CacheInv, Shape
<1>4. v = Contents(b)
  BY <1>2, <1>3 DEF Copied
<1>5. IsFcn(buf, Home) /\ IsFcn(disk, Home)
  BY DEF CacheInv, Shape
<1>6. /\ \A a \in Home : buf'[a] = IF a = b THEN v ELSE buf[a]
      /\ \A a \in Home : disk'[a] = IF a = b THEN v ELSE disk[a]
  BY <1>1, <1>5 DEF IsFcn
<1> QED
  BY <1>4, <1>6 DEF Contents

(* A step of somebody else keeps what is said of r's commit.               *)
LEMMA CopyFrame ==
    ASSUME NEW r \in Caller, CacheInv, CopyState(r),
           pc'[r] = pc[r], tail'[r] = tail[r], home'[r] = home[r], logdata' = logdata,
           NEW b, lh' = lh \/ (lh' = Append(lh, b) /\ b \in Home),
           Undisturbed(r)' =>
             /\ Undisturbed(r) /\ lh' = lh
             /\ \A a \in Home : Contents(a)' = Contents(a)
    PROVE  CopyState(r)'
<1>1. lh \in Seq(Home) /\ Len(lh) \in Nat /\ tail[r] \in Nat \ {0}
  BY DEF CacheInv, Shape
<1>2. pc'[r] \in {"log_from", "inst_to"} =>
        tail'[r] \in LogSlot /\ tail'[r] <= Len(lh') /\ home'[r] = lh'[tail'[r]]
  <2>1. Len(lh) <= Len(lh') /\ \A i \in 1..Len(lh) : lh'[i] = lh[i]
    BY <1>1
  <2>2. tail[r] <= Len(lh) => tail[r] \in 1..Len(lh) /\ tail[r] <= Len(lh')
    BY <1>1, <2>1
  <2> QED
    BY <2>1, <2>2 DEF CopyState
<1>3. ASSUME Undisturbed(r)'
      PROVE  /\ pc'[r] \in {"log_to", "log_from"} =>
                  tail'[r] <= Len(lh') + 1 /\ Copied(tail[r] - 1)'
             /\ pc'[r] \in {"write_head", "inst_from", "inst_to"} => Copied(Len(lh))'
  <2>1. Undisturbed(r) /\ lh' = lh /\ \A a \in Home : Contents(a)' = Contents(a)
    BY <1>3
  <2>2. ASSUME NEW n \in 0..Len(lh), Copied(n) PROVE \A i \in 1..n : logdata'[i] = Contents(lh[i])'
    <3>1. \A i \in 1..n : lh[i] \in Home
      BY <1>1
    <3> QED
      BY <2>1, <2>2, <3>1 DEF Copied, Contents
  <2>3. CASE pc[r] \in {"log_to", "log_from"}
    <3>1. tail[r] <= Len(lh) + 1 /\ Copied(tail[r] - 1) /\ tail[r] - 1 \in 0..Len(lh)
      BY <1>1, <2>1, <2>3 DEF CopyState
    <3>2. \A i \in 1..(tail[r] - 1) : logdata'[i] = Contents(lh[i])'
      BY <2>2, <3>1
    <3> QED
      BY <2>1, <2>3, <3>1, <3>2 DEF Copied
  <2>4. CASE pc[r] \in {"write_head", "inst_from", "inst_to"}
    <3>1. Copied(Len(lh)) /\ Len(lh) \in 0..Len(lh)
      BY <1>1, <2>1, <2>4 DEF CopyState
    <3>2. \A i \in 1..Len(lh) : logdata'[i] = Contents(lh[i])'
      BY <2>2, <3>1
    <3> QED
      BY <2>1, <2>4, <3>2 DEF Copied
  <2> QED
    BY <2>3, <2>4
<1> QED
  BY <1>2, <1>3 DEF CopyState

(* A caller whose commit is not under way has nothing to say about it.     *)
LEMMA CopyIdle ==
    ASSUME NEW r, pc'[r] \notin Busy PROVE CopyState(r)'
BY DEF CopyState, Busy, CommitPoints

(* A step of p and the commit of another caller.                           *)
LEMMA BystanderCopy ==
    ASSUME NEW p \in Caller, CacheInv, Flags, Copying, OneCommit, StepOf(p),
           NEW r \in Caller \ {p}
    PROVE  CopyState(r)'
<1>1. OthersKept(p) /\ Up
  BY StepOthers
<1>2. CASE pc'[r] \notin Busy
  BY <1>2, CopyIdle
<1>3. CASE pc'[r] \in Busy
  <2>1. pc[r] \in Busy /\ pc'[r] = pc[r]
    BY <1>1, <1>3, OthersPoints
  <2>2. pc[p] \notin Busy /\ committing
    BY <2>1 DEF OneCommit, Flags
  <2>3. /\ logdata' = logdata
        /\ lh' = lh \/ (lh' = Append(lh, want[p]) /\ want[p] \in Home)
        /\ \/ pc[p] \in Aside /\ ~forced[p] /\ UNCHANGED <<disk, buf, lh>>
           \/ pc'[p] \notin Aside
    BY <2>2, IdleActor
  <2>4. /\ tail'[r] = tail[r] /\ home'[r] = home[r]
        /\ \A q \in Caller \ {p} : forced'[q] = forced[q]
    BY <1>1 DEF OthersKept
  <2>5. ASSUME Undisturbed(r)'
        PROVE  /\ Undisturbed(r) /\ lh' = lh
               /\ \A a \in Home : Contents(a)' = Contents(a)
    <3>1. pc'[p] \in Aside
      BY <2>5 DEF Undisturbed
    <3>2. pc[p] \in Aside /\ ~forced[p] /\ UNCHANGED <<disk, buf, lh>>
      BY <2>3, <3>1
    <3>3. \A q \in Caller \ {r} : q # p => pc[q] \in Aside /\ ~forced[q]
      BY <1>1, <2>4, <2>5, OthersPoints DEF Undisturbed
    <3> QED
      BY <3>2, <3>3 DEF Undisturbed, Contents
  <2>6. CopyState(r)
    BY <1>1 DEF Copying
  <2> QED
    BY <2>1, <2>3, <2>4, <2>5, <2>6, CopyFrame
<1> QED
  BY <1>2, <1>3

(* The step of p and its own commit.                                       *)
LEMMA OwnUndisturbed ==
    ASSUME NEW p \in Caller, OthersKept(p)
    PROVE  Undisturbed(p)' <=> Undisturbed(p)
<1>1. \A r \in Caller \ {p} : forced'[r] = forced[r]
  BY DEF OthersKept
<1> QED
  BY <1>1, OthersPoints DEF Undisturbed

(* The heads of the loops.                                                 *)
LEMMA SlotCopy ==
    ASSUME NEW p \in Caller, CacheInv, Copying, LogTo(p) \/ InstFrom(p), Up'
    PROVE  CopyState(p)'
<1>0. OthersKept(p) /\ QuietStep(p) /\ Up
  BY QuietCommit DEF QuietStep
<1>1. \A point : Goto(p, point) => pc'[p] = point
  BY OwnPoint
<1>2. /\ UNCHANGED <<disk, logdata, buf, lh>> /\ lh \in Seq(Home) /\ Len(lh) \in Nat
      /\ tail \in [Caller -> Nat \ {0}] /\ IsFcn(home, Caller)
  BY <1>0 DEF QuietStep, CacheInv, Shape
<1>3. \/ /\ LogTo(p) /\ pc[p] = "log_to" /\ ~(tail[p] <= Len(lh)) /\ pc'[p] = "write_head"
      \/ /\ LogTo(p) /\ pc[p] = "log_to" /\ tail[p] <= Len(lh) /\ pc'[p] = "log_from"
         /\ fault' = SlotFault(p) /\ tail' = tail /\ home' = [home EXCEPT ![p] = lh[tail[p]]]
      \/ /\ InstFrom(p) /\ pc[p] = "inst_from" /\ pc'[p] = "clear_head"
      \/ /\ InstFrom(p) /\ pc[p] = "inst_from" /\ tail[p] <= Len(lh) /\ pc'[p] = "inst_to"
         /\ fault' = SlotFault(p) /\ tail' = tail /\ home' = [home EXCEPT ![p] = lh[tail[p]]]
  BY <1>1 DEF LogTo, InstFrom, NextSlot, MoreSlots, At
<1>4. SlotFault(p) = "none" => tail[p] \in LogSlot
  BY DEF SlotFault
<1>5. fault' = "none"
  BY DEF Up
<1>6. pc'[p] \in {"log_from", "inst_to"} =>
        tail'[p] \in LogSlot /\ tail'[p] <= Len(lh') /\ home'[p] = lh'[tail'[p]]
  BY <1>2, <1>3, <1>4, <1>5 DEF IsFcn
<1>7. ASSUME Undisturbed(p)'
      PROVE  /\ pc'[p] \in {"log_to", "log_from"} =>
                  tail'[p] <= Len(lh') + 1 /\ Copied(tail[p] - 1)'
             /\ pc'[p] \in {"write_head", "inst_from", "inst_to"} => Copied(Len(lh))'
  <2>1. Undisturbed(p) /\ CopyState(p)
    BY <1>0, <1>7, OwnUndisturbed DEF Copying
  <2>2. /\ pc[p] = "log_to" => tail[p] <= Len(lh) + 1 /\ Copied(tail[p] - 1)
        /\ pc[p] = "inst_from" => Copied(Len(lh))
    BY <2>1 DEF CopyState
  <2>3. \A n : Copied(n)' <=> Copied(n)
    BY <1>2 DEF Copied, Contents
  <2>4. CASE pc'[p] = "write_head"
    <3>1. tail[p] - 1 = Len(lh) /\ Copied(tail[p] - 1)
      BY <1>2, <1>3, <2>2, <2>4
    <3>2. Copied(Len(lh))
      BY <3>1
    <3>3. Copied(Len(lh))'
      BY <1>2, <3>2 DEF Copied, Contents
    <3> QED
      BY <2>4, <3>3
  <2>5. CASE pc'[p] = "log_from"
    <3>1. tail[p] <= Len(lh) + 1 /\ Copied(tail[p] - 1) /\ tail' = tail
      BY <1>3, <2>2, <2>5
    <3>2. Copied(tail[p] - 1)'
      BY <1>2, <3>1 DEF Copied, Contents
    <3> QED
      BY <1>2, <2>5, <3>1, <3>2
  <2>6. CASE pc'[p] = "inst_to"
    <3>1. Copied(Len(lh))
      BY <1>3, <2>2, <2>6
    <3>2. Copied(Len(lh))'
      BY <1>2, <3>1 DEF Copied, Contents
    <3> QED
      BY <2>6, <3>2
  <2>7. CASE pc'[p] = "clear_head"
    BY <2>7
  <2> QED
    BY <1>3, <2>4, <2>5, <2>6, <2>7
<1> QED
  BY <1>6, <1>7 DEF CopyState

(* One more block is in the log.                                           *)
LEMMA LogFromCopy ==
    ASSUME NEW p \in Caller, CacheInv, Copying, LogFrom(p)
    PROVE  CopyState(p)'
<1> DEFINE t == tail[p]
<1>1. /\ Up /\ pc[p] = "log_from" /\ Goto(p, "log_to") /\ lh' = lh
      /\ logdata' = [logdata EXCEPT ![t] = Contents(home[p])]
      /\ tail' = [tail EXCEPT ![p] = @ + 1]
  BY DEF LogFrom, At, logVars
<1>2. pc'[p] = "log_to"
  BY <1>1, OwnPoint
<1>3. t \in LogSlot /\ t <= Len(lh) /\ home[p] = lh[t]
  BY <1>1 DEF Copying, CopyState
<1>4. /\ lh \in Seq(Home) /\ Len(lh) \in Nat /\ t \in Nat \ {0} /\ IsFcn(logdata, LogSlot)
      /\ tail'[p] = t + 1
  BY <1>1 DEF CacheInv, Shape
<1>5. /\ logdata'[t] = Contents(lh[t])
      /\ \A i \in 1..(t - 1) : logdata'[i] = logdata[i]
  <2>1. \A i \in 1..(t - 1) : i \in LogSlot /\ i # t
    BY <1>3, <1>4, SyncLogAssumption DEF LogSlot, SyncLogAssumption
  <2> QED
    BY <1>1, <1>3, <1>4, <2>1 DEF IsFcn
<1>6. ASSUME Undisturbed(p)' PROVE tail'[p] <= Len(lh') + 1 /\ Copied(tail[p] - 1)'
  <2>1. Undisturbed(p)
    BY <1>6, LogFromCache, OwnUndisturbed
  <2>2. Copied(t - 1)
    BY <1>1, <2>1 DEF Copying, CopyState
  <2>3. tail'[p] - 1 = t /\ tail'[p] <= Len(lh') + 1
    BY <1>1, <1>3, <1>4
  <2>4. ASSUME NEW i \in 1..t PROVE logdata'[i] = Contents(lh[i])'
    <3>1. i = t \/ i \in 1..(t - 1)
      BY <1>4
    <3>2. logdata'[i] = Contents(lh[i])
      BY <1>5, <2>2, <3>1 DEF Copied
    <3>3. lh[i] \in Home
      BY <1>3, <1>4
    <3>4. \A a \in Home : Contents(a)' = Contents(a)
      BY LogFromContents
    <3> QED
      BY <1>1, <3>2, <3>3, <3>4 DEF Contents
  <2> QED
    BY <2>3, <2>4 DEF Copied
<1> QED
  BY <1>2, <1>6 DEF CopyState

(* The other steps inside a commit.                                        *)
LEMMA HeadCopy ==
    ASSUME NEW p \in Caller, CacheInv, Copying,
           commit(p) \/ write_head(p) \/ InstTo(p) \/ clear_head(p) \/ erase_head(p)
    PROVE  CopyState(p)'
<1>0. \A point : Goto(p, point) => pc'[p] = point
  BY OwnPoint
<1>1. CASE commit(p)
  <2>1. pc'[p] \in {"commit", "finish", "log_to"}
    BY <1>0, <1>1 DEF commit, At
  <2>2. tail'[p] = 1 /\ Len(lh') \in Nat
    <3>1. tail' = [tail EXCEPT ![p] = 1] /\ lh' = lh
      BY <1>1 DEF commit, logVars
    <3>2. tail \in [Caller -> Nat \ {0}] /\ lh \in Seq(Home)
      BY DEF CacheInv, Shape
    <3> QED
      BY <3>1, <3>2
  <2>3. tail'[p] <= Len(lh') + 1 /\ Copied(tail[p] - 1)'
    BY <2>2 DEF Copied
  <2> QED
    BY <2>1, <2>3 DEF CopyState
<1>2. CASE write_head(p)
  <2>1. /\ pc[p] = "write_head" /\ pc'[p] = "inst_from" /\ Up
        /\ UNCHANGED <<disk, logdata, buf, lh>>
    BY <1>0, <1>2 DEF write_head, HeadWritten, At, cache, logVars
  <2>2. Undisturbed(p)' => Undisturbed(p)
    BY <1>2, HeadCache, OwnUndisturbed
  <2>3. Undisturbed(p) => Copied(Len(lh))
    BY <2>1 DEF Copying, CopyState
  <2>4. Copied(Len(lh)) => Copied(Len(lh))'
    BY <2>1 DEF Copied, Contents
  <2> QED
    BY <2>1, <2>2, <2>3, <2>4 DEF CopyState
<1>3. CASE InstTo(p)
  <2>1. pc[p] = "inst_to" /\ pc'[p] = "inst_from" /\ Up /\ UNCHANGED <<logdata, lh>>
    BY <1>0, <1>3 DEF InstTo, At, logVars
  <2>2. ASSUME Undisturbed(p)' PROVE Copied(Len(lh))'
    <3>1. Undisturbed(p)
      BY <1>3, <2>2, InstToCache, OwnUndisturbed
    <3>2. Copied(Len(lh))
      BY <2>1, <3>1 DEF Copying, CopyState
    <3>3. \A a \in Home : Contents(a)' = Contents(a)
      BY <1>3, <3>1, InstToContents
    <3>4. \A i \in 1..Len(lh) : lh[i] \in Home
      BY DEF CacheInv, Shape
    <3> QED
      BY <2>1, <3>2, <3>3, <3>4 DEF Copied, Contents
  <2> QED
    BY <2>1, <2>2 DEF CopyState
<1>4. CASE clear_head(p) \/ erase_head(p)
  <2>1. pc'[p] \in {"erase_head", "finish"}
    BY <1>0, <1>4 DEF clear_head, erase_head, HeadWritten
  <2> QED
    BY <2>1 DEF CopyState
<1> QED
  BY <1>1, <1>2, <1>3, <1>4

(* Every step of a caller keeps what is said of the commits.               *)
LEMMA StepCopying ==
    ASSUME NEW p \in Caller, CacheInv, CommitInv, OneCommit, StepOf(p)
    PROVE  Copying'
<1> SUFFICES ASSUME Up' PROVE \A r \in Caller : CopyState(r)'
  BY DEF Copying
<1>1. Flags /\ Copying
  BY DEF CommitInv
<1>2. \A r \in Caller \ {p} : CopyState(r)'
  BY <1>1, BystanderCopy
<1>3. CopyState(p)'
  <2>1. CASE LogTo(p) \/ InstFrom(p)
    BY <1>1, <2>1, SlotCopy
  <2>2. CASE LogFrom(p)
    BY <1>1, <2>2, LogFromCopy
  <2>3. CASE commit(p) \/ write_head(p) \/ InstTo(p) \/ clear_head(p) \/ erase_head(p)
    BY <1>1, <2>3, HeadCopy
  <2>4. CASE sync1(p) \/ ForceSync(p) \/ Finish(p)
    <3>1. pc'[p] \in {"ssleep", "commit", "synced"}
      BY <2>4, OwnPoint DEF sync1, ForceSync, Finish, Wakes
    <3> QED
      BY <3>1 DEF CopyState
  <2>5. CASE \/ Start(p) \/ begin_op(p) \/ end_op(p) \/ sys_sync(p) \/ Return(p)
             \/ bget(p) \/ acquiresleep(p) \/ Find(p) \/ log_write(p)
             \/ \E b \in Home : bread(p, b) \/ brelse(p, b) \/ \E v \in Val : Modify(p, b, v)
    BY <1>1, <2>5, CallFlags, CopyIdle
  <2> QED
    BY <2>1, <2>2, <2>3, <2>4, <2>5
       DEF StepOf, CallerStep, LeaveOp, BgetStep, CommitStep
<1> QED
  BY <1>2, <1>3

(* The steps of no caller.                                                 *)
LEMMA OtherCopying ==
    ASSUME CacheInv, CommitInv,
           (\E b \in Home : Recycle(b)) \/ Crash \/ RecoverInstall \/ RecoverClear
    PROVE  Copying'
<1>1. ASSUME NEW b \in Home, Recycle(b) PROVE Copying'
  <2>1. Up /\ UNCHANGED <<logdata, lh, pc, tail, home, forced>>
    BY <1>1 DEF Recycle, onDisk, logVars, callerVars
  <2>2. \A a \in Home : Contents(a)' = Contents(a)
    BY <1>1, RecycleCache
  <2>3. ASSUME NEW r \in Caller PROVE CopyState(r)'
    <3>1. CopyState(r)
      BY <2>1 DEF CommitInv, Copying
    <3>2. Undisturbed(r)' <=> Undisturbed(r)
      BY <2>1 DEF Undisturbed
    <3> QED
      BY <2>1, <2>2, <3>1, <3>2, CopyFrame
  <2> QED
    BY <2>3 DEF Copying
<1>2. CASE Crash \/ RecoverInstall
  BY <1>2 DEF Crash, RecoverInstall, Copying, Up
<1>3. CASE RecoverClear
  <2>1. \A r \in Caller : pc'[r] = "out"
    BY <1>3 DEF RecoverClear, callerVars, CacheInv, Recovery
  <2>2. \A r \in Caller : pc'[r] \notin Busy
    BY <2>1 DEF Busy, CommitPoints
  <2> QED
    BY <2>2, CopyIdle DEF Copying
<1> QED
  BY <1>1, <1>2, <1>3

(* Every step keeps the invariant, as long as commits do not overlap.      *)
LEMMA NextCommit ==
    ASSUME CacheInv, CommitInv, OneCommit, [Next]_vars PROVE CommitInv'
<1>1. CASE UNCHANGED vars
  BY <1>1 DEF CommitInv, Flags, CommitFlagged, Copying, CopyState, Copied, Contents,
     Undisturbed, Up, vars, onDisk, cache, logVars, callerVars
<1>2. ASSUME NEW p \in Caller, StepOf(p) PROVE CommitInv'
  BY <1>2, StepFlags, StepCopying DEF CommitInv
<1>3. CASE (\E b \in Home : Recycle(b)) \/ Crash \/ RecoverInstall \/ RecoverClear
  BY <1>3, OtherFlags, OtherCopying DEF CommitInv
<1> QED
  BY <1>1, <1>2, <1>3 DEF Next, StepOf

(* The initial states.                                                     *)
LEMMA InitCommit == ASSUME Init PROVE CommitInv
<1>1. \A p \in Caller : pc[p] = "out" /\ ~forced[p]
  BY DEF Init
<1>2. committing = FALSE /\ fault = "none"
  BY DEF Init
<1>3. Flags
  BY <1>1, <1>2 DEF Flags, CommitFlagged, Busy, CommitPoints
<1>4. Copying
  BY <1>1 DEF Copying, CopyState
<1> QED
  BY <1>3, <1>4 DEF CommitInv

(* For any number of processes: as long as commits do not overlap,         *)
(* log.committing is up exactly while one is under way, no commit finds it *)
(* down, and the log holds what system calls see unless another call was   *)
(* under way at the same time.                                             *)
THEOREM CommitCorrect == Spec /\ []OneCommit => []CommitInv
<1>1. Init => CommitInv
  BY InitCommit
<1>2. CacheInv /\ CommitInv /\ OneCommit /\ [Next]_vars => CommitInv'
  BY NextCommit
<1> QED
  BY <1>1, <1>2, CacheCorrect, PTL DEF Spec

(* For any number of processes: as long as commits do not overlap, no      *)
(* commit panics for want of the flag.                                     *)
THEOREM CommitFlagCorrect == Spec /\ []OneCommit => []CommitFlagged
<1>1. CommitInv => CommitFlagged
  BY DEF CommitInv, Flags
<1> QED
  BY <1>1, CommitCorrect, PTL

(* A commit with no other call under way.                                  *)
LEMMA CommitStepKeeps ==
    ASSUME NEW p \in Caller, CacheInv, CommitInv, CommitStep(p), Undisturbed(p)
    PROVE  Vol' = Vol
<1>1. mode = "up" /\ mode' = "up"
  <2>1. StepOf(p)
    BY DEF StepOf, CallerStep
  <2> QED
    BY <2>1, StepOthers DEF Up
<1>2. \A b \in Home : Contents(b)' = Contents(b)
  <2>1. CASE LogFrom(p)
    BY <2>1, LogFromContents
  <2>2. CASE InstTo(p)
    BY <2>2, InstToContents DEF CommitInv
  <2>3. CASE ~LogFrom(p) /\ ~InstTo(p)
    <3>1. UNCHANGED <<disk, buf>>
      BY <2>3 DEF CommitStep, commit, LogTo, write_head, InstFrom, NextSlot, clear_head,
         erase_head, HeadWritten, Finish, Return, onDisk, cache
    <3> QED
      BY <3>1 DEF Contents
  <2> QED
    BY <2>1, <2>2, <2>3
<1> QED
  BY <1>1, <1>2 DEF Vol

(* For any number of processes, calls under way or not: as long as commits *)
(* do not overlap, a commit changes nothing that system calls read once    *)
(* the others have no call under way.  Whoever might have changed a block  *)
(* between its copy and its installation waits in end_op.                  *)
THEOREM ContentsCorrect == Spec /\ []OneCommit => CommitKeepsContents
<1>1. CacheInv /\ CommitInv /\ [Next]_vars =>
        [\A p \in Caller : CommitStep(p) /\ Undisturbed(p) => Vol' = Vol]_vars
  BY CommitStepKeeps
<1> QED
  BY <1>1, CacheCorrect, CommitCorrect, PTL DEF Spec, CommitKeepsContents

----------------------------------------------------------------------------
(* Commits with no other call under way.                                   *)

(* Such commits do not overlap.                                            *)
LEMMA AloneOne == ASSUME CommitsAlone PROVE OneCommit
<1>1. Aside \cap Busy = {}
  BY DEF Aside, Busy, CommitPoints
<1> QED
  BY <1>1 DEF CommitsAlone, OneCommit, Undisturbed

(* A caller with no commit under way has nothing to say about it.          *)
LEMMA InstallIdle ==
    ASSUME NEW r, pc'[r] \notin Busy PROVE Installing(r)'
BY DEF Installing, Busy, CommitPoints

(* A step that leaves the disk, the log and the pinned buffers alone and   *)
(* moves nobody into or within the second half of a commit.                *)
LEMMA LogFrame ==
    ASSUME Up, LogExact, UNCHANGED <<disk, logdata, hdr, dirty, lh>>,
           \A r \in Caller :
              /\ pc[r] \in InstallPoints => pc'[r] = pc[r]
              /\ pc'[r] \in InstallPoints \cup {"write_head", "finish"} =>
                   pc'[r] = pc[r] /\ tail'[r] = tail[r]
    PROVE  LogExact'
<1>1. \A n : Installed(n)' <=> Installed(n)
  BY DEF Installed
<1>2. ASSUME NEW r \in Caller PROVE Installing(r)'
  <2>1. CASE pc'[r] \notin InstallPoints \cup {"write_head", "finish"}
    BY <2>1 DEF Installing, InstallPoints
  <2>2. CASE pc'[r] \in InstallPoints \cup {"write_head", "finish"}
    <3>1. pc'[r] = pc[r] /\ tail'[r] = tail[r] /\ Installing(r)
      BY <2>2 DEF LogExact
    <3> QED
      BY <3>1 DEF Installing, Installed
  <2> QED
    BY <2>1, <2>2
<1>3. ASSUME \A r \in Caller : pc'[r] \notin InstallPoints
      PROVE  hdr' = <<>> /\ dirty' = Range(lh')
  <2>1. \A r \in Caller : pc[r] \notin InstallPoints
    BY <1>3
  <2> QED
    BY <2>1 DEF LogExact
<1> QED
  BY <1>2, <1>3 DEF LogExact

(* The steps outside a commit, but for log_write.                          *)
LEMMA CallExact ==
    ASSUME NEW p \in Caller, CacheInv, Flags, LogExact,
           \/ Start(p) \/ begin_op(p) \/ end_op(p) \/ sys_sync(p) \/ Return(p)
           \/ bget(p) \/ acquiresleep(p) \/ Find(p)
           \/ \E b \in Home : bread(p, b) \/ brelse(p, b) \/ \E v \in Val : Modify(p, b, v)
    PROVE  LogExact'
<1>1. OthersKept(p) /\ Up
  BY StepOthers DEF StepOf, CallerStep, LeaveOp, BgetStep, CommitStep
<1>2. pc[p] \notin Busy /\ pc'[p] \notin Busy
  BY CallFlags
<1>3. UNCHANGED <<disk, logdata, hdr, dirty, lh>>
  BY DEF Start, begin_op, end_op, sys_sync, Return, bget, acquiresleep, Find, bread, brelse,
     Modify, onDisk, cache, logVars
<1>4. InstallPoints \cup {"write_head", "finish"} \subseteq Busy
  BY DEF InstallPoints, Busy, CommitPoints
<1>5. \A r \in Caller :
        /\ pc[r] \in InstallPoints => pc'[r] = pc[r]
        /\ pc'[r] \in InstallPoints \cup {"write_head", "finish"} =>
             pc'[r] = pc[r] /\ tail'[r] = tail[r]
  <2>1. \A r \in Caller \ {p} :
          /\ pc[r] \in CommitPoints => pc'[r] = pc[r]
          /\ pc'[r] \in Busy => pc'[r] = pc[r]
          /\ tail'[r] = tail[r]
    BY <1>1, OthersPoints DEF OthersKept
  <2> QED
    BY <1>2, <1>4, <2>1 DEF Busy
<1> QED
  BY <1>1, <1>3, <1>5, LogFrame

(* The steps that begin and end a commit, and the head of its first loop   *)
(* while it goes on.                                                       *)
LEMMA EdgeExact ==
    ASSUME NEW p \in Caller, CacheInv, Flags, LogExact,
           \/ sync1(p) \/ ForceSync(p) \/ Finish(p)
           \/ LogTo(p) /\ pc'[p] = "log_from"
    PROVE  LogExact'
<1>1. OthersKept(p) /\ Up
  BY StepOthers DEF StepOf, CallerStep, BgetStep, CommitStep
<1>2. /\ pc[p] \in {"sync1", "force", "finish", "log_to"}
      /\ pc'[p] \in {"ssleep", "commit", "synced", "log_from"}
  BY OwnPoint DEF sync1, ForceSync, Finish, Wakes, LogTo, NextSlot, At
<1>3. UNCHANGED <<disk, logdata, hdr, dirty, lh>>
  BY DEF sync1, ForceSync, Finish, LogTo, NextSlot, onDisk, cache, logVars
<1>4. InstallPoints \cup {"write_head", "finish"} \subseteq Busy
  BY DEF InstallPoints, Busy, CommitPoints
<1>5. \A r \in Caller :
        /\ pc[r] \in InstallPoints => pc'[r] = pc[r]
        /\ pc'[r] \in InstallPoints \cup {"write_head", "finish"} =>
             pc'[r] = pc[r] /\ tail'[r] = tail[r]
  <2>1. \A r \in Caller \ {p} :
          /\ pc[r] \in CommitPoints => pc'[r] = pc[r]
          /\ pc'[r] \in Busy => pc'[r] = pc[r]
          /\ tail'[r] = tail[r]
    BY <1>1, OthersPoints DEF OthersKept
  <2>2. pc[p] \notin InstallPoints /\ pc'[p] \notin InstallPoints \cup {"write_head", "finish"}
    BY <1>2 DEF InstallPoints
  <2> QED
    BY <1>4, <2>1, <2>2 DEF Busy
<1> QED
  BY <1>1, <1>3, <1>5, LogFrame

(* Nobody else is in a commit.                                             *)
LEMMA OnlyCommit ==
    ASSUME NEW p \in Caller, OneCommit, OthersKept(p), pc[p] \in Busy
    PROVE  \A r \in Caller \ {p} : pc[r] \notin Busy /\ pc'[r] \notin Busy /\ Installing(r)'
<1>1. \A r \in Caller \ {p} : pc[r] \notin Busy
  BY DEF OneCommit
<1>2. \A r \in Caller \ {p} : pc'[r] \notin Busy
  BY <1>1, OthersPoints
<1> QED
  BY <1>1, <1>2, InstallIdle

(* log_write pins what it notes.                                           *)
LEMMA LogWriteExact ==
    ASSUME NEW p \in Caller, CacheInv, LogExact, CommitsAlone, log_write(p)
    PROVE  LogExact'
<1> DEFINE b == want[p]
<1>1. /\ Up /\ pc[p] = "log_write" /\ b \in Home /\ dirty' = dirty \cup {b} /\ hdr' = hdr
      /\ lh' = IF b \in Range(lh) THEN lh ELSE Append(lh, b)
  BY DEF log_write, At, onDisk, Pinned, CacheInv, Shape
<1>2. \A r \in Caller : pc[r] \notin Busy
  <2>1. pc[p] \notin Aside /\ pc[p] \notin Busy
    BY <1>1 DEF Aside, Busy, CommitPoints
  <2> QED
    BY <2>1 DEF CommitsAlone, Undisturbed
<1>3. OthersKept(p) /\ pc'[p] = "op"
  BY LogWriteCache, OwnPoint DEF log_write
<1>4. \A r \in Caller : pc'[r] \notin Busy
  BY <1>2, <1>3, OthersPoints DEF Busy, CommitPoints
<1>5. hdr = <<>> /\ dirty = Range(lh)
  BY <1>1, <1>2 DEF LogExact, InstallPoints, Busy, CommitPoints
<1>6. dirty' = Range(lh')
  <2>1. lh \in Seq(Home) /\ IsInjective(lh)
    BY DEF CacheInv, Shape
  <2>2. CASE b \in Range(lh)
    BY <1>1, <1>5, <2>2
  <2>3. CASE b \notin Range(lh)
    BY <1>1, <1>5, <2>1, <2>3, AppendFresh
  <2> QED
    BY <2>2, <2>3
<1> QED
  BY <1>1, <1>4, <1>5, <1>6, InstallIdle DEF LogExact

(* The first half of a commit: nothing is in the header yet.               *)
LEMMA FirstHalfExact ==
    ASSUME NEW p \in Caller, CacheInv, Flags, LogExact, OneCommit,
           commit(p) \/ LogFrom(p) \/ (LogTo(p) /\ pc'[p] # "log_from")
    PROVE  LogExact'
<1>0. \A point : Goto(p, point) => pc'[p] = point
  BY OwnPoint
<1>1. OthersKept(p) /\ Up
  BY StepOthers DEF StepOf, CallerStep, CommitStep
<1>2. pc[p] \in {"commit", "log_from", "log_to"} /\ UNCHANGED <<hdr, dirty, lh>>
  BY DEF commit, LogFrom, LogTo, NextSlot, At, onDisk, cache, logVars
<1>3. \A r \in Caller \ {p} : pc[r] \notin Busy /\ pc'[r] \notin Busy /\ Installing(r)'
  <2>1. pc[p] \in Busy
    BY <1>2 DEF Busy, CommitPoints
  <2> QED
    BY <1>1, <2>1, OnlyCommit
<1>4. hdr = <<>> /\ dirty = Range(lh)
  <2>1. \A r \in Caller : pc[r] \notin InstallPoints
    BY <1>2, <1>3 DEF InstallPoints, Busy, CommitPoints
  <2> QED
    BY <1>1, <2>1 DEF LogExact
<1>5. Installing(p)'
  <2>1. CASE commit(p)
    <3>1. pc'[p] \in {"commit", "log_to"} \/ (pc'[p] = "finish" /\ lh = <<>>)
      BY <1>0, <2>1 DEF commit, At
    <3> QED
      BY <1>2, <3>1 DEF Installing
  <2>2. CASE LogFrom(p)
    <3>1. pc'[p] = "log_to"
      BY <1>0, <2>2 DEF LogFrom
    <3> QED
      BY <3>1 DEF Installing
  <2>3. CASE LogTo(p) /\ pc'[p] # "log_from"
    <3>1. pc'[p] = "write_head" /\ tail' = [tail EXCEPT ![p] = 1]
      BY <1>0, <2>3 DEF LogTo, NextSlot
    <3>2. tail'[p] = 1
      BY <3>1 DEF CacheInv, Shape
    <3> QED
      BY <3>1, <3>2 DEF Installing
  <2> QED
    BY <2>1, <2>2, <2>3
<1> QED
  BY <1>2, <1>3, <1>4, <1>5 DEF LogExact

(* The second half: what is said of the committer is all there is to say.  *)
LEMMA SecondHalf ==
    ASSUME NEW p \in Caller, OneCommit, OthersKept(p), pc[p] \in Busy,
           pc'[p] \in InstallPoints, Installing(p)'
    PROVE  LogExact'
BY OnlyCommit DEF LogExact

(* The commit point.                                                       *)
LEMMA WriteHeadExact ==
    ASSUME NEW p \in Caller, CacheInv, LogExact, OneCommit, write_head(p), Up'
    PROVE  LogExact' /\ hdr' = lh /\ hdr = <<>> /\ dirty = Range(lh)
<1>1. /\ Up /\ pc[p] = "write_head" /\ Goto(p, "inst_from") /\ UNCHANGED <<dirty, lh, tail>>
      /\ fault' = BreadFault /\ hdr' = IF BreadFault = "none" THEN lh ELSE hdr
  BY DEF write_head, HeadWritten, At, cache, logVars
<1>2. hdr' = lh
  BY <1>1 DEF Up
<1>3. OthersKept(p) /\ pc'[p] = "inst_from"
  BY <1>1, HeadCache, OwnPoint
<1>4. pc[p] \in Busy /\ pc'[p] \in InstallPoints
  BY <1>1, <1>3 DEF Busy, CommitPoints, InstallPoints
<1>5. hdr = <<>> /\ dirty = Range(lh) /\ tail[p] = 1
  <2>1. \A r \in Caller : pc[r] \notin InstallPoints
    BY <1>1, <1>3, <1>4, OnlyCommit DEF InstallPoints, Busy, CommitPoints
  <2>2. Installing(p)
    BY <1>1 DEF LogExact
  <2> QED
    BY <1>1, <2>1, <2>2 DEF LogExact, Installing
<1>6. Installing(p)'
  <2>1. lh \in Seq(Home) /\ Len(lh) \in Nat /\ DOMAIN lh = 1..Len(lh)
    BY DEF CacheInv, Shape
  <2>2. Range(lh) = {lh[i] : i \in 1..Len(lh)}
    BY <2>1 DEF Range
  <2>3. tail'[p] = 1 /\ tail'[p] <= Len(lh') + 1 /\ tail'[p] - 1 = 0
    BY <1>1, <1>5, <2>1
  <2>4. Installed(tail[p] - 1)'
    BY <2>3 DEF Installed
  <2> QED
    BY <1>1, <1>2, <1>3, <1>5, <2>2, <2>3, <2>4 DEF Installing
<1> QED
  BY <1>2, <1>3, <1>4, <1>5, <1>6, SecondHalf

(* The head of the loop of install_trans.                                  *)
LEMMA InstFromExact ==
    ASSUME NEW p \in Caller, CacheInv, LogExact, OneCommit, InstFrom(p)
    PROVE  LogExact'
<1>0. \A point : Goto(p, point) => pc'[p] = point
  BY OwnPoint
<1>1. Up /\ QuietStep(p)
  BY QuietCommit
<1>2. /\ pc[p] = "inst_from" /\ UNCHANGED <<disk, logdata, hdr, dirty, lh>>
      /\ \/ ~(tail[p] <= Len(lh)) /\ pc'[p] = "clear_head"
         \/ pc'[p] = "inst_to" /\ tail' = tail
  BY <1>0 DEF InstFrom, NextSlot, MoreSlots, At, onDisk, cache, logVars
<1>3. /\ hdr = lh /\ tail[p] <= Len(lh) + 1 /\ Installed(tail[p] - 1)
      /\ dirty = {lh[i] : i \in tail[p]..Len(lh)}
  BY <1>1, <1>2 DEF LogExact, Installing
<1>4. tail[p] \in Nat \ {0} /\ Len(lh) \in Nat
  BY DEF CacheInv, Shape
<1>5. Installing(p)'
  <2>1. CASE pc'[p] = "inst_to" /\ tail' = tail
    BY <1>2, <1>3, <2>1 DEF Installing, Installed
  <2>2. CASE ~(tail[p] <= Len(lh)) /\ pc'[p] = "clear_head"
    <3>1. tail[p] - 1 = Len(lh) /\ tail[p]..Len(lh) = {}
      BY <1>3, <1>4, <2>2
    <3>2. Installed(Len(hdr)) /\ dirty = {}
      BY <1>3, <3>1
    <3> QED
      BY <1>2, <1>3, <2>2, <3>2 DEF Installing, Installed
  <2> QED
    BY <1>2, <2>1, <2>2
<1>6. OthersKept(p) /\ pc[p] \in Busy /\ pc'[p] \in InstallPoints
  BY <1>1, <1>2 DEF QuietStep, Busy, CommitPoints, InstallPoints
<1> QED
  BY <1>5, <1>6, SecondHalf

(* One more block is in its place and no longer pinned.                    *)
LEMMA InstToExact ==
    ASSUME NEW p \in Caller, CacheInv, Copying, LogExact, OneCommit, InstTo(p)
    PROVE  /\ LogExact'
           /\ \A a \in Home : (\A i \in 1..Len(hdr) : hdr[i] # a) => disk'[a] = disk[a]
<1> DEFINE t == tail[p]
           b == home[p]
<1>1. /\ Up /\ pc[p] = "inst_to" /\ Goto(p, "inst_from") /\ UNCHANGED <<logdata, hdr, lh>>
      /\ disk' = [disk EXCEPT ![b] = logdata[t]] /\ dirty' = dirty \ {b}
      /\ tail' = [tail EXCEPT ![p] = @ + 1]
  BY DEF InstTo, At, logVars
<1>2. OthersKept(p) /\ pc'[p] = "inst_from"
  BY <1>1, InstToCache, OwnPoint
<1>3. /\ hdr = lh /\ Installed(t - 1) /\ dirty = {lh[i] : i \in t..Len(lh)}
  BY <1>1 DEF LogExact, Installing
<1>4. /\ t \in Nat \ {0} /\ tail'[p] = t + 1 /\ lh \in Seq(Home) /\ Len(lh) \in Nat
      /\ IsInjective(lh) /\ IsFcn(disk, Home)
  BY <1>1 DEF CacheInv, Shape
<1>5. t \in 1..Len(lh) /\ b = lh[t] /\ b \in Home
  BY <1>1, <1>4 DEF Copying, CopyState
<1>6. \A a \in Home : disk'[a] = IF a = b THEN logdata[t] ELSE disk[a]
  BY <1>1, <1>4 DEF IsFcn
<1>7. \A i, j \in 1..Len(lh) : lh[i] = lh[j] => i = j
  BY <1>4 DEF IsInjective
<1>8. ASSUME NEW i \in 1..t PROVE disk'[hdr[i]] = logdata[i]
  <2>1. (i = t \/ i \in 1..(t - 1)) /\ i \in 1..Len(lh)
    BY <1>4, <1>5
  <2>2. lh[i] \in Home /\ (i # t => lh[i] # b)
    BY <1>4, <1>5, <1>7, <2>1
  <2>3. i \in 1..(t - 1) => disk[hdr[i]] = logdata[i]
    BY <1>3 DEF Installed
  <2> QED
    BY <1>3, <1>5, <1>6, <2>1, <2>2, <2>3
<1>9. dirty' = {lh[i] : i \in (t + 1)..Len(lh)}
  <2>1. ASSUME NEW x, x \in dirty' PROVE x \in {lh[i] : i \in (t + 1)..Len(lh)}
    <3>1. PICK i \in t..Len(lh) : x = lh[i]
      BY <1>1, <1>3, <2>1
    <3>2. i # t
      BY <1>1, <1>5, <2>1, <3>1
    <3>3. i \in (t + 1)..Len(lh)
      BY <1>4, <3>1, <3>2
    <3> QED
      BY <3>1, <3>3
  <2>2. ASSUME NEW i \in (t + 1)..Len(lh) PROVE lh[i] \in dirty'
    <3>1. i \in t..Len(lh) /\ i \in 1..Len(lh) /\ i # t
      BY <1>4
    <3>2. lh[i] \in dirty /\ lh[i] # b
      BY <1>3, <1>5, <1>7, <3>1
    <3> QED
      BY <1>1, <3>2
  <2> QED
    BY <2>1, <2>2
<1>10. Installing(p)'
  <2>1. tail'[p] - 1 = t /\ tail'[p] <= Len(lh') + 1
    BY <1>1, <1>4, <1>5
  <2>2. Installed(tail[p] - 1)'
    BY <1>1, <1>8, <2>1 DEF Installed
  <2> QED
    BY <1>1, <1>2, <1>3, <1>4, <1>9, <2>1, <2>2 DEF Installing
<1>11. pc[p] \in Busy /\ pc'[p] \in InstallPoints
  BY <1>1, <1>2 DEF Busy, CommitPoints, InstallPoints
<1>12. \A a \in Home : (\A i \in 1..Len(hdr) : hdr[i] # a) => disk'[a] = disk[a]
  BY <1>3, <1>5, <1>6
<1> QED
  BY <1>2, <1>10, <1>11, <1>12, SecondHalf

(* The header in memory is emptied, then the one on disk.                  *)
LEMMA ClearExact ==
    ASSUME NEW p \in Caller, CacheInv, LogExact, OneCommit, clear_head(p) \/ erase_head(p), Up'
    PROVE  LogExact'
<1>0. OthersKept(p)
  BY HeadCache
<1>1. CASE clear_head(p)
  <2>1. /\ Up /\ pc[p] = "clear_head" /\ lh' = <<>>
        /\ UNCHANGED <<disk, logdata, hdr, dirty>>
    BY <1>1 DEF clear_head, At, onDisk, cache
  <2>2. Installed(Len(hdr)) /\ dirty = {}
    BY <2>1 DEF LogExact, Installing
  <2>3. pc'[p] = "erase_head"
    BY <1>1, OwnPoint DEF clear_head
  <2>4. Installing(p)'
    BY <2>1, <2>2, <2>3 DEF Installing, Installed
  <2>5. pc[p] \in Busy /\ pc'[p] \in InstallPoints
    BY <2>1, <2>3 DEF Busy, CommitPoints, InstallPoints
  <2> QED
    BY <1>0, <2>4, <2>5, SecondHalf
<1>2. CASE erase_head(p)
  <2>1. /\ Up /\ pc[p] = "erase_head" /\ UNCHANGED <<lh, dirty>>
        /\ fault' = BreadFault /\ hdr' = IF BreadFault = "none" THEN lh ELSE hdr
    BY <1>2 DEF erase_head, HeadWritten, At, cache, logVars
  <2>2. lh = <<>> /\ dirty = {}
    BY <2>1 DEF LogExact, Installing
  <2>3. hdr' = <<>>
    BY <2>1, <2>2 DEF Up
  <2>4. pc'[p] = "finish"
    BY <1>2, OwnPoint DEF erase_head, HeadWritten
  <2>5. Range(<<>>) = {}
    BY DEF Range
  <2>6. Installing(p)'
    BY <2>1, <2>2, <2>4 DEF Installing
  <2>7. pc[p] \in Busy
    BY <2>1 DEF Busy, CommitPoints
  <2> QED
    BY <1>0, <2>1, <2>2, <2>3, <2>5, <2>6, <2>7, OnlyCommit DEF LogExact
<1> QED
  BY <1>1, <1>2

(* The steps of no caller.                                                 *)
LEMMA OtherExact ==
    ASSUME CacheInv, LogExact,
           (\E b \in Home : Recycle(b)) \/ Crash \/ RecoverInstall \/ RecoverClear
    PROVE  LogExact'
<1>1. CASE \E b \in Home : Recycle(b)
  <2>1. Up /\ UNCHANGED <<disk, logdata, hdr, dirty, lh, pc, tail>>
    BY <1>1 DEF Recycle, onDisk, logVars, callerVars
  <2> QED
    BY <2>1, LogFrame
<1>2. CASE Crash \/ RecoverInstall
  BY <1>2 DEF Crash, RecoverInstall, LogExact, Up
<1>3. CASE RecoverClear
  <2>1. hdr' = <<>> /\ lh' = <<>> /\ dirty' = {} /\ \A r \in Caller : pc'[r] = "out"
    BY <1>3 DEF RecoverClear, cache, logVars, callerVars, CacheInv, Recovery
  <2>2. Range(<<>>) = {}
    BY DEF Range
  <2>3. \A r \in Caller : Installing(r)'
    BY <2>1 DEF Installing
  <2> QED
    BY <2>1, <2>2, <2>3 DEF LogExact
<1> QED
  BY <1>1, <1>2, <1>3

(* Every step keeps the invariant, as long as commits run alone.           *)
LEMMA NextExact ==
    ASSUME CacheInv, CommitInv, LogExact, CommitsAlone, [Next]_vars PROVE LogExact'
<1>0. OneCommit /\ Flags /\ Copying
  BY AloneOne DEF CommitInv
<1>1. CASE UNCHANGED vars
  BY <1>1 DEF LogExact, Installing, Installed, Up, vars, onDisk, cache, logVars, callerVars
<1>2. ASSUME NEW p \in Caller, StepOf(p) PROVE LogExact'
  <2>1. CASE ~Up'
    BY <2>1 DEF LogExact
  <2>2. CASE Up'
    <3>1. CASE \/ Start(p) \/ begin_op(p) \/ end_op(p) \/ sys_sync(p) \/ Return(p)
               \/ bget(p) \/ acquiresleep(p) \/ Find(p)
               \/ \E b \in Home : bread(p, b) \/ brelse(p, b) \/ \E v \in Val : Modify(p, b, v)
      BY <1>0, <3>1, CallExact
    <3>2. CASE log_write(p)
      BY <3>2, LogWriteExact
    <3>3. CASE \/ sync1(p) \/ ForceSync(p) \/ Finish(p) \/ (LogTo(p) /\ pc'[p] = "log_from")
      BY <1>0, <3>3, EdgeExact
    <3>4. CASE commit(p) \/ LogFrom(p) \/ (LogTo(p) /\ pc'[p] # "log_from")
      BY <1>0, <3>4, FirstHalfExact
    <3>5. CASE write_head(p) \/ InstFrom(p)
      BY <1>0, <2>2, <3>5, WriteHeadExact, InstFromExact
    <3>6. CASE InstTo(p) \/ clear_head(p) \/ erase_head(p)
      BY <1>0, <2>2, <3>6, InstToExact, ClearExact
    <3> QED
      BY <1>2, <3>1, <3>2, <3>3, <3>4, <3>5, <3>6
         DEF StepOf, CallerStep, LeaveOp, BgetStep, CommitStep
  <2> QED
    BY <2>1, <2>2
<1>3. CASE (\E b \in Home : Recycle(b)) \/ Crash \/ RecoverInstall \/ RecoverClear
  BY <1>3, OtherExact
<1> QED
  BY <1>1, <1>2, <1>3 DEF Next, StepOf

(* The initial states.                                                     *)
LEMMA InitExact == ASSUME Init PROVE LogExact
<1>1. hdr = <<>> /\ lh = <<>> /\ dirty = {} /\ \A r \in Caller : pc[r] = "out"
  BY DEF Init
<1>2. Range(<<>>) = {}
  BY DEF Range
<1> QED
  BY <1>1, <1>2 DEF LogExact, Installing

(* For any number of processes: as long as no other call is under way      *)
(* while a commit runs, the header on disk is empty or that of the commit  *)
(* being installed, and exactly the blocks that are noted and not yet      *)
(* installed are pinned.                                                   *)
THEOREM LogExactCorrect == Spec /\ []CommitsAlone => []LogExact
<1>1. Init => LogExact
  BY InitExact
<1>2. CacheInv /\ CommitInv /\ LogExact /\ CommitsAlone /\ [Next]_vars => LogExact'
  BY NextExact
<1>3. CommitsAlone => OneCommit
  BY AloneOne
<1> QED
  BY <1>1, <1>2, <1>3, CacheCorrect, CommitCorrect, PTL DEF Spec

(* The commit point: once every block is copied, the header makes a crash  *)
(* leave exactly what system calls see.                                    *)
LEMMA CommitPoint ==
    ASSUME NEW p \in Caller, CacheInv, Copying, CommitsAlone, Up, pc[p] = "write_head",
           dirty = Range(lh)
    PROVE  RecoveredOf(lh, logdata, disk) = [b \in Home |-> Contents(b)]
<1>1. Undisturbed(p)
  BY DEF CommitsAlone, Busy, CommitPoints
<1>2. Copied(Len(lh))
  BY <1>1 DEF Copying, CopyState
<1>3. lh \in Seq(Home) /\ IsInjective(lh) /\ DOMAIN lh = 1..Len(lh)
  BY DEF CacheInv, Shape
<1>4. \A r \in Caller : pc[r] # "log_write"
  BY <1>1 DEF Undisturbed, Aside
<1>5. ASSUME NEW b \in Home PROVE RecoveredOf(lh, logdata, disk)[b] = Contents(b)
  <2>1. CASE \E i \in 1..Len(lh) : lh[i] = b
    <3>1. PICK i \in 1..Len(lh) : lh[i] = b
      BY <2>1
    <3>2. logdata[i] = Contents(b)
      BY <1>2, <3>1 DEF Copied
    <3> QED
      BY <1>3, <3>1, <3>2, RecoveredFacts
  <2>2. CASE \A i \in 1..Len(lh) : lh[i] # b
    <3>1. b \notin dirty
      BY <1>3, <2>2, Zenon DEF Range
    <3>2. buf[b] = None \/ buf[b] = disk[b]
      BY <1>4, <3>1 DEF CacheInv, CleanBuffers
    <3> QED
      BY <1>3, <2>2, <3>2, RecoveredFacts DEF Contents
  <2> QED
    BY <2>1, <2>2
<1> QED
  BY <1>5 DEF RecoveredOf

(* What every step of a caller does to what a crash leaves.                *)
LEMMA RecoveredStep ==
    ASSUME NEW p \in Caller, CacheInv, CommitInv, LogExact, CommitsAlone, StepOf(p)
    PROVE  Recovered' = Recovered \/ Recovered' = Vol
<1>0. OneCommit /\ Copying /\ Up /\ Recovered = RecoveredOf(hdr, logdata, disk)
  BY AloneOne, StepOthers, HeaderTyped DEF CommitInv
<1>1. Recovered' = RecoveredOf(hdr', logdata', disk')
  BY DEF Recovered, RecoveredOf
<1>2. CASE LogFrom(p)
  <2>1. pc[p] = "log_from" /\ UNCHANGED <<disk, hdr>>
    BY <1>2 DEF LogFrom, At
  <2>2. hdr = <<>>
    <3>1. OthersKept(p) /\ pc[p] \in Busy
      BY <1>2, <2>1, LogFromCache DEF Busy, CommitPoints
    <3>2. \A r \in Caller : pc[r] \notin InstallPoints
      BY <1>0, <2>1, <3>1, OnlyCommit DEF InstallPoints, Busy, CommitPoints
    <3> QED
      BY <1>0, <3>2 DEF LogExact
  <2>3. \A ld : RecoveredOf(<<>>, ld, disk) = disk
    BY HeaderTyped, RecoveredEmpty
  <2> QED
    BY <1>0, <1>1, <2>1, <2>2, <2>3
<1>3. CASE write_head(p)
  <2>1. UNCHANGED <<disk, logdata>> /\ hdr' \in {hdr, lh} /\ fault' = BreadFault /\ mode' = mode
    BY <1>3 DEF write_head, HeadWritten
  <2>2. CASE BreadFault # "none"
    <3>1. hdr' = hdr
      BY <1>3, <2>2 DEF write_head, HeadWritten
    <3> QED
      BY <1>0, <1>1, <2>1, <3>1
  <2>3. CASE BreadFault = "none"
    <3>1. Up'
      BY <1>0, <2>1, <2>3 DEF Up
    <3>2. hdr' = lh /\ dirty = Range(lh) /\ pc[p] = "write_head"
      BY <1>0, <1>3, <3>1, WriteHeadExact DEF write_head, At
    <3>3. RecoveredOf(lh, logdata, disk) = [b \in Home |-> Contents(b)]
      BY <1>0, <3>2, CommitPoint
    <3> QED
      BY <1>0, <1>1, <2>1, <3>2, <3>3 DEF Vol, Up
  <2> QED
    BY <2>2, <2>3
<1>4. CASE InstTo(p)
  <2>1. UNCHANGED <<logdata, hdr>>
    BY <1>4 DEF InstTo
  <2>2. \A b \in Home : (\A i \in 1..Len(hdr) : hdr[i] # b) => disk'[b] = disk[b]
    BY <1>0, <1>4, InstToExact
  <2>3. RecoveredOf(hdr, logdata, disk') = RecoveredOf(hdr, logdata, disk)
    BY <2>2, HeaderTyped, RecoveredSame
  <2> QED
    BY <1>0, <1>1, <2>1, <2>3
<1>5. CASE erase_head(p)
  <2>1. pc[p] = "erase_head" /\ UNCHANGED <<disk, logdata>> /\ hdr' \in {hdr, lh}
    BY <1>5 DEF erase_head, HeadWritten, At
  <2>2. lh = <<>> /\ Installed(Len(hdr))
    BY <1>0, <2>1 DEF LogExact, Installing
  <2>3. Recovered = disk /\ IsFcn(disk, Home)
    BY <2>2, HeaderTyped, RecoveredInstalled
  <2>4. RecoveredOf(<<>>, logdata, disk) = disk
    BY <2>3, RecoveredEmpty
  <2> QED
    BY <1>0, <1>1, <2>1, <2>2, <2>3, <2>4
<1>6. CASE ~LogFrom(p) /\ ~write_head(p) /\ ~InstTo(p) /\ ~erase_head(p)
  <2>1. UNCHANGED <<disk, logdata, hdr>>
    <3>1. CASE \/ Start(p) \/ begin_op(p) \/ end_op(p) \/ sys_sync(p) \/ sync1(p) \/ Return(p)
      BY <3>1, QuietCalls DEF QuietStep
    <3>2. CASE \/ bget(p) \/ ForceSync(p) \/ acquiresleep(p)
               \/ \E b \in Home : bread(p, b) \/ brelse(p, b)
      BY <3>2, QuietBread DEF QuietStep
    <3>3. CASE commit(p) \/ LogTo(p) \/ InstFrom(p) \/ Finish(p)
      BY <3>3, QuietCommit DEF QuietStep
    <3>4. CASE \/ Find(p) \/ log_write(p) \/ clear_head(p)
               \/ \E b \in Home, v \in Val : Modify(p, b, v)
      BY <3>4 DEF Find, log_write, clear_head, Modify, onDisk
    <3> QED
      BY <1>6, <3>1, <3>2, <3>3, <3>4 DEF StepOf, CallerStep, LeaveOp, BgetStep, CommitStep
  <2> QED
    BY <2>1, RecoveredKept
<1> QED
  BY <1>2, <1>3, <1>4, <1>5, <1>6

(* For any number of processes: as long as no other call is under way      *)
(* while a commit runs, a commit is all or nothing, through any number of  *)
(* crashes, also of the recovery itself.                                   *)
THEOREM AllOrNothingCorrect == Spec /\ []CommitsAlone => CommitAllOrNothing
<1>1. CacheInv /\ CommitInv /\ LogExact /\ CommitsAlone /\ [Next]_vars =>
        [Recovered' # Recovered => Recovered' = Vol]_vars
  <2> SUFFICES ASSUME CacheInv, CommitInv, LogExact, CommitsAlone, Next
               PROVE  Recovered' # Recovered => Recovered' = Vol
    OBVIOUS
  <2>1. ASSUME NEW p \in Caller, StepOf(p) PROVE Recovered' # Recovered => Recovered' = Vol
    BY <2>1, RecoveredStep
  <2>2. CASE (\E b \in Home : Recycle(b)) \/ Crash
    <3>1. UNCHANGED <<disk, logdata, hdr>>
      BY <2>2 DEF Recycle, Crash, onDisk
    <3> QED
      BY <3>1, RecoveredKept
  <2>3. CASE RecoverInstall \/ RecoverClear
    BY <2>3, RecoverySteps
  <2> QED
    BY <2>1, <2>2, <2>3 DEF Next, StepOf
<1>2. CommitsAlone => OneCommit
  BY AloneOne
<1> QED
  BY <1>1, <1>2, CacheCorrect, CommitCorrect, LogExactCorrect, PTL
     DEF Spec, CommitAllOrNothing

(* For any number of processes: as long as no other call is under way      *)
(* while a commit runs, everything every system call did is durable when   *)
(* the commit ends, before sync() returns.                                 *)
THEOREM SyncCorrect ==
    Spec /\ []CommitsAlone =>
        [](\A p \in Caller : At(p, "finish") => Recovered = Vol)
<1>1. CacheInv /\ LogExact /\ CommitsAlone =>
        (\A p \in Caller : At(p, "finish") => Recovered = Vol)
  <2> SUFFICES ASSUME CacheInv, LogExact, CommitsAlone, NEW p \in Caller, At(p, "finish")
               PROVE  Recovered = Vol
    OBVIOUS
  <2>1. Up /\ pc[p] = "finish" /\ pc[p] \in Busy
    BY DEF At, Busy, CommitPoints
  <2>2. Undisturbed(p)
    BY <2>1 DEF CommitsAlone
  <2>3. \A r \in Caller : pc[r] # "log_write" /\ pc[r] \notin InstallPoints
    BY <2>1, <2>2 DEF Undisturbed, Aside, InstallPoints
  <2>4. lh = <<>> /\ hdr = <<>> /\ dirty = Range(lh)
    BY <2>1, <2>3 DEF LogExact, Installing
  <2>5. Recovered = disk /\ IsFcn(disk, Home)
    BY <2>4, HeaderTyped, RecoveredEmpty
  <2>6. dirty = {}
    BY <2>4 DEF Range
  <2>7. \A b \in Home : Contents(b) = disk[b]
    BY <2>1, <2>3, <2>6 DEF CacheInv, CleanBuffers, Contents
  <2>8. Vol = [b \in Home |-> disk[b]]
    BY <2>1, <2>7 DEF Vol, Up
  <2> QED
    BY <2>5, <2>8 DEF IsFcn
<1> QED
  BY <1>1, CacheCorrect, LogExactCorrect, PTL

----------------------------------------------------------------------------
(* Waiting for a commit.                                                   *)

(* log.committing is up only while some caller commits, and whoever sleeps *)
(* on the log sleeps while it is up.                                       *)
SleepInv ==
    /\ pc \in [Caller -> CallerPoints]
    /\ committing => \E q \in Caller : pc[q] \in Busy
    /\ \A p \in Caller : pc[p] \in {"bsleep", "esleep", "ssleep"} => committing

(* A caller moves on, not to sleep and not out of commit.                  *)
LEMMA SleepGoto ==
    ASSUME SleepInv, NEW p \in Caller, NEW point \in CallerPoints,
           pc' = [pc EXCEPT ![p] = point], committing' = committing,
           pc[p] \in Busy => point \in Busy,
           point \in {"bsleep", "esleep", "ssleep"} => committing
    PROVE  SleepInv'
<1>1. pc' \in [Caller -> CallerPoints] /\ \A q \in Caller : pc'[q] = IF q = p THEN point ELSE pc[q]
  BY DEF SleepInv
<1>2. committing' => \E q \in Caller : pc'[q] \in Busy
  BY <1>1 DEF SleepInv
<1>3. \A q \in Caller : pc'[q] \in {"bsleep", "esleep", "ssleep"} => committing'
  BY <1>1 DEF SleepInv
<1> QED
  BY <1>1, <1>2, <1>3 DEF SleepInv

(* A caller starts to commit and sets the flag.                            *)
LEMMA SleepCommit ==
    ASSUME SleepInv, NEW p \in Caller, pc' = [pc EXCEPT ![p] = "commit"],
           committing' = TRUE
    PROVE  SleepInv'
<1>1. pc' \in [Caller -> CallerPoints] /\ pc'[p] = "commit"
  BY DEF SleepInv, CallerPoints, CommitPoints
<1>2. pc'[p] \in Busy
  BY <1>1 DEF Busy, CommitPoints
<1> QED
  BY <1>1, <1>2 DEF SleepInv

(* wakeup(&log) leaves nobody asleep.                                      *)
LEMMA SleepWakeup ==
    ASSUME SleepInv, NEW p \in Caller, NEW point \in {"out", "synced"},
           WakeupAll(p, point), ~committing'
    PROVE  SleepInv'
<1>1. \A q \in Caller : /\ WokenPoint(pc[q]) \in CallerPoints
                        /\ WokenPoint(pc[q]) \notin {"bsleep", "esleep", "ssleep"}
  BY DEF SleepInv, WokenPoint, CallerPoints
<1>2. point \in CallerPoints /\ point \notin {"bsleep", "esleep", "ssleep"}
  BY DEF CallerPoints, CommitPoints
<1>3. /\ pc' \in [Caller -> CallerPoints]
      /\ \A q \in Caller : pc'[q] \notin {"bsleep", "esleep", "ssleep"}
  BY <1>1, <1>2 DEF WakeupAll
<1> QED
  BY <1>3 DEF SleepInv

(* Every step keeps the promise to the sleepers.                           *)
LEMMA SleepNext ==
    ASSUME SleepInv, [Next]_vars PROVE SleepInv'
<1>1. CASE UNCHANGED <<pc, committing>>
  BY <1>1 DEF SleepInv
<1>2. ASSUME NEW p \in Caller, Start(p) \/ sys_sync(p) \/ begin_op(p) \/ log_write(p)
      PROVE  SleepInv'
  <2>1. /\ pc[p] \notin Busy /\ committing' = committing
        /\ \/ \E point \in {"begin", "sync1", "op"} : pc' = [pc EXCEPT ![p] = point]
           \/ committing /\ pc' = [pc EXCEPT ![p] = "bsleep"]
    BY <1>2 DEF Start, sys_sync, begin_op, log_write, At, Goto, logVars, Busy, CommitPoints
  <2>2. {"begin", "sync1", "op", "bsleep"} \subseteq CallerPoints
    BY DEF CallerPoints
  <2> QED
    BY <2>1, <2>2, SleepGoto
<1>3. ASSUME NEW p \in Caller, NEW b \in Home,
             bread(p, b) \/ brelse(p, b) \/ \E v \in Val : Modify(p, b, v)
      PROVE  SleepInv'
  <2>1. /\ pc[p] = "op" /\ committing' = committing
        /\ \/ pc' = pc
           \/ pc' = [pc EXCEPT ![p] = "bget"]
           \/ pc' = [pc EXCEPT ![p] = "log_write"]
    BY <1>3 DEF bread, brelse, Modify, At, Goto, logVars
  <2>2. {"bget", "log_write"} \subseteq CallerPoints /\ pc[p] \notin Busy
    BY <2>1 DEF CallerPoints, BgetPoints, Busy, CommitPoints
  <2> QED
    BY <1>1, <2>1, <2>2, SleepGoto
<1>4. ASSUME NEW p \in Caller, end_op(p) PROVE SleepInv'
  <2>1. pc[p] \in {"op", "end"} /\ committing' = committing
    BY <1>4 DEF end_op, At
  <2>2. CASE committing
    <3>1. pc' = [pc EXCEPT ![p] = "esleep"] /\ pc[p] \notin Busy /\ "esleep" \in CallerPoints
      BY <1>4, <2>1, <2>2 DEF end_op, Goto, Busy, CommitPoints, CallerPoints
    <3> QED
      BY <2>1, <2>2, <3>1, SleepGoto
  <2>3. CASE ~committing
    <3>1. WakeupAll(p, "out")
      BY <1>4, <2>3 DEF end_op
    <3> QED
      BY <2>1, <2>3, <3>1, SleepWakeup
  <2> QED
    BY <2>2, <2>3
<1>5. ASSUME NEW p \in Caller, BgetStep(p) PROVE SleepInv'
  <2>1. CASE ForceSync(p)
    BY <2>1, SleepCommit DEF ForceSync, Goto
  <2>2. CASE bget(p) \/ Find(p) \/ acquiresleep(p)
    <3>1. /\ pc[p] \in BgetPoints /\ committing' = committing
          /\ \/ pc' = pc
             \/ \E point \in {"force", "find", "lock", "op"} : pc' = [pc EXCEPT ![p] = point]
      BY <2>2 DEF bget, Find, acquiresleep, At, Goto, logVars, BgetPoints
    <3>2. {"force", "find", "lock", "op"} \subseteq CallerPoints /\ pc[p] \notin Busy
      BY <3>1 DEF CallerPoints, BgetPoints, Busy, CommitPoints
    <3> QED
      BY <1>1, <3>1, <3>2, SleepGoto
  <2> QED
    BY <1>5, <2>1, <2>2 DEF BgetStep
<1>6. ASSUME NEW p \in Caller, sync1(p) PROVE SleepInv'
  <2>1. CASE committing
    <3>1. /\ pc[p] = "sync1" /\ pc' = [pc EXCEPT ![p] = "ssleep"] /\ committing' = committing
      BY <1>6, <2>1 DEF sync1, At, Goto
    <3>2. "ssleep" \in CallerPoints /\ pc[p] \notin Busy
      BY <3>1 DEF CallerPoints, Busy, CommitPoints
    <3> QED
      BY <2>1, <3>1, <3>2, SleepGoto
  <2>2. CASE ~committing
    BY <1>6, <2>2, SleepCommit DEF sync1, Goto
  <2> QED
    BY <2>1, <2>2
<1>7. ASSUME NEW p \in Caller, CommitStep(p) PROVE SleepInv'
  <2>1. CASE Finish(p)
    BY <2>1, SleepWakeup DEF Finish, Wakes
  <2>2. CASE Return(p)
    <3>1. /\ pc[p] \in {"synced", "swoken"} /\ committing' = committing
          /\ \E point \in {"find", "out"} : pc' = [pc EXCEPT ![p] = point]
      BY <2>2 DEF Return, At, Goto
    <3>2. {"find", "out"} \subseteq CallerPoints /\ pc[p] \notin Busy
      BY <3>1 DEF CallerPoints, BgetPoints, Busy, CommitPoints
    <3> QED
      BY <3>1, <3>2, SleepGoto
  <2>3. CASE ~Finish(p) /\ ~Return(p)
    <3>1. /\ committing' = committing
          /\ \/ pc' = pc
             \/ \E point \in {"finish", "log_to", "log_from", "write_head", "inst_from",
                              "inst_to", "clear_head", "erase_head"} : pc' = [pc EXCEPT ![p] = point]
      BY <1>7, <2>3 DEF CommitStep, commit, LogTo, LogFrom, write_head, InstFrom, NextSlot,
         InstTo, clear_head, erase_head, HeadWritten, Goto, logVars
    <3>2. {"finish", "log_to", "log_from", "write_head", "inst_from", "inst_to",
           "clear_head", "erase_head"} \subseteq Busy \cap CallerPoints
      BY DEF CallerPoints, Busy, CommitPoints
    <3>3. \A point \in Busy : point \notin {"bsleep", "esleep", "ssleep"}
      BY DEF Busy, CommitPoints
    <3> QED
      BY <1>1, <3>1, <3>2, <3>3, SleepGoto
  <2> QED
    BY <2>1, <2>2, <2>3
<1>8. ASSUME (\E b \in Home : Recycle(b)) \/ RecoverInstall \/ RecoverClear PROVE SleepInv'
  BY <1>1, <1>8 DEF Recycle, RecoverInstall, RecoverClear, logVars, callerVars
<1>9. ASSUME Crash PROVE SleepInv'
  <2>1. pc' = [p \in Caller |-> "out"] /\ committing' = FALSE
    BY <1>9 DEF Crash
  <2> QED
    BY <2>1 DEF SleepInv, CallerPoints
<1>10. CASE UNCHANGED vars
  BY <1>1, <1>10 DEF vars, logVars, callerVars
<1> QED
  BY <1>2, <1>3, <1>4, <1>5, <1>6, <1>7, <1>8, <1>9, <1>10 DEF Next, CallerStep, LeaveOp

(* Whoever sleeps in begin_op, end_op or sync() sleeps while a commit that *)
(* will wake it is under way, for any number of callers: wakeup(&log) in   *)
(* sync1 is never missed.                                                  *)
THEOREM SleepersCorrect == Spec => []SleepersAwaited
<1>1. Init => SleepInv
  BY DEF Init, SleepInv, CallerPoints
<1>2. SleepInv /\ [Next]_vars => SleepInv'
  BY SleepNext
<1>3. SleepInv => SleepersAwaited
  BY DEF SleepInv, SleepersAwaited, Busy
<1> QED
  BY <1>1, <1>2, <1>3, PTL DEF Spec
=============================================================================
