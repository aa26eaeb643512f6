----------------------------- MODULE LogProofs ------------------------------
(***************************************************************************)
(* Theorems about the write-ahead log, for every set of callers, blocks    *)
(* and contents and every size of the log: the log implements AtomicDisk,  *)
(* nothing is lost once the last call has ended, and the space begin_op    *)
(* reserves is enough.                                                     *)
(***************************************************************************)
EXTENDS Log, FiniteSetTheorems, SequenceTheorems, TLAPS

CommitPoints ==
    {"write_log", "write_head", "install_trans", "clear_head", "committed"}

(* log.outstanding counts the calls between begin_op and end_op.           *)
OpsCounted == IsFiniteSet(InOp) /\ outstanding = Cardinality(InOp)

(* log.committing is set while exactly one caller commits, and no call is  *)
(* under way then.                                                         *)
OneCommitter ==
    /\ committing <=> \E p \in Caller : pc[p] \in CommitPoints
    /\ \A p, q \in Caller :
         pc[p] \in CommitPoints /\ pc[q] \in CommitPoints => p = q
    /\ committing => InOp = {}
    /\ mode # "up" => \A p \in Caller : pc[p] = "out"

(* The panics that can happen, and where.                                  *)
FaultsPlaced ==
    /\ fault # "log.committing"
    /\ fault = "too big a transaction" => InOp # {}

(* A caller in log_write has the buffer to itself.                         *)
TargetsOwned ==
    /\ \A p \in Caller : target[p] # None <=> pc[p] = "logging"
    /\ \A p, q \in Caller : target[p] # None /\ target[p] = target[q] => p = q
    /\ \A p \in Caller : pc[p] = "logging" => buf[target[p]] # None

(* A buffer that is neither pinned nor being changed agrees with the disk. *)
CleanBuffers ==
    /\ \A b \in dirty : buf[b] # None
    /\ fault # "too big a transaction" =>
         \A b \in Home :
            b \notin dirty /\ (\A p \in Caller : target[p] # b)
                => buf[b] = None \/ buf[b] = disk[b]

Installing == \E p \in Caller : pc[p] \in {"install_trans", "clear_head"}

Entries == 1..Len(lh)

(* The log blocks hold what system calls see in the blocks they stand for. *)
Copied(n) == \A i \in 1..n : i \in LogSlot /\ logdata[i] = Contents(lh[i])

(* The first n blocks of the log are in their places on disk.              *)
Installed(n) == \A i \in 1..n : i \in LogSlot /\ disk[lh[i]] = logdata[i]

(* The header on disk is empty or the one in memory, and the latter only   *)
(* while its blocks are installed.                                         *)
HeaderExact ==
    /\ IsInjective(lh)
    /\ hdr # <<>> => hdr = lh /\ (mode # "up" \/ Installing)
    /\ \A i \in 1..Len(hdr) : i \in LogSlot
    /\ mode = "up" /\ ~Installing => dirty = Range(lh)
    /\ mode # "up" => hdr = lh /\ dirty = {}

(* How far the commit under way, or the recovery, has come.                *)
Progress ==
    /\ \A p \in Caller :
        /\ pc[p] = "write_log" => tail \in Entries /\ Copied(tail - 1)
        /\ pc[p] = "write_head" => lh # <<>> /\ tail = 1 /\ Copied(Len(lh))
        /\ pc[p] = "install_trans" =>
             /\ hdr = lh /\ tail \in Entries
             /\ Copied(Len(lh)) /\ Installed(tail - 1)
             /\ dirty = {lh[i] : i \in tail..Len(lh)}
        /\ pc[p] = "clear_head" =>
             /\ hdr = lh /\ dirty = {}
             /\ Copied(Len(lh)) /\ Installed(Len(lh))
        /\ pc[p] = "committed" => lh = <<>>
    /\ mode = "install" => tail \in Entries /\ Installed(tail - 1)
    /\ mode = "clear" => Installed(Len(lh))

(* With no call under way and no commit, nothing waits in the log.         *)
QuietEmpty == mode = "up" /\ ~committing /\ InOp = {} => lh = <<>>

LogInv ==
    /\ TypeOK /\ OpsCounted /\ OneCommitter /\ FaultsPlaced /\ TargetsOwned
    /\ CleanBuffers /\ HeaderExact /\ Progress /\ QuietEmpty

----------------------------------------------------------------------------
(* Facts about the parts of the invariant.                                 *)

(* A step that touches neither the disk nor the cache nor the log, and     *)
(* moves no caller into or out of commit(), keeps its progress.            *)
LEMMA ProgressKept ==
    ASSUME TypeOK, Progress,
           UNCHANGED <<disk, logdata, hdr, buf, dirty, lh, tail, mode>>,
           pc' \in [Caller -> CallerPoints],
           \A p \in Caller : pc'[p] \in CommitPoints => pc'[p] = pc[p]
    PROVE  Progress'
<1>1. \A n : Copied(n)' <=> Copied(n)
  BY DEF Copied, Contents
<1>2. \A n : Installed(n)' <=> Installed(n)
  BY DEF Installed
<1> QED
  BY <1>1, <1>2 DEF Progress, Entries, CommitPoints

(* The same for a step that changes buffers but not what they show.        *)
LEMMA ProgressKeptBuf ==
    ASSUME TypeOK, Progress,
           UNCHANGED <<disk, logdata, hdr, dirty, lh, tail, mode, pc>>,
           \A b \in Home : Contents(b)' = Contents(b)
    PROVE  Progress'
<1>1. ASSUME NEW n \in 0..Len(lh), Copied(n) PROVE Copied(n)'
  <2>1. \A i \in 1..n : lh[i] \in Home
    BY DEF TypeOK
  <2> QED
    BY <1>1, <2>1 DEF Copied
<1>2. \A n : Installed(n)' <=> Installed(n)
  BY DEF Installed
<1>3. Len(lh) \in 0..Len(lh) /\ (tail \in 1..Len(lh) => tail - 1 \in 0..Len(lh))
  BY DEF TypeOK
<1> QED
  BY <1>1, <1>2, <1>3 DEF Progress, Entries

(* Adding a call to the counted ones.                                      *)
LEMMA CountEnters ==
    ASSUME OpsCounted, NEW p, p \notin InOp, InOp' = InOp \cup {p},
           outstanding' = outstanding + 1
    PROVE  OpsCounted'
BY FS_AddElement DEF OpsCounted

(* Taking a call off the counted ones: there is at least the one, and when *)
(* it was the only one none is left.                                       *)
LEMMA CountLeaves ==
    ASSUME OpsCounted, NEW p \in InOp
    PROVE  /\ outstanding \in Nat \ {0}
           /\ IsFiniteSet(InOp \ {p})
           /\ Cardinality(InOp \ {p}) = outstanding - 1
           /\ outstanding = 1 => InOp = {p}
<1>1. /\ IsFiniteSet(InOp \ {p})
      /\ Cardinality(InOp \ {p}) = Cardinality(InOp) - 1
  BY FS_RemoveElement DEF OpsCounted
<1>2. Cardinality(InOp) \in Nat /\ Cardinality(InOp) # 0
  BY FS_CardinalityType, FS_EmptySet DEF OpsCounted
<1>3. Cardinality(InOp) = 1 => InOp = {p}
  BY FS_Singleton DEF OpsCounted
<1> QED
  BY <1>1, <1>2, <1>3 DEF OpsCounted

----------------------------------------------------------------------------
(* Every step keeps the invariant.                                         *)

(* begin_op is entered: only the caller's own position changes.            *)
LEMMA StartInv ==
    ASSUME LogInv, NEW p \in Caller, Start(p)
    PROVE  LogInv'
<1> USE LogSizeAssumption DEF LogSizeAssumption, LogInv, Up, onDisk, callerVars
<1>1. TypeOK'
  BY DEF Start, Goto, TypeOK, CallerPoints, Faults, Entries, Progress,
       OpsCounted, InOp, HeaderExact
<1>2. OpsCounted'
  BY FS_EmptySet DEF OpsCounted, InOp, TypeOK, Start, Goto
<1>3. OneCommitter'
  BY DEF Start, Goto, TypeOK, OneCommitter, InOp, CommitPoints, OpsCounted
<1>4. FaultsPlaced'
  BY DEF Start, Goto, TypeOK, FaultsPlaced, InOp, OneCommitter, OpsCounted
<1>5. TargetsOwned'
  BY DEF Start, Goto, TypeOK, TargetsOwned, InOp
<1>6. CleanBuffers'
  BY DEF Start, Goto, TypeOK, CleanBuffers, TargetsOwned, Progress, Entries,
       HeaderExact, OneCommitter, CommitPoints, InOp, Installed, Copied
<1>7. HeaderExact'
  BY DEF Start, Goto, TypeOK, HeaderExact, Installing, OneCommitter,
       CommitPoints, InOp, TargetsOwned, Progress, Entries, IsInjective,
       Range
<1>8. Progress'
  BY ProgressKept DEF TypeOK, CommitPoints, CallerPoints, Start, Goto
<1>9. QuietEmpty'
  BY DEF Start, Goto, TypeOK, QuietEmpty, OneCommitter, CommitPoints, InOp,
       Progress
<1> QED
  BY <1>1, <1>2, <1>3, <1>4, <1>5, <1>6, <1>7, <1>8, <1>9

(* begin_op goes to sleep on &log.                                         *)
LEMMA SleepsInv ==
    ASSUME LogInv, NEW p \in Caller, begin_op_Sleeps(p)
    PROVE  LogInv'
<1> USE LogSizeAssumption DEF LogSizeAssumption, LogInv, Up, onDisk, callerVars
<1>1. TypeOK'
  BY DEF begin_op_Sleeps, Goto, MustWait, TypeOK, CallerPoints, Faults,
       Entries, Progress, OpsCounted, InOp, HeaderExact
<1>2. OpsCounted'
  BY FS_EmptySet DEF OpsCounted, InOp, TypeOK, begin_op_Sleeps, Goto, MustWait
<1>3. OneCommitter'
  BY DEF begin_op_Sleeps, Goto, MustWait, TypeOK, OneCommitter, InOp,
       CommitPoints, OpsCounted
<1>4. FaultsPlaced'
  BY DEF begin_op_Sleeps, Goto, MustWait, TypeOK, FaultsPlaced, InOp,
       OneCommitter, OpsCounted
<1>5. TargetsOwned'
  BY DEF begin_op_Sleeps, Goto, MustWait, TypeOK, TargetsOwned, InOp
<1>6. CleanBuffers'
  BY DEF begin_op_Sleeps, Goto, MustWait, TypeOK, CleanBuffers, TargetsOwned,
       Progress, Entries, HeaderExact, OneCommitter, CommitPoints, InOp,
       Installed, Copied
<1>7. HeaderExact'
  BY DEF begin_op_Sleeps, Goto, MustWait, TypeOK, HeaderExact, Installing,
       OneCommitter, CommitPoints, InOp, TargetsOwned, Progress, Entries,
       IsInjective, Range
<1>8. Progress'
  BY ProgressKept DEF TypeOK, CommitPoints, CallerPoints, begin_op_Sleeps,
       Goto
<1>9. QuietEmpty'
  BY DEF begin_op_Sleeps, Goto, MustWait, TypeOK, QuietEmpty, OneCommitter,
       CommitPoints, InOp, Progress
<1> QED
  BY <1>1, <1>2, <1>3, <1>4, <1>5, <1>6, <1>7, <1>8, <1>9

(* begin_op reserves: the call is counted and no commit is under way.      *)
LEMMA EntersInv ==
    ASSUME LogInv, NEW p \in Caller, begin_op_Enters(p)
    PROVE  LogInv'
<1> USE LogSizeAssumption DEF LogSizeAssumption, LogInv, Up, onDisk, callerVars
<1>a. InOp' = InOp \cup {p} /\ p \notin InOp /\ outstanding' = outstanding + 1
  BY DEF begin_op_Enters, Goto, InOp, TypeOK
<1>1. TypeOK'
  BY 0 \in 0..OpWrites DEF begin_op_Enters, Goto, TypeOK, CallerPoints
<1>2. OpsCounted'
  BY <1>a, CountEnters
<1>3. OneCommitter'
  BY DEF begin_op_Enters, Goto, MustWait, TypeOK, OneCommitter, InOp,
       CommitPoints, OpsCounted
<1>4. FaultsPlaced'
  BY DEF begin_op_Enters, Goto, MustWait, TypeOK, FaultsPlaced, InOp,
       OneCommitter, OpsCounted
<1>5. TargetsOwned'
  BY DEF begin_op_Enters, Goto, MustWait, TypeOK, TargetsOwned, InOp
<1>6. CleanBuffers'
  BY DEF begin_op_Enters, Goto, MustWait, TypeOK, CleanBuffers, TargetsOwned,
       Progress, Entries, HeaderExact, OneCommitter, CommitPoints, InOp,
       Installed, Copied
<1>7. HeaderExact'
  BY DEF begin_op_Enters, Goto, MustWait, TypeOK, HeaderExact, Installing,
       OneCommitter, CommitPoints, InOp, TargetsOwned, Progress, Entries,
       IsInjective, Range
<1>8. Progress'
  BY ProgressKept DEF TypeOK, CommitPoints, CallerPoints, begin_op_Enters,
       Goto
<1>9. QuietEmpty'
  BY DEF begin_op_Enters, Goto, MustWait, TypeOK, QuietEmpty, OneCommitter,
       CommitPoints, InOp, Progress
<1> QED
  BY <1>1, <1>2, <1>3, <1>4, <1>5, <1>6, <1>7, <1>8, <1>9

(* log_write records the block at the end of the log and pins it.          *)
LEMMA LogWriteInv ==
    ASSUME LogInv, NEW p \in Caller, log_write(p)
    PROVE  LogInv'
<1> USE LogSizeAssumption DEF LogSizeAssumption, LogInv, Up, onDisk, callerVars
<1> DEFINE b == target[p]
<1>a. b \in Home /\ lh \in Seq(Home) /\ pc[p] = "logging"
  BY DEF log_write, Goto, TargetsOwned, TypeOK
<1>b. lh' = lh \/ (b \notin Range(lh) /\ lh' = Append(lh, b))
  BY DEF log_write, Absorbed
<1>c. /\ Append(lh, b) \in Seq(Home) /\ Len(Append(lh, b)) = Len(lh) + 1
      /\ \A i \in 1..Len(lh) : Append(lh, b)[i] = lh[i]
      /\ Append(lh, b)[Len(lh) + 1] = b
  BY <1>a, AppendProperties
<1>d. Range(lh') = Range(lh) \cup {b}
  <2>1. CASE lh' = lh
    BY <2>1 DEF log_write, Absorbed
  <2>2. CASE b \notin Range(lh) /\ lh' = Append(lh, b)
    BY <2>2, <1>a, <1>c DEF Range
  <2> QED
    BY <1>b, <2>1, <2>2
<1>e. IsInjective(lh')
  BY <1>a, <1>b, <1>c DEF HeaderExact, IsInjective, Range
<1>f. InOp # {} /\ ~committing /\ mode = "up" /\ ~Installing
  BY <1>a DEF OneCommitter, InOp, Installing, CommitPoints
<1> HIDE DEF b
<1>1. TypeOK'
  <2>1. lh' \in Seq(Home) /\ dirty' \subseteq Home
    BY <1>a, <1>b, <1>c DEF log_write, Pinned, TypeOK, b
  <2> QED
    BY <2>1 DEF log_write, Goto, TypeOK, CallerPoints
<1>2. OpsCounted'
  BY FS_EmptySet DEF OpsCounted, InOp, TypeOK, log_write, Goto, Absorbed,
       Pinned
<1>3. OneCommitter'
  BY DEF log_write, Goto, Absorbed, Pinned, TypeOK, OneCommitter, InOp,
       CommitPoints, OpsCounted
<1>4. FaultsPlaced'
  BY DEF log_write, Goto, Absorbed, Pinned, TypeOK, FaultsPlaced, InOp,
       OneCommitter, OpsCounted
<1>5. TargetsOwned'
  BY DEF log_write, Goto, Absorbed, Pinned, TypeOK, TargetsOwned, InOp
<1>6. CleanBuffers'
  BY DEF log_write, Goto, Absorbed, Pinned, TypeOK, CleanBuffers,
       TargetsOwned, Progress, Entries, HeaderExact, OneCommitter,
       CommitPoints, InOp, Installed, Copied
<1>7. HeaderExact'
  <2>1. hdr = <<>> /\ hdr' = <<>> /\ mode' = "up" /\ ~Installing'
    BY <1>f DEF log_write, Goto, HeaderExact, Installing, TypeOK
  <2>2. dirty' = Range(lh')
    BY <1>d, <1>f DEF log_write, Pinned, HeaderExact, b
  <2> QED
    BY <1>e, <2>1, <2>2 DEF HeaderExact
<1>8. Progress'
  BY DEF log_write, Goto, Absorbed, Pinned, TypeOK, Progress, HeaderExact,
       OneCommitter, CommitPoints, InOp, TargetsOwned, CleanBuffers,
       Installing, Entries, IsInjective, Range, Copied, Installed, Contents,
       LogSlot
<1>9. QuietEmpty'
  BY DEF log_write, Goto, Absorbed, Pinned, TypeOK, QuietEmpty, OneCommitter,
       CommitPoints, InOp, Progress
<1> QED
  BY <1>1, <1>2, <1>3, <1>4, <1>5, <1>6, <1>7, <1>8, <1>9

(* end_op: the call is counted off, and the last one starts to commit.     *)
LEMMA EndOpInv ==
    ASSUME LogInv, NEW p \in Caller, end_op(p)
    PROVE  LogInv'
<1> USE LogSizeAssumption DEF LogSizeAssumption, LogInv, Up, onDisk, callerVars
<1>a. /\ p \in InOp /\ pc[p] = "op" /\ mode = "up" /\ fault = "none"
      /\ ~committing
  BY DEF end_op, InOp, OneCommitter
<1>b. /\ outstanding \in Nat \ {0} /\ IsFiniteSet(InOp \ {p})
      /\ Cardinality(InOp \ {p}) = outstanding - 1
      /\ outstanding = 1 => InOp = {p}
  BY <1>a, CountLeaves
<1>c. /\ outstanding' = outstanding - 1 /\ pc' \in [Caller -> CallerPoints]
      /\ \/ /\ outstanding = 1 /\ committing' = TRUE /\ tail' = 1
            /\ pc' = [pc EXCEPT ![p] = IF lh = <<>> THEN "committed"
                                       ELSE "write_log"]
         \/ /\ outstanding # 1 /\ committing' = committing /\ tail' = tail
            /\ WakeupAll(p, "out")
      /\ fault' = fault
  BY <1>a DEF end_op, LastOut, WakeupAll, TypeOK, CallerPoints
<1>d. InOp' = InOp \ {p}
  BY <1>a, <1>c DEF InOp, WakeupAll, TypeOK
<1>1. TypeOK'
  <2>1. UNCHANGED <<onDisk, buf, dirty, lh, target, writes, mode>>
    BY DEF end_op
  <2>2. outstanding' \in Nat /\ tail' \in Nat \ {0}
    BY <1>b, <1>c DEF TypeOK
  <2>3. committing' \in BOOLEAN
    BY <1>c, Zenon DEF TypeOK
  <2> QED
    BY <1>c, <2>1, <2>2, <2>3 DEF TypeOK
<1>2. OpsCounted'
  BY <1>b, <1>c, <1>d DEF OpsCounted
<1>3. OneCommitter'
  <2>1. CASE outstanding = 1
    BY <1>a, <1>b, <1>c, <1>d, <2>1 DEF end_op, OneCommitter, CommitPoints,
         TypeOK
  <2>2. CASE outstanding # 1
    <3>1. \A q \in Caller : pc[q] \notin CommitPoints
      BY <1>a DEF OneCommitter
    <3>2. \A q \in Caller : pc'[q] \notin CommitPoints
      BY <1>c, <2>2, <3>1 DEF WakeupAll, CommitPoints, TypeOK
    <3>3. committing' = FALSE /\ mode' = "up"
      BY <1>a, <1>c, <2>2 DEF end_op, TypeOK
    <3> QED
      BY <3>2, <3>3 DEF OneCommitter
  <2> QED
    BY <2>1, <2>2
<1>4. FaultsPlaced'
  BY <1>a, <1>c DEF FaultsPlaced
<1>5. TargetsOwned'
  <2>1. target' = target /\ buf' = buf
    BY DEF end_op
  <2>2. \A q \in Caller : pc'[q] = "logging" <=> pc[q] = "logging"
    BY <1>a, <1>c DEF WakeupAll, TypeOK
  <2> QED
    BY <2>1, <2>2 DEF TargetsOwned
<1>6. CleanBuffers'
  BY DEF end_op, LastOut, WakeupAll, TypeOK, CleanBuffers, TargetsOwned,
       Progress, Entries, HeaderExact, OneCommitter, CommitPoints, InOp,
       Installed, Copied
<1>7. HeaderExact'
  BY DEF end_op, LastOut, WakeupAll, TypeOK, HeaderExact, Installing,
       OneCommitter, CommitPoints, InOp, TargetsOwned, Progress, Entries,
       IsInjective, Range
<1>8. Progress'
  BY DEF end_op, LastOut, WakeupAll, TypeOK, Progress, HeaderExact,
       OneCommitter, CommitPoints, InOp, TargetsOwned, CleanBuffers,
       Installing, Entries, IsInjective, Range, Copied, Installed, Contents,
       LogSlot
<1>9. QuietEmpty'
  <2>1. CASE outstanding = 1
    BY <1>c, <2>1 DEF QuietEmpty
  <2>2. CASE outstanding # 1
    BY <1>b, <1>d, <2>2, FS_EmptySet DEF QuietEmpty
  <2> QED
    BY <2>1, <2>2
<1> QED
  BY <1>1, <1>2, <1>3, <1>4, <1>5, <1>6, <1>7, <1>8, <1>9

(* write_log copies one block into the log.                                *)
LEMMA WriteLogInv ==
    ASSUME LogInv, NEW p \in Caller, write_log(p)
    PROVE  LogInv'
<1> USE LogSizeAssumption DEF LogSizeAssumption, LogInv, Up, onDisk, callerVars
<1>a. /\ pc[p] = "write_log" /\ mode = "up" /\ fault = "none"
      /\ tail \in 1..Len(lh) /\ Copied(tail - 1) /\ lh[tail] \in Home
      /\ lh' = lh /\ Len(lh) \in Nat /\ \A i \in 1..Len(lh) : lh[i] \in Home
  <2>1. pc[p] = "write_log" /\ mode = "up" /\ fault = "none" /\ lh' = lh
    BY DEF write_log
  <2>2. tail \in 1..Len(lh) /\ Copied(tail - 1)
    BY <2>1 DEF Progress, Entries
  <2>3. Len(lh) \in Nat /\ \A i \in 1..Len(lh) : lh[i] \in Home
    BY DEF TypeOK
  <2> QED
    BY <2>1, <2>2, <2>3
<1>b. /\ committing /\ InOp = {} /\ InOp' = {}
      /\ \A q \in Caller : target[q] = None /\ pc[q] # "logging"
      /\ \A q \in Caller : pc[q] \in CommitPoints => q = p
  BY <1>a DEF write_log, OneCommitter, InOp, CommitPoints, TargetsOwned, TypeOK
<1>c. /\ \A c \in Home : Contents(c) \in Val
      /\ \A c \in Home : buf'[c] = buf[c] \/ buf'[c] = Contents(c)
      /\ \A c \in Home : buf[c] # None => buf'[c] = buf[c]
      /\ \A c \in Home : Contents(c)' = Contents(c)
  <2>1. \A c \in Home : Contents(c) \in Val
    BY DEF Contents, TypeOK
  <2>2. buf' = buf \/ buf' = [buf EXCEPT ![lh[tail]] = Contents(lh[tail])]
    BY DEF write_log
  <2>3. \A c \in Home : buf'[c] = buf[c] \/ buf'[c] = Contents(c)
    BY <1>a, <2>2 DEF TypeOK
  <2>4. disk' = disk
    BY DEF write_log
  <2> QED
    BY <2>1, <2>3, <2>4 DEF Contents
<1>1. TypeOK'
  <2>1. /\ tail' \in Nat \ {0} /\ fault' \in Faults
        /\ logdata' \in [LogSlot -> Val] /\ buf' \in [Home -> Val \cup {None}]
    <3> DEFINE c == Contents(lh[tail])
    <3>1. c \in Val
      BY <1>a, <1>c
    <3>2. logdata' = logdata \/ logdata' = [logdata EXCEPT ![tail] = c]
      BY DEF write_log
    <3>3. buf' = buf \/ buf' = [buf EXCEPT ![lh[tail]] = c]
      BY DEF write_log
    <3>4. fault' = fault \/ fault' = "log overrun"
      BY DEF write_log
    <3>5. tail' = tail \/ tail' = 1 \/ tail' = tail + 1
      BY DEF write_log
    <3>6. logdata' \in [LogSlot -> Val]
      BY <3>1, <3>2, Zenon DEF TypeOK
    <3>7. buf' \in [Home -> Val \cup {None}]
      BY <3>1, <3>3, Zenon DEF TypeOK
    <3>8. tail' \in Nat \ {0}
      BY <3>5 DEF TypeOK
    <3>9. fault' \in Faults
      BY <3>4 DEF TypeOK, Faults
    <3> QED
      BY <3>6, <3>7, <3>8, <3>9
  <2>2. pc' \in [Caller -> CallerPoints]
    BY DEF write_log, TypeOK, CallerPoints
  <2> QED
    BY <1>a, <2>1, <2>2 DEF write_log, TypeOK
<1>2. OpsCounted'
  BY FS_EmptySet DEF OpsCounted, InOp, TypeOK, write_log, Contents
<1>3. OneCommitter'
  <2>1. committing' = committing /\ mode' = mode /\ mode = "up" /\ pc[p] = "write_log"
    BY DEF write_log
  <2>2. pc' = pc \/ pc' = [pc EXCEPT ![p] = "write_head"]
    BY DEF write_log, TypeOK
  <2>3. \A q \in Caller : pc'[q] \in CommitPoints <=> pc[q] \in CommitPoints
    BY <2>1, <2>2 DEF TypeOK, CommitPoints
  <2> QED
    BY <1>b, <2>1, <2>3 DEF OneCommitter
<1>4. FaultsPlaced'
  BY DEF write_log, Contents, TypeOK, FaultsPlaced, InOp, OneCommitter,
       OpsCounted
<1>5. TargetsOwned'
  BY <1>b DEF write_log, TargetsOwned, TypeOK
<1>6. CleanBuffers'
  <2>1. \A c \in dirty' : buf'[c] # None
    BY <1>c DEF write_log, CleanBuffers, TypeOK
  <2>2. ASSUME NEW c \in Home, c \notin dirty' PROVE buf'[c] = None \/ buf'[c] = disk'[c]
    BY <1>a, <1>b, <1>c, <2>2 DEF write_log, CleanBuffers, Contents, TypeOK
  <2> QED
    BY <2>1, <2>2 DEF CleanBuffers
<1>7. HeaderExact'
  <2>1. ~Installing /\ ~Installing'
    BY <1>a, <1>b DEF write_log, Installing, CommitPoints, TypeOK
  <2> QED
    BY <1>a, <2>1 DEF write_log, HeaderExact, TypeOK
<1>8. Progress'
  <2>1. CASE tail \notin LogSlot
    BY <1>c, <2>1, ProgressKeptBuf DEF write_log, TypeOK
  <2>2. CASE tail \in LogSlot
    <3> PICK n \in 1..Len(lh) : n = tail
      BY <1>a
    <3>1. Copied(n)'
      <4> SUFFICES ASSUME NEW i \in 1..n
                   PROVE  i \in LogSlot /\ logdata'[i] = Contents(lh[i])'
        BY DEF Copied
      <4>1. lh[i] \in Home /\ lh' = lh
        BY <1>a
      <4>2. CASE i = tail
        BY <1>a, <1>c, <2>2, <4>1, <4>2 DEF write_log, TypeOK
      <4>3. CASE i # tail
        BY <1>a, <1>c, <2>2, <4>1, <4>3 DEF write_log, TypeOK, Copied
      <4> QED
        BY <4>2, <4>3
    <3>2. /\ lh' = lh /\ mode' = "up" /\ Len(lh) \in Nat
          /\ tail' = IF tail = Len(lh) THEN 1 ELSE tail + 1
          /\ \A q \in Caller : q # p => pc'[q] \notin CommitPoints
          /\ pc'[p] = IF tail = Len(lh) THEN "write_head" ELSE "write_log"
      BY <1>a, <1>b, <2>2 DEF write_log, TypeOK
    <3>3. CASE tail = Len(lh)
      <4>1. lh' # <<>> /\ tail' = 1 /\ n = Len(lh') /\ pc'[p] = "write_head"
        BY <1>a, <3>2, <3>3
      <4> QED
        BY <3>1, <3>2, <4>1 DEF Progress, CommitPoints
    <3>4. CASE tail # Len(lh)
      <4>1. tail' \in 1..Len(lh') /\ n = tail' - 1 /\ pc'[p] = "write_log"
        BY <1>a, <3>2, <3>4
      <4> QED
        BY <3>1, <3>2, <4>1 DEF Progress, CommitPoints, Entries
    <3> QED
      BY <3>3, <3>4
  <2> QED
    BY <2>1, <2>2
<1>9. QuietEmpty'
  BY DEF write_log, Contents, TypeOK, QuietEmpty, OneCommitter, CommitPoints,
       InOp, Progress
<1> QED
  BY <1>1, <1>2, <1>3, <1>4, <1>5, <1>6, <1>7, <1>8, <1>9

(* write_head makes the header on disk that of memory.                     *)
LEMMA WriteHeadInv ==
    ASSUME LogInv, NEW p \in Caller, write_head(p)
    PROVE  LogInv'
<1> USE LogSizeAssumption DEF LogSizeAssumption, LogInv, Up, onDisk, callerVars
<1>a. /\ pc[p] = "write_head" /\ mode = "up" /\ lh # <<>> /\ Copied(Len(lh))
      /\ pc'[p] = "install_trans" /\ hdr' = lh /\ lh' = lh /\ mode' = "up"
  BY DEF write_head, Goto, Progress, TypeOK
<1>b. ~Installing /\ Installing'
  BY <1>a DEF OneCommitter, Installing, CommitPoints
<1>1. TypeOK'
  BY DEF write_head, Goto, TypeOK, CallerPoints, Faults, Entries, Progress,
       OpsCounted, InOp, HeaderExact
<1>2. OpsCounted'
  BY FS_EmptySet DEF OpsCounted, InOp, TypeOK, write_head, Goto
<1>3. OneCommitter'
  BY DEF write_head, Goto, TypeOK, OneCommitter, InOp, CommitPoints,
       OpsCounted
<1>4. FaultsPlaced'
  BY DEF write_head, Goto, TypeOK, FaultsPlaced, InOp, OneCommitter,
       OpsCounted
<1>5. TargetsOwned'
  BY DEF write_head, Goto, TypeOK, TargetsOwned, InOp
<1>6. CleanBuffers'
  BY DEF write_head, Goto, TypeOK, CleanBuffers, TargetsOwned, Progress,
       Entries, HeaderExact, OneCommitter, CommitPoints, InOp, Installed,
       Copied
<1>7. HeaderExact'
  <2>1. \A i \in 1..Len(hdr') : i \in LogSlot
    BY <1>a DEF Copied
  <2> QED
    BY <1>a, <1>b, <2>1 DEF write_head, HeaderExact
<1>8. Progress'
  BY DEF write_head, Goto, TypeOK, Progress, HeaderExact, OneCommitter,
       CommitPoints, InOp, TargetsOwned, CleanBuffers, Installing, Entries,
       IsInjective, Range, Copied, Installed, Contents, LogSlot
<1>9. QuietEmpty'
  BY DEF write_head, Goto, TypeOK, QuietEmpty, OneCommitter, CommitPoints,
       InOp, Progress
<1> QED
  BY <1>1, <1>2, <1>3, <1>4, <1>5, <1>6, <1>7, <1>8, <1>9

(* install_trans puts one block in its place and unpins it.                *)
LEMMA InstallInv ==
    ASSUME LogInv, NEW p \in Caller, install_trans(p)
    PROVE  LogInv'
<1> USE LogSizeAssumption DEF LogSizeAssumption, LogInv, Up, onDisk, callerVars
<1>a. /\ pc[p] = "install_trans" /\ mode = "up" /\ fault = "none"
      /\ hdr = lh /\ tail \in 1..Len(lh) /\ tail \in LogSlot
      /\ lh[tail] \in Home /\ Copied(Len(lh)) /\ Installed(tail - 1)
      /\ dirty = {lh[i] : i \in tail..Len(lh)} /\ Len(lh) \in Nat
  BY DEF install_trans, Progress, Entries, TypeOK, Copied
<1>b. /\ committing /\ InOp = {} /\ InOp' = {}
      /\ \A q \in Caller : target[q] = None /\ pc[q] # "logging"
      /\ \A q \in Caller : q # p => pc'[q] \notin CommitPoints
  BY <1>a DEF install_trans, OneCommitter, InOp, CommitPoints, TargetsOwned, TypeOK
<1>c. \A c \in Home : Contents(c)' = Contents(c)
  BY <1>a DEF install_trans, InstallOne, Contents, TypeOK, Copied
<1>1. TypeOK'
  BY DEF install_trans, InstallOne, TypeOK, CallerPoints, Faults, Entries,
       Progress, OpsCounted, InOp, HeaderExact
<1>2. OpsCounted'
  BY FS_EmptySet DEF OpsCounted, InOp, TypeOK, install_trans, InstallOne
<1>3. OneCommitter'
  BY DEF install_trans, InstallOne, TypeOK, OneCommitter, InOp, CommitPoints,
       OpsCounted
<1>4. FaultsPlaced'
  BY DEF install_trans, InstallOne, TypeOK, FaultsPlaced, InOp, OneCommitter,
       OpsCounted
<1>5. TargetsOwned'
  BY <1>b DEF install_trans, TargetsOwned, TypeOK
<1>6. CleanBuffers'
  BY DEF install_trans, InstallOne, TypeOK, CleanBuffers, TargetsOwned,
       Progress, Entries, HeaderExact, OneCommitter, CommitPoints, InOp,
       Installed, Copied
<1>7. HeaderExact'
  BY DEF install_trans, InstallOne, TypeOK, HeaderExact, Installing,
       OneCommitter, CommitPoints, InOp, TargetsOwned, Progress, Entries,
       IsInjective, Range
<1>8. Progress'
  <2> PICK n \in 1..Len(lh) : n = tail
    BY <1>a
  <2>1. Copied(Len(lh))'
    BY <1>a, <1>c DEF Copied, install_trans, InstallOne, TypeOK
  <2>2. Installed(n)'
    <3> SUFFICES ASSUME NEW i \in 1..n
                 PROVE  i \in LogSlot /\ disk'[lh[i]] = logdata[i]
      BY DEF Installed, install_trans, InstallOne
    <3>1. i \in 1..Len(lh) /\ lh[i] \in Home /\ i \in LogSlot
      BY <1>a DEF TypeOK, Copied
    <3>2. i # tail => lh[i] # lh[tail]
      BY <1>a, <3>1 DEF HeaderExact, IsInjective, TypeOK
    <3>3. disk' = [disk EXCEPT ![lh[tail]] = logdata[tail]]
      BY DEF install_trans, InstallOne
    <3>4. CASE i = tail
      BY <1>a, <3>1, <3>3, <3>4 DEF TypeOK
    <3>5. CASE i # tail
      <4>1. disk[lh[i]] = logdata[i]
        BY <1>a, <3>5 DEF Installed
      <4> QED
        BY <3>1, <3>2, <3>3, <3>5, <4>1 DEF TypeOK
    <3> QED
      BY <3>4, <3>5
  <2>3. dirty' = {lh[i] : i \in (tail + 1)..Len(lh)}
    <3>1. \A i \in (tail + 1)..Len(lh) : lh[i] # lh[tail]
      BY <1>a DEF HeaderExact, IsInjective, TypeOK
    <3>2. tail..Len(lh) = {tail} \cup (tail + 1)..Len(lh)
      BY <1>a
    <3> QED
      BY <1>a, <3>1, <3>2 DEF install_trans, InstallOne
  <2>4. /\ lh' = lh /\ hdr' = lh /\ mode' = "up"
        /\ tail' = IF tail = Len(lh) THEN 1 ELSE tail + 1
        /\ pc'[p] = IF tail = Len(lh) THEN "clear_head" ELSE "install_trans"
    BY <1>a DEF install_trans, InstallOne, TypeOK
  <2>5. CASE tail = Len(lh)
    <3>1. dirty' = {} /\ n = Len(lh') /\ pc'[p] = "clear_head"
      BY <1>a, <2>3, <2>4, <2>5
    <3> QED
      BY <1>b, <2>1, <2>2, <2>4, <3>1 DEF Progress, CommitPoints
  <2>6. CASE tail # Len(lh)
    <3>1. tail' \in 1..Len(lh') /\ n = tail' - 1 /\ pc'[p] = "install_trans"
      BY <1>a, <2>4, <2>6
    <3>2. dirty' = {lh'[i] : i \in tail'..Len(lh')}
      BY <2>3, <2>4, <2>6
    <3> QED
      BY <1>b, <2>1, <2>2, <2>4, <3>1, <3>2 DEF Progress, CommitPoints,
           Entries
  <2> QED
    BY <2>5, <2>6
<1>9. QuietEmpty'
  BY DEF install_trans, InstallOne, TypeOK, QuietEmpty, OneCommitter,
       CommitPoints, InOp, Progress
<1> QED
  BY <1>1, <1>2, <1>3, <1>4, <1>5, <1>6, <1>7, <1>8, <1>9

(* The header is emptied once every block is in its place.                 *)
LEMMA ClearHeadInv ==
    ASSUME LogInv, NEW p \in Caller, clear_head(p)
    PROVE  LogInv'
<1> USE LogSizeAssumption DEF LogSizeAssumption, LogInv, Up, onDisk, callerVars
<1>1. TypeOK'
  BY DEF clear_head, Goto, TypeOK, CallerPoints, Faults, Entries, Progress,
       OpsCounted, InOp, HeaderExact
<1>2. OpsCounted'
  BY FS_EmptySet DEF OpsCounted, InOp, TypeOK, clear_head, Goto
<1>3. OneCommitter'
  BY DEF clear_head, Goto, TypeOK, OneCommitter, InOp, CommitPoints,
       OpsCounted
<1>4. FaultsPlaced'
  BY DEF clear_head, Goto, TypeOK, FaultsPlaced, InOp, OneCommitter,
       OpsCounted
<1>5. TargetsOwned'
  BY DEF clear_head, Goto, TypeOK, TargetsOwned, InOp
<1>6. CleanBuffers'
  BY DEF clear_head, Goto, TypeOK, CleanBuffers, TargetsOwned, Progress,
       Entries, HeaderExact, OneCommitter, CommitPoints, InOp, Installed,
       Copied
<1>7. HeaderExact'
  BY DEF clear_head, Goto, TypeOK, HeaderExact, Installing, OneCommitter,
       CommitPoints, InOp, TargetsOwned, Progress, Entries, IsInjective,
       Range
<1>8. Progress'
  BY DEF clear_head, Goto, TypeOK, Progress, HeaderExact, OneCommitter,
       CommitPoints, InOp, TargetsOwned, CleanBuffers, Installing, Entries,
       IsInjective, Range, Copied, Installed, Contents, LogSlot
<1>9. QuietEmpty'
  BY DEF clear_head, Goto, TypeOK, QuietEmpty, OneCommitter, CommitPoints,
       InOp, Progress
<1> QED
  BY <1>1, <1>2, <1>3, <1>4, <1>5, <1>6, <1>7, <1>8, <1>9

(* end_op clears log.committing and wakes the sleepers.                    *)
LEMMA CommittedInv ==
    ASSUME LogInv, NEW p \in Caller, Committed(p)
    PROVE  LogInv'
<1> USE LogSizeAssumption DEF LogSizeAssumption, LogInv, Up, onDisk, callerVars
<1>1. TypeOK'
  BY DEF Committed, Wakes, WakeupAll, TypeOK, CallerPoints, Faults, Entries,
       Progress, OpsCounted, InOp, HeaderExact
<1>2. OpsCounted'
  BY FS_EmptySet DEF OpsCounted, InOp, TypeOK, Committed, Wakes, WakeupAll
<1>3. OneCommitter'
  BY DEF Committed, Wakes, WakeupAll, TypeOK, OneCommitter, InOp,
       CommitPoints, OpsCounted
<1>4. FaultsPlaced'
  BY DEF Committed, Wakes, WakeupAll, TypeOK, FaultsPlaced, InOp,
       OneCommitter, OpsCounted
<1>5. TargetsOwned'
  BY DEF Committed, Wakes, WakeupAll, TypeOK, TargetsOwned, InOp
<1>6. CleanBuffers'
  BY DEF Committed, Wakes, WakeupAll, TypeOK, CleanBuffers, TargetsOwned,
       Progress, Entries, HeaderExact, OneCommitter, CommitPoints, InOp,
       Installed, Copied
<1>7. HeaderExact'
  BY DEF Committed, Wakes, WakeupAll, TypeOK, HeaderExact, Installing,
       OneCommitter, CommitPoints, InOp, TargetsOwned, Progress, Entries,
       IsInjective, Range
<1>8. Progress'
  BY DEF Committed, Wakes, WakeupAll, TypeOK, Progress, HeaderExact,
       OneCommitter, CommitPoints, InOp, TargetsOwned, CleanBuffers,
       Installing, Entries, IsInjective, Range, Copied, Installed, Contents,
       LogSlot
<1>9. QuietEmpty'
  BY DEF Committed, Wakes, WakeupAll, TypeOK, QuietEmpty, OneCommitter,
       CommitPoints, InOp, Progress
<1> QED
  BY <1>1, <1>2, <1>3, <1>4, <1>5, <1>6, <1>7, <1>8, <1>9

(* A caller changes a buffer nobody else is changing.                      *)
LEMMA ModifyInv ==
    ASSUME LogInv, NEW p \in Caller, NEW b \in Home, NEW v \in Val, Modify(p, b, v)
    PROVE  LogInv'
<1> USE LogSizeAssumption DEF LogSizeAssumption, LogInv, Up, onDisk, callerVars
<1>a. /\ p \in InOp /\ ~committing /\ mode = "up" /\ fault = "none"
      /\ \A q \in Caller : pc[q] \notin CommitPoints
      /\ pc' = pc \/ pc' = [pc EXCEPT ![p] = "logging"]
  BY DEF Modify, InOp, OneCommitter
<1>b. InOp' = InOp /\ (\A q \in Caller : pc'[q] \notin CommitPoints)
  BY <1>a DEF Modify, InOp, CommitPoints, TypeOK
<1>1. TypeOK'
  <2>1. writes' \in [Caller -> 0..OpWrites]
    <3>1. writes' = writes \/ writes' = [writes EXCEPT ![p] = writes[p] + 1]
      BY DEF Modify
    <3>2. OpWrites \in Nat
      BY DEF LogSizeAssumption
    <3>3. writes[p] < OpWrites /\ writes \in [Caller -> 0..OpWrites]
      BY DEF Modify, TypeOK
    <3>4. writes[p] + 1 \in 0..OpWrites
      BY <3>2, <3>3
    <3> QED
      BY <3>1, <3>3, <3>4
  <2>2. pc' \in [Caller -> CallerPoints] /\ fault' \in Faults
    BY DEF Modify, TypeOK, CallerPoints, Faults
  <2> QED
    BY <2>1, <2>2 DEF Modify, TypeOK
<1>2. OpsCounted'
  BY FS_EmptySet DEF OpsCounted, InOp, TypeOK, Modify
<1>3. OneCommitter'
  <2>1. committing' = committing /\ mode' = mode
    BY DEF Modify
  <2> QED
    BY <1>a, <1>b, <2>1 DEF OneCommitter
<1>4. FaultsPlaced'
  BY DEF Modify, TypeOK, FaultsPlaced, InOp, OneCommitter, OpsCounted
<1>5. TargetsOwned'
  <2>1. CASE UNCHANGED callerVars
    BY <2>1 DEF Modify, TargetsOwned, TypeOK
  <2>2. CASE /\ pc' = [pc EXCEPT ![p] = "logging"]
             /\ target' = [target EXCEPT ![p] = b]
    <3>1. pc'[p] = "logging" /\ target'[p] = b /\ buf'[b] # None /\ b # None
      BY <2>2 DEF Modify, TypeOK
    <3>2. \A q \in Caller : q # p => pc'[q] = pc[q] /\ target'[q] = target[q] /\ target[q] # b
      BY <2>2 DEF Modify, TypeOK
    <3>3. \A c \in Home : c # b => buf'[c] = buf[c]
      BY DEF Modify, TypeOK
    <3>4. \A q \in Caller : pc'[q] = "logging" => buf'[target'[q]] # None
      <4> SUFFICES ASSUME NEW q \in Caller, q # p, pc'[q] = "logging"
                   PROVE  buf'[target'[q]] # None
        BY <3>1
      <4> QED
        BY <3>2, <3>3 DEF TargetsOwned, TypeOK
    <3>5. \A q \in Caller : target'[q] # None <=> pc'[q] = "logging"
      BY <3>1, <3>2 DEF TargetsOwned
    <3> QED
      BY <3>1, <3>2, <3>4, <3>5 DEF TargetsOwned
  <2> QED
    BY <2>1, <2>2 DEF Modify
<1>6. CleanBuffers'
  <2>1. \A c \in Home : c # b => buf'[c] = buf[c]
    BY DEF Modify, TypeOK
  <2>2. buf'[b] # None /\ dirty' = dirty /\ disk' = disk
    BY DEF Modify, TypeOK
  <2>3. \A c \in dirty' : buf'[c] # None
    BY <2>1, <2>2 DEF CleanBuffers, TypeOK
  <2>4. CASE fault' = "too big a transaction"
    BY <2>3, <2>4 DEF CleanBuffers
  <2>5. CASE target' = [target EXCEPT ![p] = b]
    <3>1. ASSUME NEW c \in Home, c \notin dirty', \A q \in Caller : target'[q] # c
          PROVE  buf'[c] = None \/ buf'[c] = disk'[c]
      <4>1. c # b
        BY <2>5, <3>1 DEF TypeOK
      <4>2. \A q \in Caller : target[q] # c
        BY <2>5, <3>1, <4>1, <1>a DEF TypeOK, TargetsOwned, Modify
      <4> QED
        BY <1>a, <2>1, <2>2, <3>1, <4>1, <4>2 DEF CleanBuffers
    <3> QED
      BY <2>3, <3>1 DEF CleanBuffers
  <2> QED
    BY <2>4, <2>5 DEF Modify
<1>7. HeaderExact'
  <2>1. ~Installing /\ ~Installing'
    BY <1>a, <1>b DEF Installing, CommitPoints
  <2> QED
    BY <1>a, <2>1 DEF Modify, HeaderExact
<1>8. Progress'
  BY <1>a, <1>b DEF Modify, Progress, CommitPoints
<1>9. QuietEmpty'
  BY DEF Modify, TypeOK, QuietEmpty, OneCommitter, CommitPoints, InOp,
       Progress
<1> QED
  BY <1>1, <1>2, <1>3, <1>4, <1>5, <1>6, <1>7, <1>8, <1>9

(* bread caches a block as it is on disk.                                  *)
LEMMA BreadInv ==
    ASSUME LogInv, NEW b \in Home, bread(b)
    PROVE  LogInv'
<1> USE LogSizeAssumption DEF LogSizeAssumption, LogInv, Up, onDisk, callerVars
<1>a. \A c \in Home : Contents(c)' = Contents(c)
  BY DEF bread, Contents, TypeOK
<1>1. TypeOK'
  BY DEF bread, TypeOK, CallerPoints, Faults, Entries, Progress, OpsCounted,
       InOp, HeaderExact
<1>2. OpsCounted'
  BY FS_EmptySet DEF OpsCounted, InOp, TypeOK, bread
<1>3. OneCommitter'
  BY DEF bread, TypeOK, OneCommitter, InOp, CommitPoints, OpsCounted
<1>4. FaultsPlaced'
  BY DEF bread, TypeOK, FaultsPlaced, InOp, OneCommitter, OpsCounted
<1>5. TargetsOwned'
  BY DEF bread, TypeOK, TargetsOwned, InOp
<1>6. CleanBuffers'
  BY DEF bread, TypeOK, CleanBuffers, TargetsOwned, Progress, Entries,
       HeaderExact, OneCommitter, CommitPoints, InOp, Installed, Copied
<1>7. HeaderExact'
  BY DEF bread, TypeOK, HeaderExact, Installing, OneCommitter, CommitPoints,
       InOp, TargetsOwned, Progress, Entries, IsInjective, Range
<1>8. Progress'
  BY <1>a, ProgressKeptBuf DEF bread
<1>9. QuietEmpty'
  BY DEF bread, TypeOK, QuietEmpty, OneCommitter, CommitPoints, InOp, Progress
<1> QED
  BY <1>1, <1>2, <1>3, <1>4, <1>5, <1>6, <1>7, <1>8, <1>9

(* bget drops a buffer that agrees with the disk.                          *)
LEMMA RecycleInv ==
    ASSUME LogInv, NEW b \in Home, Recycle(b)
    PROVE  LogInv'
<1> USE LogSizeAssumption DEF LogSizeAssumption, LogInv, Up, onDisk, callerVars
<1>a. \A c \in Home : Contents(c)' = Contents(c)
  BY DEF Recycle, Contents, CleanBuffers, TypeOK
<1>1. TypeOK'
  BY DEF Recycle, TypeOK, CallerPoints, Faults, Entries, Progress,
       OpsCounted, InOp, HeaderExact
<1>2. OpsCounted'
  BY FS_EmptySet DEF OpsCounted, InOp, TypeOK, Recycle
<1>3. OneCommitter'
  BY DEF Recycle, TypeOK, OneCommitter, InOp, CommitPoints, OpsCounted
<1>4. FaultsPlaced'
  BY DEF Recycle, TypeOK, FaultsPlaced, InOp, OneCommitter, OpsCounted
<1>5. TargetsOwned'
  BY DEF Recycle, TypeOK, TargetsOwned, InOp
<1>6. CleanBuffers'
  BY DEF Recycle, TypeOK, CleanBuffers, TargetsOwned, Progress, Entries,
       HeaderExact, OneCommitter, CommitPoints, InOp, Installed, Copied
<1>7. HeaderExact'
  BY DEF Recycle, TypeOK, HeaderExact, Installing, OneCommitter,
       CommitPoints, InOp, TargetsOwned, Progress, Entries, IsInjective,
       Range
<1>8. Progress'
  BY <1>a, ProgressKeptBuf DEF Recycle
<1>9. QuietEmpty'
  BY DEF Recycle, TypeOK, QuietEmpty, OneCommitter, CommitPoints, InOp,
       Progress
<1> QED
  BY <1>1, <1>2, <1>3, <1>4, <1>5, <1>6, <1>7, <1>8, <1>9

(* A crash keeps the disk, and the header is read back.                    *)
LEMMA CrashInv ==
    ASSUME LogInv, Crash
    PROVE  LogInv'
<1> USE LogSizeAssumption DEF LogSizeAssumption, LogInv, Up, onDisk, callerVars
<1>a. lh' = hdr /\ hdr' = hdr /\ tail' = 1 /\ disk' = disk /\ logdata' = logdata
  BY DEF Crash
<1>b. hdr # <<>> => Len(hdr) \in Nat /\ Len(hdr) # 0
  BY EmptySeq DEF TypeOK
<1>1. TypeOK'
  <2>1. 0 \in 0..OpWrites
    OBVIOUS
  <2>2. mode' \in {"up", "install", "clear"} /\ fault' \in Faults
    BY DEF Crash, AfterHead, Faults
  <2>3. pc' \in [Caller -> CallerPoints] /\ writes' \in [Caller -> 0..OpWrites]
    BY <2>1 DEF Crash, CallerPoints
  <2>4. outstanding' = 0 /\ tail' = 1 /\ committing' = FALSE
    BY DEF Crash
  <2>5. /\ buf' \in [Home -> Val \cup {None}] /\ dirty' \subseteq Home
        /\ target' \in [Caller -> Home \cup {None}]
    BY DEF Crash
  <2>6. onDisk' = onDisk
    BY DEF Crash
  <2>7. 0 \in Nat /\ 1 \in Nat \ {0}
    OBVIOUS
  <2> QED
    BY <1>a, <2>2, <2>3, <2>4, <2>5, <2>6, <2>7, Zenon DEF TypeOK
<1>2. OpsCounted'
  BY FS_EmptySet DEF OpsCounted, InOp, TypeOK, Crash, AfterHead
<1>3. OneCommitter'
  BY DEF Crash, AfterHead, TypeOK, OneCommitter, InOp, CommitPoints,
       OpsCounted
<1>4. FaultsPlaced'
  BY DEF Crash, AfterHead, TypeOK, FaultsPlaced, InOp, OneCommitter,
       OpsCounted
<1>5. TargetsOwned'
  BY DEF Crash, AfterHead, TypeOK, TargetsOwned, InOp
<1>6. CleanBuffers'
  BY DEF Crash, AfterHead, TypeOK, CleanBuffers, TargetsOwned, Progress,
       Entries, HeaderExact, OneCommitter, CommitPoints, InOp, Installed,
       Copied
<1>7. HeaderExact'
  BY DEF Crash, AfterHead, TypeOK, HeaderExact, Installing, OneCommitter,
       CommitPoints, InOp, TargetsOwned, Progress, Entries, IsInjective,
       Range
<1>8. Progress'
  <2>1. \A q \in Caller : pc'[q] = "out"
    BY DEF Crash
  <2>2. CASE hdr = <<>>
    BY <1>a, <2>1, <2>2 DEF Crash, AfterHead, Progress, Installed
  <2>3. CASE hdr # <<>>
    BY <1>a, <1>b, <2>1, <2>3 DEF Crash, AfterHead, Progress, Entries,
         Installed
  <2> QED
    BY <2>2, <2>3
<1>9. QuietEmpty'
  BY DEF Crash, AfterHead, TypeOK, QuietEmpty, OneCommitter, CommitPoints,
       InOp, Progress
<1> QED
  BY <1>1, <1>2, <1>3, <1>4, <1>5, <1>6, <1>7, <1>8, <1>9

(* Recovery installs one block.                                            *)
LEMMA RecoverInstallInv ==
    ASSUME LogInv, RecoverInstall
    PROVE  LogInv'
<1> USE LogSizeAssumption DEF LogSizeAssumption, LogInv, Up, onDisk, callerVars
<1>a. \A q \in Caller : target[q] = None /\ pc[q] = "out"
  BY DEF RecoverInstall, OneCommitter, TargetsOwned
<1>1. TypeOK'
  BY DEF RecoverInstall, InstallOne, TypeOK, CallerPoints, Faults, Entries,
       Progress, OpsCounted, InOp, HeaderExact
<1>2. OpsCounted'
  BY FS_EmptySet DEF OpsCounted, InOp, TypeOK, RecoverInstall, InstallOne
<1>3. OneCommitter'
  BY DEF RecoverInstall, InstallOne, TypeOK, OneCommitter, InOp,
       CommitPoints, OpsCounted
<1>4. FaultsPlaced'
  BY DEF RecoverInstall, InstallOne, TypeOK, FaultsPlaced, InOp,
       OneCommitter, OpsCounted
<1>5. TargetsOwned'
  BY <1>a DEF RecoverInstall, TargetsOwned
<1>6. CleanBuffers'
  BY DEF RecoverInstall, InstallOne, TypeOK, CleanBuffers, TargetsOwned,
       Progress, Entries, HeaderExact, OneCommitter, CommitPoints, InOp,
       Installed, Copied
<1>7. HeaderExact'
  BY DEF RecoverInstall, InstallOne, TypeOK, HeaderExact, Installing,
       OneCommitter, CommitPoints, InOp, TargetsOwned, Progress, Entries,
       IsInjective, Range
<1>8. Progress'
  BY DEF RecoverInstall, InstallOne, TypeOK, Progress, HeaderExact,
       OneCommitter, CommitPoints, InOp, TargetsOwned, CleanBuffers,
       Installing, Entries, IsInjective, Range, Copied, Installed, Contents,
       LogSlot
<1>9. QuietEmpty'
  BY DEF RecoverInstall, InstallOne, TypeOK, QuietEmpty, OneCommitter,
       CommitPoints, InOp, Progress
<1> QED
  BY <1>1, <1>2, <1>3, <1>4, <1>5, <1>6, <1>7, <1>8, <1>9

(* Recovery empties the header when all is installed.                      *)
LEMMA RecoverClearInv ==
    ASSUME LogInv, RecoverClear
    PROVE  LogInv'
<1> USE LogSizeAssumption DEF LogSizeAssumption, LogInv, Up, onDisk, callerVars
<1>1. TypeOK'
  BY DEF RecoverClear, TypeOK, CallerPoints, Faults, Entries, Progress,
       OpsCounted, InOp, HeaderExact
<1>2. OpsCounted'
  BY FS_EmptySet DEF OpsCounted, InOp, TypeOK, RecoverClear
<1>3. OneCommitter'
  BY DEF RecoverClear, TypeOK, OneCommitter, InOp, CommitPoints, OpsCounted
<1>4. FaultsPlaced'
  BY DEF RecoverClear, TypeOK, FaultsPlaced, InOp, OneCommitter, OpsCounted
<1>5. TargetsOwned'
  BY DEF RecoverClear, TypeOK, TargetsOwned, InOp
<1>6. CleanBuffers'
  BY DEF RecoverClear, TypeOK, CleanBuffers, TargetsOwned, Progress, Entries,
       HeaderExact, OneCommitter, CommitPoints, InOp, Installed, Copied
<1>7. HeaderExact'
  BY DEF RecoverClear, TypeOK, HeaderExact, Installing, OneCommitter,
       CommitPoints, InOp, TargetsOwned, Progress, Entries, IsInjective,
       Range
<1>8. Progress'
  BY DEF RecoverClear, TypeOK, Progress, HeaderExact, OneCommitter,
       CommitPoints, InOp, TargetsOwned, CleanBuffers, Installing, Entries,
       IsInjective, Range, Copied, Installed, Contents, LogSlot
<1>9. QuietEmpty'
  BY DEF RecoverClear, TypeOK, QuietEmpty, OneCommitter, CommitPoints, InOp,
       Progress
<1> QED
  BY <1>1, <1>2, <1>3, <1>4, <1>5, <1>6, <1>7, <1>8, <1>9

(* The first boot finds an empty log.                                      *)
LEMMA InitInv == Init => LogInv
<1> USE LogSizeAssumption DEF LogSizeAssumption
<1> SUFFICES ASSUME Init PROVE LogInv
  OBVIOUS
<1>1. TypeOK
  <2>1. 0 \in 0..OpWrites /\ 0 \in Nat /\ 1 \in Nat \ {0}
    OBVIOUS
  <2>2. hdr \in Seq(Home) /\ lh \in Seq(Home)
    BY DEF Init
  <2>3. logdata \in [LogSlot -> Val]
    BY DEF Init
  <2> QED
    BY <2>1, <2>2, <2>3 DEF Init, TypeOK, CallerPoints, Faults
<1>2. InOp = {}
  BY DEF Init, InOp
<1>3. OpsCounted
  BY <1>2, FS_EmptySet DEF Init, OpsCounted
<1>4. OneCommitter /\ FaultsPlaced
  BY <1>2 DEF Init, OneCommitter, FaultsPlaced, CommitPoints
<1>5. TargetsOwned /\ CleanBuffers
  BY DEF Init, TargetsOwned, CleanBuffers
<1>6. HeaderExact /\ Progress /\ QuietEmpty
  BY DEF Init, HeaderExact, Progress, QuietEmpty, Installing, IsInjective, Range
<1> QED
  BY <1>1, <1>3, <1>4, <1>5, <1>6 DEF LogInv

(* The invariant is inductive.                                             *)
LEMMA NextInv == LogInv /\ [Next]_vars => LogInv'
<1> SUFFICES ASSUME LogInv, [Next]_vars PROVE LogInv'
  OBVIOUS
<1>1. ASSUME NEW p \in Caller, Start(p) \/ CallerStep(p) PROVE LogInv'
  BY <1>1, StartInv, SleepsInv, EntersInv, LogWriteInv, EndOpInv, WriteLogInv,
     WriteHeadInv, InstallInv, ClearHeadInv, CommittedInv
  DEF CallerStep, CommitStep
<1>2. ASSUME NEW p \in Caller, NEW b \in Home, NEW v \in Val, Modify(p, b, v)
      PROVE  LogInv'
  BY <1>2, ModifyInv
<1>3. ASSUME NEW b \in Home, bread(b) \/ Recycle(b) PROVE LogInv'
  BY <1>3, BreadInv, RecycleInv
<1>4. CASE Crash \/ RecoverInstall \/ RecoverClear
  BY <1>4, CrashInv, RecoverInstallInv, RecoverClearInv
<1>5. CASE UNCHANGED vars
  <2>1. /\ InOp' = InOp /\ Installing' = Installing /\ Entries' = Entries
        /\ \A b : Contents(b)' = Contents(b)
    BY <1>5 DEF vars, onDisk, callerVars, InOp, Installing, Entries, Contents
  <2>2. \A n : (Copied(n)' <=> Copied(n)) /\ (Installed(n)' <=> Installed(n))
    BY <1>5 DEF vars, onDisk, Copied, Installed, Contents
  <2>3. TypeOK' /\ OpsCounted' /\ OneCommitter' /\ FaultsPlaced' /\ QuietEmpty'
    BY <1>5, <2>1 DEF LogInv, vars, onDisk, callerVars, TypeOK, OpsCounted,
       OneCommitter, FaultsPlaced, QuietEmpty
  <2>4. TargetsOwned' /\ CleanBuffers' /\ HeaderExact'
    BY <1>5, <2>1 DEF LogInv, vars, onDisk, callerVars, TargetsOwned,
       CleanBuffers, HeaderExact
  <2>5. Progress'
    BY <1>5, <2>1, <2>2 DEF LogInv, vars, onDisk, callerVars, Progress
  <2> QED
    BY <2>3, <2>4, <2>5 DEF LogInv
<1> QED
  BY <1>1, <1>2, <1>3, <1>4, <1>5 DEF Next

(* The log never leaves the invariant: one committer at a time, a header   *)
(* on disk that is empty or complete, and log blocks that hold what system *)
(* calls see.                                                              *)
THEOREM LogCorrect == Spec => []LogInv
<1> QED
  BY InitInv, NextInv, PTL DEF Spec

----------------------------------------------------------------------------
(* What a crash leaves, for a header h, log blocks ld and home blocks d.   *)
RecoveredOf(h, ld, d) ==
    [b \in Home |-> IF b \in Range(h)
                    THEN ld[CHOOSE i \in DOMAIN h : h[i] = b]
                    ELSE d[b]]

(* A block the header names once comes from its log block.                 *)
LEMMA RecoveredFacts ==
    ASSUME NEW h \in Seq(Home), IsInjective(h), NEW ld, NEW d, NEW b \in Home
    PROVE  /\ \A i \in 1..Len(h) : h[i] = b => RecoveredOf(h, ld, d)[b] = ld[i]
           /\ (\A i \in 1..Len(h) : h[i] # b) => RecoveredOf(h, ld, d)[b] = d[b]
<1>1. DOMAIN h = 1..Len(h)
  OBVIOUS
<1>2. ASSUME NEW i \in 1..Len(h), h[i] = b PROVE RecoveredOf(h, ld, d)[b] = ld[i]
  <2>1. b \in Range(h)
    BY <1>1, <1>2 DEF Range
  <2>2. (CHOOSE j \in DOMAIN h : h[j] = b) = i
    BY <1>1, <1>2 DEF IsInjective
  <2> QED
    BY <2>1, <2>2 DEF RecoveredOf
<1>3. ASSUME \A i \in 1..Len(h) : h[i] # b PROVE RecoveredOf(h, ld, d)[b] = d[b]
  <2>1. b \notin Range(h)
    BY <1>1, <1>3 DEF Range
  <2> QED
    BY <2>1 DEF RecoveredOf
<1> QED
  BY <1>2, <1>3

(* With an empty header a crash leaves the home blocks.                    *)
LEMMA RecoveredEmpty ==
    ASSUME NEW ld, NEW d \in [Home -> Val]
    PROVE  RecoveredOf(<<>>, ld, d) = d
<1>1. Range(<<>>) = {}
  BY DEF Range
<1> QED
  BY <1>1 DEF RecoveredOf

(* What a crash leaves does not depend on the home blocks it will install. *)
LEMMA RecoveredSame ==
    ASSUME NEW h \in Seq(Home), IsInjective(h), NEW ld, NEW d, NEW e,
           \A b \in Home : (\A i \in 1..Len(h) : h[i] # b) => d[b] = e[b]
    PROVE  RecoveredOf(h, ld, d) = RecoveredOf(h, ld, e)
<1>1. ASSUME NEW b \in Home
      PROVE  RecoveredOf(h, ld, d)[b] = RecoveredOf(h, ld, e)[b]
  <2>1. CASE \E i \in 1..Len(h) : h[i] = b
    <3>1. PICK i \in 1..Len(h) : h[i] = b
      BY <2>1
    <3> QED
      BY <3>1, RecoveredFacts
  <2>2. CASE \A i \in 1..Len(h) : h[i] # b
    BY <2>2, RecoveredFacts
  <2> QED
    BY <2>1, <2>2
<1>2. \A x : RecoveredOf(h, ld, x) = [b \in Home |-> RecoveredOf(h, ld, x)[b]]
  BY DEF RecoveredOf
<1> QED
  BY <1>1, <1>2

(* What system calls see.                                                  *)
Vol == IF mode = "up" THEN [b \in Home |-> Contents(b)] ELSE Recovered

(* A step that changes none of the three abstract variables is a stutter,  *)
(* one that only the set of active calls tells apart is a Begin or an End. *)
LEMMA AbstractStutter ==
    ASSUME Vol' = Vol, Recovered' = Recovered, InOp' = InOp
    PROVE  UNCHANGED D!diskVars
BY DEF Vol, D!diskVars

(* The header is Seq-typed and injective, so what a crash leaves can be    *)
(* computed before and after a step.                                       *)
LEMMA HeaderTyped ==
    ASSUME LogInv
    PROVE  /\ hdr \in Seq(Home) /\ IsInjective(hdr)
           /\ Recovered = RecoveredOf(hdr, logdata, disk)
<1>1. IsInjective(<<>>)
  BY DEF IsInjective
<1> QED
  BY <1>1 DEF LogInv, TypeOK, HeaderExact, Recovered, RecoveredOf

(* A commit or a recovery that has installed every block may forget the    *)
(* header: what a crash leaves is then on the disk itself.                 *)
LEMMA RecoveredInstalled ==
    ASSUME LogInv, hdr = lh, Installed(Len(lh))
    PROVE  Recovered = disk
<1> USE DEF LogInv
<1>1. Recovered = RecoveredOf(hdr, logdata, disk) /\ hdr \in Seq(Home) /\ IsInjective(hdr)
  BY HeaderTyped
<1>2. ASSUME NEW b \in Home PROVE RecoveredOf(hdr, logdata, disk)[b] = disk[b]
  <2>1. CASE \E i \in 1..Len(hdr) : hdr[i] = b
    <3>1. PICK i \in 1..Len(hdr) : hdr[i] = b
      BY <2>1
    <3>2. disk[b] = logdata[i]
      BY <3>1 DEF Installed
    <3> QED
      BY <1>1, <3>1, <3>2, RecoveredFacts
  <2>2. CASE \A i \in 1..Len(hdr) : hdr[i] # b
    BY <1>1, <2>2, RecoveredFacts
  <2> QED
    BY <2>1, <2>2
<1> QED
  BY <1>1, <1>2 DEF RecoveredOf, TypeOK

(* The commit point: once every block is copied, the header makes a crash  *)
(* leave exactly what system calls see.                                    *)
LEMMA CommitPoint ==
    ASSUME LogInv, NEW p \in Caller, pc[p] = "write_head", mode = "up"
    PROVE  RecoveredOf(lh, logdata, disk) = [b \in Home |-> Contents(b)]
<1> USE LogSizeAssumption DEF LogSizeAssumption, LogInv
<1>1. lh \in Seq(Home) /\ IsInjective(lh) /\ Copied(Len(lh))
  BY DEF TypeOK, HeaderExact, Progress
<1>2. /\ committing /\ InOp = {} /\ \A q \in Caller : target[q] = None
      /\ fault # "too big a transaction" /\ dirty = Range(lh)
  <2>1. committing /\ InOp = {}
    BY DEF OneCommitter, CommitPoints
  <2>2. \A q \in Caller : target[q] = None
    BY <2>1 DEF TargetsOwned, InOp
  <2>3. ~Installing
    BY DEF OneCommitter, CommitPoints, Installing
  <2> QED
    BY <2>1, <2>2, <2>3 DEF FaultsPlaced, HeaderExact
<1>3. ASSUME NEW b \in Home PROVE RecoveredOf(lh, logdata, disk)[b] = Contents(b)
  <2>1. CASE \E i \in 1..Len(lh) : lh[i] = b
    <3>1. PICK i \in 1..Len(lh) : lh[i] = b
      BY <2>1
    <3>2. logdata[i] = Contents(b)
      BY <1>1, <3>1 DEF Copied
    <3> QED
      BY <1>1, <3>1, <3>2, RecoveredFacts
  <2>2. CASE \A i \in 1..Len(lh) : lh[i] # b
    <3>1. DOMAIN lh = 1..Len(lh)
      BY <1>1
    <3>2. b \notin Range(lh)
      BY <2>2, <3>1, Zenon DEF Range
    <3>3. buf[b] = None \/ buf[b] = disk[b]
      BY <1>2, <3>2 DEF CleanBuffers
    <3> QED
      BY <1>1, <2>2, <3>3, RecoveredFacts DEF Contents
  <2> QED
    BY <2>1, <2>2
<1> QED
  BY <1>3 DEF RecoveredOf

(* With no commit or recovery past its header, a crash leaves the disk.    *)
LEMMA RecoveredIdle ==
    ASSUME LogInv, mode = "up", ~Installing
    PROVE  hdr = <<>> /\ Recovered = disk
<1>1. hdr = <<>>
  BY DEF LogInv, HeaderExact
<1>2. Recovered = RecoveredOf(<<>>, logdata, disk)
  BY <1>1, HeaderTyped
<1> QED
  BY <1>1, <1>2, RecoveredEmpty DEF LogInv, TypeOK

(* Every step of the log is a step of the abstract disk or changes nothing *)
(* that it shows.                                                          *)
LEMMA StepRefines ==
    ASSUME LogInv, LogInv', [Next]_vars
    PROVE  [D!Next]_(D!diskVars)
<1> USE LogSizeAssumption DEF LogSizeAssumption, Up, onDisk, callerVars
<1>a. /\ hdr \in Seq(Home) /\ IsInjective(hdr)
      /\ Recovered = RecoveredOf(hdr, logdata, disk)
      /\ Recovered' = RecoveredOf(hdr', logdata', disk')
  BY HeaderTyped DEF Recovered, RecoveredOf
<1>b. TypeOK
  BY DEF LogInv
<1>c. ASSUME UNCHANGED <<disk, logdata, hdr>> PROVE Recovered' = Recovered
  BY <1>a, <1>c
<1>d. ASSUME UNCHANGED <<disk, buf>> PROVE \A b : Contents(b)' = Contents(b)
  BY <1>d DEF Contents
<1>e. ASSUME mode' = mode, Recovered' = Recovered,
             \A b \in Home : Contents(b)' = Contents(b)
      PROVE  Vol' = Vol
  BY <1>e DEF Vol
<1>1. ASSUME NEW p \in Caller, Start(p) \/ begin_op_Sleeps(p)
      PROVE  UNCHANGED D!diskVars
  <2>1. InOp' = InOp
    BY <1>1, <1>b DEF InOp, Start, begin_op_Sleeps, Goto, TypeOK
  <2>2. Vol' = Vol /\ Recovered' = Recovered
    BY <1>1, <1>c, <1>d, <1>e DEF Start, begin_op_Sleeps
  <2> QED
    BY <2>1, <2>2, AbstractStutter
<1>2. ASSUME NEW p \in Caller, begin_op_Enters(p) PROVE D!Begin(p)
  <2>1. InOp' = InOp \cup {p} /\ p \notin InOp
    BY <1>2, <1>b DEF InOp, begin_op_Enters, Goto, TypeOK
  <2>2. Vol' = Vol /\ Recovered' = Recovered
    BY <1>2, <1>c, <1>d, <1>e DEF begin_op_Enters
  <2> QED
    BY <2>1, <2>2 DEF D!Begin, Vol
<1>3. ASSUME NEW p \in Caller, log_write(p) PROVE UNCHANGED D!diskVars
  <2>1. InOp' = InOp
    BY <1>3, <1>b DEF InOp, log_write, Goto, TypeOK
  <2>2. Vol' = Vol /\ Recovered' = Recovered
    BY <1>3, <1>c, <1>d, <1>e DEF log_write
  <2> QED
    BY <2>1, <2>2, AbstractStutter
<1>4. ASSUME NEW p \in Caller, end_op(p) PROVE D!End(p)
  <2>1. p \in InOp /\ ~committing
    BY <1>4 DEF end_op, InOp, LogInv, OneCommitter
  <2>2. InOp' = InOp \ {p}
    BY <1>4, <1>b, <2>1 DEF InOp, end_op, LastOut, WakeupAll, TypeOK
  <2>3. Vol' = Vol /\ Recovered' = Recovered
    BY <1>4, <1>c, <1>d, <1>e DEF end_op
  <2> QED
    BY <2>1, <2>2, <2>3 DEF D!End, Vol
<1>5. ASSUME NEW p \in Caller, write_log(p) PROVE UNCHANGED D!diskVars
  <2>1. /\ pc[p] = "write_log" /\ mode = "up" /\ lh[tail] \in Home
        /\ disk' = disk /\ hdr' = hdr /\ mode' = mode
    <3>1. pc[p] = "write_log" /\ mode = "up"
      BY <1>5 DEF write_log
    <3>2. tail \in 1..Len(lh)
      BY <3>1 DEF LogInv, Progress, Entries
    <3>3. lh[tail] \in Home
      BY <1>b, <3>2 DEF TypeOK
    <3> QED
      BY <1>5, <3>1, <3>3 DEF write_log
  <2>2. \A b \in Home : Contents(b)' = Contents(b)
    <3>1. buf' = buf \/ buf' = [buf EXCEPT ![lh[tail]] = Contents(lh[tail])]
      BY <1>5 DEF write_log
    <3>2. \A b \in Home : buf'[b] = buf[b] \/ buf'[b] = Contents(b)
      BY <1>b, <2>1, <3>1 DEF TypeOK
    <3>3. \A b \in Home : Contents(b) # None
      BY <1>b DEF TypeOK, Contents
    <3> QED
      BY <2>1, <3>2, <3>3 DEF Contents
  <2>3. ~Installing
    BY <2>1 DEF Installing, LogInv, OneCommitter, CommitPoints
  <2>4. hdr = <<>> /\ disk \in [Home -> Val]
    BY <1>b, <2>1, <2>3, RecoveredIdle DEF TypeOK
  <2>5. Recovered = disk /\ Recovered' = disk
    BY <1>a, <2>1, <2>4, RecoveredEmpty
  <2>6. InOp' = InOp
    BY <1>5, <1>b DEF InOp, write_log, TypeOK
  <2> QED
    BY <1>e, <2>1, <2>2, <2>5, <2>6, AbstractStutter
<1>6. ASSUME NEW p \in Caller, write_head(p) PROVE D!Commit
  <2>1. /\ pc[p] = "write_head" /\ mode = "up" /\ mode' = mode /\ hdr' = lh
        /\ disk' = disk /\ logdata' = logdata /\ buf' = buf
    BY <1>6 DEF write_head, Goto
  <2>2. InOp = {} /\ InOp' = InOp
    BY <1>6, <1>b, <2>1
    DEF InOp, write_head, Goto, TypeOK, LogInv, OneCommitter, CommitPoints
  <2>3. Recovered' = RecoveredOf(lh, logdata, disk)
    BY <1>a, <2>1
  <2>4. Vol = [b \in Home |-> Contents(b)] /\ Vol' = Vol
    BY <1>d, <2>1 DEF Vol
  <2>5. Recovered' = Vol
    BY <2>1, <2>3, <2>4, CommitPoint
  <2> QED
    BY <2>2, <2>4, <2>5 DEF D!Commit, Vol
<1>7. ASSUME NEW p \in Caller, install_trans(p) PROVE UNCHANGED D!diskVars
  <2>1. /\ pc[p] = "install_trans" /\ mode = "up" /\ tail \in 1..Len(lh)
        /\ hdr = lh /\ tail \in LogSlot /\ logdata[tail] = Contents(lh[tail])
        /\ mode' = mode /\ hdr' = hdr /\ logdata' = logdata
    BY <1>7 DEF install_trans, InstallOne, LogInv, Progress, Entries, Copied
  <2>2. lh[tail] \in Home /\ logdata[tail] # None
    BY <1>b, <2>1 DEF TypeOK
  <2>3. /\ disk' = [disk EXCEPT ![lh[tail]] = logdata[tail]]
        /\ buf' = [buf EXCEPT ![lh[tail]] = logdata[tail]]
    BY <1>7 DEF install_trans, InstallOne
  <2>4. \A b \in Home : Contents(b)' = Contents(b)
    BY <1>b, <2>1, <2>2, <2>3 DEF TypeOK, Contents
  <2>5. \A b \in Home : (\A i \in 1..Len(hdr) : hdr[i] # b) => disk'[b] = disk[b]
    BY <1>b, <2>1, <2>3 DEF TypeOK
  <2>6. Recovered' = Recovered
    BY <1>a, <2>1, <2>5, RecoveredSame
  <2>7. InOp' = InOp
    BY <1>7, <1>b DEF InOp, install_trans, TypeOK
  <2> QED
    BY <1>e, <2>1, <2>4, <2>6, <2>7, AbstractStutter
<1>8. ASSUME NEW p \in Caller, clear_head(p) PROVE UNCHANGED D!diskVars
  <2>1. hdr = lh /\ Installed(Len(lh))
    BY <1>8 DEF clear_head, Goto, LogInv, Progress
  <2>2. Recovered = disk
    BY <2>1, RecoveredInstalled
  <2>3. Recovered' = disk
    BY <1>8, <1>a, <1>b, RecoveredEmpty DEF clear_head, TypeOK
  <2>4. \A b \in Home : Contents(b)' = Contents(b)
    BY <1>8, <1>d DEF clear_head
  <2>5. InOp' = InOp /\ mode' = mode
    BY <1>8, <1>b DEF InOp, clear_head, Goto, TypeOK
  <2> QED
    BY <1>e, <2>2, <2>3, <2>4, <2>5, AbstractStutter
<1>9. ASSUME NEW p \in Caller, Committed(p) PROVE UNCHANGED D!diskVars
  <2>1. InOp' = InOp
    BY <1>9, <1>b DEF InOp, Committed, Wakes, WakeupAll, TypeOK
  <2>2. Vol' = Vol /\ Recovered' = Recovered
    BY <1>9, <1>c, <1>d, <1>e DEF Committed
  <2> QED
    BY <2>1, <2>2, AbstractStutter
<1>10. ASSUME NEW p \in Caller, NEW b \in Home, NEW v \in Val, Modify(p, b, v)
       PROVE  D!Write(p, b)
  <2>1. p \in InOp /\ mode = "up" /\ mode' = mode /\ disk' = disk
    BY <1>10 DEF Modify, InOp
  <2>2. InOp' = InOp
    BY <1>10, <1>b DEF InOp, Modify, TypeOK
  <2>3. Recovered' = Recovered
    BY <1>10, <1>c DEF Modify
  <2>4. \A c \in Home : Contents(c)' = IF c = b THEN v ELSE Contents(c)
    BY <1>10, <1>b, <2>1 DEF Modify, Contents, TypeOK
  <2>5. Vol = [c \in Home |-> Contents(c)] /\ Vol' = [c \in Home |-> Contents(c)']
    BY <2>1 DEF Vol
  <2>6. Vol' = [Vol EXCEPT ![b] = v]
    BY <2>4, <2>5
  <2> QED
    BY <2>1, <2>2, <2>3, <2>6 DEF D!Write, Vol
<1>11. ASSUME NEW b \in Home, bread(b) \/ Recycle(b) PROVE UNCHANGED D!diskVars
  <2>1. \A c \in Home : Contents(c)' = Contents(c)
    <3>1. CASE bread(b)
      BY <3>1, <1>b DEF bread, Contents, TypeOK
    <3>2. CASE Recycle(b)
      <4>1. buf[b] = None \/ buf[b] = disk[b]
        BY <3>2 DEF Recycle, LogInv, CleanBuffers
      <4> QED
        BY <3>2, <4>1, <1>b DEF Recycle, Contents, TypeOK
    <3> QED
      BY <1>11, <3>1, <3>2
  <2>2. mode' = mode /\ InOp' = InOp /\ Recovered' = Recovered
    BY <1>11, <1>c DEF bread, Recycle, InOp
  <2> QED
    BY <1>e, <2>1, <2>2, AbstractStutter
<1>12. ASSUME Crash PROVE D!Crash
  <2>1. Recovered' = Recovered
    BY <1>12, <1>c DEF Crash
  <2>2. mode' # "up" /\ InOp' = {}
    BY <1>12 DEF Crash, AfterHead, InOp
  <2>3. Vol' = Recovered
    BY <2>1, <2>2 DEF Vol
  <2> QED
    BY <2>1, <2>2, <2>3 DEF D!Crash, Vol
<1>13. ASSUME RecoverInstall PROVE UNCHANGED D!diskVars
  <2>1. /\ tail \in 1..Len(lh) /\ hdr = lh /\ mode = "install" /\ mode' # "up"
        /\ hdr' = hdr /\ logdata' = logdata /\ InOp' = InOp
        /\ disk' = [disk EXCEPT ![lh[tail]] = logdata[tail]]
    BY <1>13 DEF RecoverInstall, InstallOne, LogInv, Progress, Entries,
       HeaderExact, InOp
  <2>2. \A b \in Home : (\A i \in 1..Len(hdr) : hdr[i] # b) => disk'[b] = disk[b]
    BY <1>b, <2>1 DEF TypeOK
  <2>3. Recovered' = Recovered
    <3>1. RecoveredOf(hdr, logdata, disk') = RecoveredOf(hdr, logdata, disk)
      BY <1>a, <2>2, RecoveredSame
    <3> QED
      BY <1>a, <2>1, <3>1
  <2>4. Vol' = Vol
    BY <2>1, <2>3 DEF Vol
  <2> QED
    BY <2>1, <2>3, <2>4, AbstractStutter
<1>14. ASSUME RecoverClear PROVE UNCHANGED D!diskVars
  <2>1. /\ mode = "clear" /\ mode' = "up" /\ disk' = disk /\ buf' = buf
        /\ hdr' = <<>> /\ InOp' = InOp /\ fault = "none"
    BY <1>14 DEF RecoverClear, InOp
  <2>2. /\ hdr = lh /\ Installed(Len(lh)) /\ dirty = {}
        /\ \A q \in Caller : target[q] = None
    BY <2>1 DEF LogInv, Progress, HeaderExact, OneCommitter, TargetsOwned
  <2>3. Recovered = disk /\ Recovered' = disk /\ disk \in [Home -> Val]
    BY <1>a, <1>b, <2>1, <2>2, RecoveredInstalled, RecoveredEmpty DEF TypeOK
  <2>4. \A b \in Home : Contents(b)' = disk[b]
    <3>1. \A b \in Home : buf[b] = None \/ buf[b] = disk[b]
      BY <2>1, <2>2 DEF LogInv, CleanBuffers
    <3> QED
      BY <2>1, <3>1 DEF Contents
  <2>5. Vol = disk /\ Vol' = [b \in Home |-> Contents(b)']
    BY <2>1, <2>3 DEF Vol
  <2>6. Vol' = Vol
    BY <2>3, <2>4, <2>5
  <2> QED
    BY <2>1, <2>3, <2>6, AbstractStutter
<1>15. ASSUME UNCHANGED vars PROVE UNCHANGED D!diskVars
  <2>1. Vol' = Vol /\ Recovered' = Recovered /\ InOp' = InOp
    BY <1>15, <1>c, <1>d, <1>e DEF vars, InOp
  <2> QED
    BY <2>1, AbstractStutter
<1>16. ASSUME NEW p \in Caller, Start(p) \/ CallerStep(p)
       PROVE  [D!Next]_(D!diskVars)
  BY <1>16, <1>1, <1>2, <1>3, <1>4, <1>5, <1>6, <1>7, <1>8, <1>9
  DEF CallerStep, CommitStep, D!Next
<1>17. ASSUME NEW p \in Caller, NEW b \in Home, NEW v \in Val, Modify(p, b, v)
       PROVE  [D!Next]_(D!diskVars)
  BY <1>17, <1>10 DEF D!Next
<1> QED
  BY <1>11, <1>12, <1>13, <1>14, <1>15, <1>16, <1>17 DEF Next, D!Next

(* The log makes groups of system calls atomic: log.c implements a disk    *)
(* that moves, in one step and while no call is under way, from the        *)
(* effects of the finished calls at one moment to those at a later one,    *)
(* whatever crashes interrupt the commits and the recoveries.              *)
THEOREM AtomicityCorrect == Spec => AtomicCommits
<1>1. ASSUME Init PROVE D!Init
  <2>1. LogInv /\ mode = "up" /\ ~Installing
    BY <1>1, InitInv DEF Init, Installing
  <2>2. Recovered = disk /\ disk \in [Home -> Val]
    BY <2>1, RecoveredIdle DEF LogInv, TypeOK
  <2>3. [b \in Home |-> Contents(b)] = disk
    BY <1>1, <2>2 DEF Init, Contents
  <2>4. InOp = {}
    BY <1>1 DEF Init, InOp
  <2> QED
    BY <2>1, <2>2, <2>3, <2>4 DEF D!Init
<1>2. LogInv /\ LogInv' /\ [Next]_vars => [D!Next]_(D!diskVars)
  BY StepRefines
<1>3. Spec => []LogInv
  BY LogCorrect
<1> QED
  BY <1>1, <1>2, <1>3, PTL DEF Spec, AtomicCommits, D!Spec

(* When the last end_op has returned, a crash loses nothing: everything    *)
(* system calls see is on the disk.                                        *)
THEOREM DurabilityCorrect == Spec => []DurableWhenQuiet
<1>1. LogInv => DurableWhenQuiet
  <2> USE LogSizeAssumption DEF LogSizeAssumption
  <2> SUFFICES ASSUME LogInv, mode = "up", outstanding = 0, ~committing
               PROVE  Recovered = [b \in Home |-> Contents(b)]
    BY DEF DurableWhenQuiet
  <2>1. InOp = {}
    BY FS_EmptySet DEF LogInv, OpsCounted
  <2>2. ~Installing /\ lh = <<>>
    BY <2>1 DEF LogInv, OneCommitter, CommitPoints, Installing, QuietEmpty
  <2>3. dirty = {} /\ fault # "too big a transaction"
    <3>1. Range(<<>>) = {}
      BY DEF Range
    <3> QED
      BY <2>1, <2>2, <3>1 DEF LogInv, HeaderExact, FaultsPlaced
  <2>4. \A q \in Caller : target[q] = None
    BY <2>1 DEF LogInv, TargetsOwned, InOp
  <2>5. \A b \in Home : Contents(b) = disk[b]
    BY <2>3, <2>4 DEF LogInv, CleanBuffers, Contents
  <2>6. Recovered = disk /\ disk \in [Home -> Val]
    BY <2>2, RecoveredIdle DEF LogInv, TypeOK
  <2> QED
    BY <2>5, <2>6
<1> QED
  BY <1>1, LogCorrect, PTL

----------------------------------------------------------------------------
(* The reservation of begin_op.                                            *)

(* begin_op counts with LOGSIZE blocks, of which the header takes one when *)
(* mkfs gives the log LOGSIZE blocks: it is the calls that write fewer     *)
(* blocks than they reserve (filewrite sizes its chunks so) that make up   *)
(* for it.                                                                 *)
HeaderRoom == LOGSIZE < NLOG \/ (LOGSIZE = NLOG /\ OpWrites < MAXOPBLOCKS)

(* The changes the calls under way may still bring to the log: t[2] is the *)
(* number of a change of call t[1].                                        *)
Todo ==
    {t \in Caller \X (1..OpWrites) :
        /\ t[1] \in InOp
        /\ t[2] > writes[t[1]] \/ (pc[t[1]] = "logging" /\ t[2] = writes[t[1]])}

(* They fit.                                                               *)
Fits ==
    /\ IsFiniteSet(Todo)
    /\ Len(lh) + Cardinality(Todo) <= LOGSIZE
    /\ Len(lh) + Cardinality(Todo) <= NLOG - 1

RoomInv ==
    /\ fault = "none"
    /\ \A p \in Caller : pc[p] = "logging" => writes[p] > 0
    /\ mode = "up" => Fits

(* A step that grows neither the log nor what may still come keeps it.     *)
LEMMA FitsKept ==
    ASSUME Fits, Todo' \subseteq Todo, Len(lh) \in Nat, Len(lh') \in Nat,
           Len(lh') <= Len(lh)
    PROVE  Fits'
<1> USE LogSizeAssumption DEF LogSizeAssumption
<1>1. IsFiniteSet(Todo') /\ Cardinality(Todo') <= Cardinality(Todo)
  BY FS_Subset DEF Fits
<1>2. Cardinality(Todo') \in Nat /\ Cardinality(Todo) \in Nat
  BY <1>1, FS_CardinalityType DEF Fits
<1> QED
  BY <1>1, <1>2 DEF Fits

(* The largest transaction begin_op lets in fits beside the header.        *)
LEMMA ReservationFits ==
    ASSUME HeaderRoom, NEW n \in Nat, NEW k \in Nat, k > 0,
           n + k * MAXOPBLOCKS <= LOGSIZE
    PROVE  n + k * OpWrites <= LOGSIZE /\ n + k * OpWrites <= NLOG - 1
<1> USE LogSizeAssumption DEF LogSizeAssumption
<1>1. k * OpWrites <= k * MAXOPBLOCKS
  OBVIOUS
<1>2. OpWrites < MAXOPBLOCKS => k * OpWrites < k * MAXOPBLOCKS
  OBVIOUS
<1>3. k * OpWrites \in Nat /\ k * MAXOPBLOCKS \in Nat
  OBVIOUS
<1> QED
  BY <1>1, <1>2, <1>3 DEF HeaderRoom

(* Every step keeps the room.                                              *)
LEMMA RoomKept ==
    ASSUME HeaderRoom, LogInv, LogInv', RoomInv, [Next]_vars
    PROVE  RoomInv'
<1> USE LogSizeAssumption DEF LogSizeAssumption, Up, onDisk, callerVars
<1>a. TypeOK /\ TypeOK'
  BY DEF LogInv
<1>b. /\ Len(lh) \in Nat /\ Len(lh') \in Nat /\ OpWrites \in Nat
      /\ fault = "none" /\ \A q \in Caller : writes[q] \in 0..OpWrites
  BY <1>a DEF TypeOK, RoomInv
<1>d. ASSUME fault' = "none", mode = "up", Len(lh') <= Len(lh),
             UNCHANGED writes,
             \A q \in Caller : /\ q \in InOp' => q \in InOp
                               /\ pc'[q] = "logging" => pc[q] = "logging"
      PROVE  RoomInv'
  <2>1. Todo' \subseteq Todo
    BY <1>d DEF Todo
  <2> QED
    BY <1>b, <1>d, <2>1, FitsKept DEF RoomInv
<1>1. ASSUME NEW p \in Caller, Start(p) \/ begin_op_Sleeps(p) PROVE RoomInv'
  BY <1>1, <1>a, <1>b, <1>d DEF Start, begin_op_Sleeps, Goto, InOp, TypeOK
<1>2. ASSUME NEW p \in Caller, begin_op_Enters(p) PROVE RoomInv'
  <2>1. /\ outstanding' \in Nat /\ outstanding' > 0 /\ IsFiniteSet(InOp')
        /\ outstanding' = Cardinality(InOp') /\ lh' = lh
    BY <1>2, <1>a DEF begin_op_Enters, TypeOK, LogInv, OpsCounted
  <2>2. Len(lh') + outstanding' * MAXOPBLOCKS <= LOGSIZE
    BY <1>2 DEF begin_op_Enters, MustWait
  <2>3. /\ IsFiniteSet(InOp' \X (1..OpWrites))
        /\ Cardinality(InOp' \X (1..OpWrites)) = outstanding' * OpWrites
    <3>1. IsFiniteSet(1..OpWrites) /\ Cardinality(1..OpWrites) = OpWrites
      <4>1. 1 \in Int /\ OpWrites \in Int
        BY <1>b
      <4>2. /\ IsFiniteSet(1..OpWrites)
            /\ Cardinality(1..OpWrites) = IF 1 > OpWrites THEN 0 ELSE OpWrites - 1 + 1
        BY <4>1, FS_Interval
      <4> QED
        BY <1>b, <4>2
    <3> QED
      BY <2>1, <3>1, FS_Product
  <2>4. Todo' \subseteq InOp' \X (1..OpWrites)
    BY DEF Todo
  <2>5. IsFiniteSet(Todo') /\ Cardinality(Todo') <= outstanding' * OpWrites
    BY <2>3, <2>4, FS_Subset
  <2>6. Len(lh') + outstanding' * OpWrites <= LOGSIZE
        /\ Len(lh') + outstanding' * OpWrites <= NLOG - 1
    BY <1>b, <2>1, <2>2, ReservationFits
  <2>7. Cardinality(Todo') \in Nat /\ outstanding' * OpWrites \in Nat
    BY <1>b, <2>1, <2>5, FS_CardinalityType
  <2>8. Fits'
    BY <1>b, <2>5, <2>6, <2>7 DEF Fits
  <2>9. fault' = "none" /\ \A q \in Caller : pc'[q] = "logging" => writes'[q] > 0
    BY <1>2, <1>a, <1>b DEF begin_op_Enters, Goto, RoomInv, TypeOK
  <2> QED
    BY <2>8, <2>9 DEF RoomInv
<1>3. ASSUME NEW p \in Caller, log_write(p) PROVE RoomInv'
  <2> DEFINE t == <<p, writes[p]>>
  <2>1. /\ pc[p] = "logging" /\ pc' = [pc EXCEPT ![p] = "op"] /\ fault' = "none"
        /\ writes' = writes /\ mode' = mode /\ mode = "up" /\ InOp' = InOp
        /\ lh' = lh \/ lh' = Append(lh, target[p])
    BY <1>3, <1>a DEF log_write, Goto, InOp, TypeOK
  <2>2. t \in Todo /\ Todo' = Todo \ {t}
    <3>1. writes[p] \in 1..OpWrites /\ p \in InOp
      BY <1>b, <2>1 DEF RoomInv, InOp
    <3>2. t \in Todo
      BY <2>1, <3>1 DEF Todo
    <3>3. ASSUME NEW u \in Caller \X (1..OpWrites)
          PROVE  u \in Todo' <=> u \in Todo /\ u # t
      BY <1>a, <1>b, <2>1, <3>1 DEF Todo, TypeOK
    <3> QED
      BY <3>2, <3>3 DEF Todo
  <2>3. /\ IsFiniteSet(Todo') /\ Cardinality(Todo') = Cardinality(Todo) - 1
        /\ Cardinality(Todo) \in Nat
    BY <2>1, <2>2, FS_RemoveElement, FS_CardinalityType DEF RoomInv, Fits
  <2>4. Len(lh') <= Len(lh) + 1
    <3>1. target[p] \in Home
      BY <2>1 DEF LogInv, TargetsOwned, TypeOK
    <3> QED
      BY <1>a, <1>b, <2>1, <3>1, AppendProperties DEF TypeOK
  <2>5. Fits'
    BY <1>b, <2>1, <2>3, <2>4 DEF RoomInv, Fits
  <2> QED
    BY <1>a, <2>1, <2>5 DEF RoomInv, TypeOK
<1>4. ASSUME NEW p \in Caller, end_op(p) PROVE RoomInv'
  <2>1. p \in InOp /\ ~committing /\ mode = "up"
    BY <1>4 DEF end_op, InOp, LogInv, OneCommitter
  <2>2. /\ lh' = lh /\ fault' = "none" /\ writes' = writes
        /\ \A q \in Caller : /\ q \in InOp' => q \in InOp
                             /\ pc'[q] = "logging" => pc[q] = "logging"
    BY <1>4, <1>a, <1>b, <2>1 DEF end_op, LastOut, WakeupAll, InOp, TypeOK
  <2> QED
    BY <1>b, <1>d, <2>1, <2>2
<1>5. ASSUME NEW p \in Caller, write_log(p) PROVE RoomInv'
  <2>1. pc[p] = "write_log" /\ mode = "up" /\ lh' = lh /\ writes' = writes
    BY <1>5 DEF write_log
  <2>2. tail \in 1..Len(lh)
    BY <2>1 DEF LogInv, Progress, Entries
  <2>3. Cardinality(Todo) \in Nat /\ Len(lh) + Cardinality(Todo) <= NLOG - 1
    BY <2>1, FS_CardinalityType DEF RoomInv, Fits
  <2>4. tail \in LogSlot
    BY <1>b, <2>2, <2>3 DEF LogSlot
  <2>5. /\ fault' = "none"
        /\ \A q \in Caller : /\ q \in InOp' => q \in InOp
                             /\ pc'[q] = "logging" => pc[q] = "logging"
    BY <1>5, <1>a, <1>b, <2>4 DEF write_log, InOp, TypeOK
  <2> QED
    BY <1>b, <1>d, <2>1, <2>5
<1>6. ASSUME NEW p \in Caller, write_head(p) \/ install_trans(p) PROVE RoomInv'
  BY <1>6, <1>a, <1>b, <1>d DEF write_head, install_trans, Goto, InOp, TypeOK
<1>7. ASSUME NEW p \in Caller, clear_head(p) \/ Committed(p) PROVE RoomInv'
  <2>1. /\ fault' = "none" /\ mode = "up" /\ writes' = writes
        /\ lh' = lh \/ lh' = <<>>
        /\ \A q \in Caller : pc'[q] \in {"out", "begin", "committed", pc[q]}
    BY <1>7, <1>a, <1>b DEF clear_head, Committed, Wakes, WakeupAll, Goto, TypeOK
  <2>2. Len(lh') <= Len(lh)
    BY <1>b, <2>1
  <2> QED
    BY <1>d, <2>1, <2>2 DEF InOp
<1>8. ASSUME NEW p \in Caller, NEW b \in Home, NEW v \in Val, Modify(p, b, v)
      PROVE  RoomInv'
  <2>1. /\ pc[p] = "op" /\ mode = "up" /\ mode' = mode /\ lh' = lh /\ p \in InOp
        /\ writes[p] < OpWrites
    BY <1>8 DEF Modify, InOp
  <2>2. <<p, writes[p] + 1>> \in Todo
    BY <1>b, <2>1 DEF Todo
  <2>3. Cardinality(Todo) \in Nat /\ Cardinality(Todo) > 0
    BY <2>1, <2>2, FS_CardinalityType, FS_EmptySet DEF RoomInv, Fits
  <2>4. ~(Len(lh) >= LOGSIZE \/ Len(lh) >= NLOG - 1)
    BY <1>b, <2>1, <2>3 DEF RoomInv, Fits
  <2>5. /\ pc' = [pc EXCEPT ![p] = "logging"] /\ fault' = "none"
        /\ writes' = [writes EXCEPT ![p] = writes[p] + 1]
    BY <1>8, <1>b, <2>4 DEF Modify
  <2>6. \A q \in Caller : /\ q \in InOp' <=> q \in InOp
                          /\ q # p => pc'[q] = pc[q] /\ writes'[q] = writes[q]
    BY <1>a, <2>1, <2>5 DEF InOp, TypeOK
  <2>7. pc'[p] = "logging" /\ writes'[p] = writes[p] + 1
    BY <1>a, <2>5 DEF TypeOK
  <2>8. Todo' \subseteq Todo
    BY <1>b, <2>1, <2>6, <2>7 DEF Todo
  <2>9. Fits'
    BY <1>b, <2>1, <2>8, FitsKept DEF RoomInv
  <2>10. \A q \in Caller : pc'[q] = "logging" => writes'[q] > 0
    BY <1>b, <2>6, <2>7 DEF RoomInv
  <2> QED
    BY <2>5, <2>9, <2>10 DEF RoomInv
<1>9. ASSUME NEW b \in Home, bread(b) \/ Recycle(b) PROVE RoomInv'
  BY <1>9, <1>a, <1>b, <1>d DEF bread, Recycle, InOp
<1>10. CASE Crash
  BY <1>10 DEF Crash, AfterHead, RoomInv
<1>11. CASE RecoverInstall
  BY <1>11, <1>b DEF RecoverInstall, RoomInv
<1>12. CASE RecoverClear
  <2>1. lh' = <<>> /\ fault' = "none" /\ pc' = pc
        /\ \A q \in Caller : pc[q] = "out"
    BY <1>12 DEF RecoverClear, LogInv, OneCommitter
  <2>2. Todo' = {}
    BY <2>1 DEF Todo, InOp
  <2>3. IsFiniteSet({}) /\ Cardinality({}) = 0 /\ Len(<<>>) = 0
    BY FS_EmptySet
  <2>4. Fits'
    BY <2>1, <2>2, <2>3 DEF Fits
  <2> QED
    BY <2>1, <2>4 DEF RoomInv
<1>13. CASE UNCHANGED vars
  <2>1. UNCHANGED <<fault, mode, pc, writes, lh>> /\ InOp' = InOp
    BY <1>13 DEF vars, InOp
  <2>2. Todo' = Todo
    BY <2>1 DEF Todo
  <2> QED
    BY <2>1, <2>2 DEF RoomInv, Fits
<1> QED
  BY <1>1, <1>2, <1>3, <1>4, <1>5, <1>6, <1>7, <1>8, <1>9, <1>10, <1>11, <1>12,
     <1>13
  DEF Next, CallerStep, CommitStep

(* What begin_op reserves is enough, for any number of callers: log_write  *)
(* never panics, write_log stays inside the log area, and no call ends     *)
(* during a commit, provided the header has room (HeaderRoom).             *)
THEOREM ReservationCorrect ==
    ASSUME HeaderRoom
    PROVE  Spec => []ReservationSuffices
<1>1. Init => RoomInv
  <2> SUFFICES ASSUME Init PROVE RoomInv
    OBVIOUS
  <2>1. Todo = {}
    BY DEF Init, Todo, InOp
  <2>2. Fits
    BY <2>1, FS_EmptySet, LogSizeAssumption DEF Init, Fits, LogSizeAssumption
  <2> QED
    BY <2>2 DEF Init, RoomInv
<1>2. LogInv /\ LogInv' /\ RoomInv /\ [Next]_vars => RoomInv'
  BY RoomKept
<1>3. RoomInv => ReservationSuffices
  BY DEF RoomInv, ReservationSuffices
<1> QED
  BY <1>1, <1>2, <1>3, LogCorrect, PTL DEF Spec
=============================================================================
