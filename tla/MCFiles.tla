------------------------------ MODULE MCFiles ------------------------------
(***************************************************************************)
(* The parts of the file system, each in small instances: inodes and names *)
(* (Inode, three sets of calls), block maps (Bmap), the image mkfs makes   *)
(* (Mkfs), the buffer cache and disk driver (Bio, with and without read    *)
(* errors) and pipes (Pipe).  A behaviour is one of component comp: the    *)
(* variables x1, x2, ... stand for those of the component, in the order it *)
(* declares them, and the rest stay 0.                                     *)
(***************************************************************************)
EXTENDS Integers, Sequences, TLC

CONSTANTS p1, p2        \* two processes

VARIABLES comp, x1, x2, x3, x4, x5, x6, x7, x8, x9, x10, x11

From10 == <<x10, x11>>
From9 == <<x9, From10>>
From8 == <<x8, From9>>
From5 == <<x5, x6, x7, From8>>
Zero10 == x10 = 0 /\ x11 = 0
Zero9 == x9 = 0 /\ Zero10
Zero8 == x8 = 0 /\ Zero9
Zero5 == x5 = 0 /\ x6 = 0 /\ x7 = 0 /\ Zero8
vars == <<comp, x1, x2, x3, x4, From5>>

Interchangeable == Permutations({p1, p2})

Call(op, path, new) == [op |-> op, path |-> path, new |-> new]

FileCalls ==
    {Call("creat", <<"/", "a">>, <<>>), Call("unlink", <<"/", "a">>, <<>>),
     Call("link", <<"/", "a">>, <<"/", "b">>), Call("unlink", <<"/", "b">>, <<>>)}
DirCalls ==
    {Call("mkdir", <<"d">>, <<>>), Call("unlink", <<"/", "d">>, <<>>),
     Call("mknod", <<"/", "d", "a">>, <<>>), Call("unlink", <<"/", "d", "a">>, <<>>),
     Call("chdir", <<"/", "d">>, <<>>)}
LinkCalls ==
    {Call("creat", <<"/", "a">>, <<>>), Call("unlink", <<"/", "s">>, <<>>),
     Call("symlink", <<"/", "a">>, <<"/", "s">>), Call("symlink", <<"/", "z">>, <<"/", "s">>),
     Call("symlink", <<"/", "s">>, <<"/", "a">>), Call("chdir", <<"/", "s">>, <<>>),
     Call("open", <<"/", "s">>, <<>>), Call("open", <<"/", "a">>, <<>>),
     Call("unlink", <<"/", "a">>, <<>>), Call("open", <<"/">>, <<"rw">>),
     Call("link", <<"/">>, <<"/", "z">>)}

F == INSTANCE Inode WITH Procs <- {p1, p2}, NInum <- 3, NINODE <- 3, NOFILE <- 1,
       Names <- {"a", "b"}, SYMDEPTH <- 1, MaxRef <- 5, CallArgs <- FileCalls,
       dino <- x1, dents <- x2, target <- x3, icache <- x4, locked <- x5,
       ofile <- x6, cwd <- x7, pr <- x8, panic <- x9
D == INSTANCE Inode WITH Procs <- {p1, p2}, NInum <- 3, NINODE <- 3, NOFILE <- 1,
       Names <- {"a", "d"}, SYMDEPTH <- 1, MaxRef <- 5, CallArgs <- DirCalls,
       dino <- x1, dents <- x2, target <- x3, icache <- x4, locked <- x5,
       ofile <- x6, cwd <- x7, pr <- x8, panic <- x9
S == INSTANCE Inode WITH Procs <- {p1}, NInum <- 4, NINODE <- 4, NOFILE <- 1,
       Names <- {"a", "z", "s"}, SYMDEPTH <- 1, MaxRef <- 3, CallArgs <- LinkCalls,
       dino <- x1, dents <- x2, target <- x3, icache <- x4, locked <- x5,
       ofile <- x6, cwd <- x7, pr <- x8, panic <- x9

B == INSTANCE Bmap WITH Files <- {1, 2}, NDIRECT <- 1, NINDIRECT <- 2, Reserved <- 1,
       FSSIZE <- 24, WriteSizes <- {5}, Backwards <- {0, 5},
       used <- x1, data <- x2, inode <- x3, halt <- x4

M == INSTANCE Mkfs WITH NDIRECT <- 2, NINDIRECT <- 2, NMETA <- 2, FSSIZE <- 20,
       NINODES <- 3, Trees <- UNION {[1..k -> 0..9] : k \in 0..2},
       todo <- x1, din <- x2, freeinode <- x3, freeblock <- x4, sect <- x5,
       bits <- x6, stop <- x7

C == INSTANCE Bio WITH Procs <- {p1, p2}, NBUF <- 2, Blocks <- {1, 2, 3},
       Values <- {1, 2}, Errors <- FALSE,
       buf <- x1, lru <- x2, lock <- x3, idequeue <- x4, busy <- x5, intr <- x6,
       disk <- x7, pc <- x8, b <- x9, bad <- x10, stopped <- x11
E == INSTANCE Bio WITH Procs <- {p1, p2}, NBUF <- 1, Blocks <- {1, 2},
       Values <- {1}, Errors <- TRUE,
       buf <- x1, lru <- x2, lock <- x3, idequeue <- x4, busy <- x5, intr <- x6,
       disk <- x7, pc <- x8, b <- x9, bad <- x10, stopped <- x11

P == INSTANCE Pipe WITH Procs <- {1, 2}, NFILE <- 3, NOFILE <- 2, Pipes <- {1},
       PIPESIZE <- 2, W <- 4, Sizes <- {1, 3},
       file <- x1, pipe <- x2, ofile <- x3, run <- x4, left <- x5, on <- x6,
       chan <- x7, killed <- x8

Init ==
    \/ comp = "files" /\ F!Init /\ Zero10
    \/ comp = "dirs" /\ D!Init /\ Zero10
    \/ comp = "links" /\ S!Init /\ Zero10
    \/ comp = "blocks" /\ B!Init /\ Zero5
    \/ comp = "mkfs" /\ M!Init /\ Zero8
    \/ comp = "cache" /\ C!Init
    \/ comp = "errors" /\ E!Init
    \/ comp = "pipes" /\ P!Init /\ Zero9

FileStep == comp = "files" /\ F!Next /\ UNCHANGED <<comp, From10>>
DirStep == comp = "dirs" /\ D!Next /\ UNCHANGED <<comp, From10>>
LinkStep == comp = "links" /\ S!Next /\ UNCHANGED <<comp, From10>>
BlockStep == comp = "blocks" /\ B!Next /\ UNCHANGED <<comp, From5>>
MkfsStep == comp = "mkfs" /\ M!Next /\ UNCHANGED <<comp, From8>>
CacheStep == comp = "cache" /\ C!Next /\ UNCHANGED comp
ErrorStep == comp = "errors" /\ E!Next /\ UNCHANGED comp
PipeStep == comp = "pipes" /\ P!Next /\ UNCHANGED <<comp, From9>>

Next ==
    \/ FileStep \/ DirStep \/ LinkStep \/ BlockStep \/ MkfsStep \/ CacheStep \/ ErrorStep
    \/ PipeStep

Spec == Init /\ [][Next]_vars

----------------------------------------------------------------------------
(* Reference counts are exact on every path through the calls: ip->ref of  *)
(* inodes (Inode), b->refcnt of buffers (Bio), f->ref and the open ends of *)
(* pipes (Pipe).                                                           *)
RefsCount ==
    /\ comp = "files" => F!RefsCount
    /\ comp = "dirs" => D!RefsCount
    /\ comp = "links" => S!RefsCount
    /\ comp = "cache" => C!OneBufferPerBlock
    /\ comp = "errors" => E!OneBufferPerBlock
    /\ comp = "pipes" => P!PipeEndsExact

(* Names, open files and current directories lead to inodes that exist and *)
(* are cached once, and nlink is never below the number of names (Inode).  *)
NamesAlive ==
    /\ comp = "files" => F!NamesAlive /\ F!OneEntry
    /\ comp = "dirs" => D!NamesAlive /\ D!OneEntry
    /\ comp = "links" => S!NamesAlive /\ S!OneEntry

(* The bitmap is exactly what the inodes reach through single, double and  *)
(* triple indirection (Bmap), and so is the one mkfs writes (Mkfs).        *)
BlocksExact ==
    /\ comp = "blocks" => B!BlocksExact
    /\ comp = "mkfs" => M!ImageExact

(* What is read is what was written: from files, whatever other files do   *)
(* (Bmap), and from pipes, in order (Pipe).                                *)
ReadsBack ==
    /\ comp = "blocks" => B!ReadsBack
    /\ comp = "pipes" => P!PipeFifo

(* Nobody sleeps through what it waits for: data or room in a pipe (Pipe), *)
(* the disk or the lock of a buffer (Bio).                                 *)
WaitersWoken ==
    /\ comp = "cache" => C!DiskKeepsWorking
    /\ comp = "errors" => E!DiskKeepsWorking
    /\ comp = "pipes" => P!PipeNoLostWakeup

(* Caching never changes what a block holds (Bio).                         *)
CacheTransparent ==
    [][/\ comp = "cache" => C!OnlyHoldersChange
       /\ comp = "errors" => E!OnlyHoldersChange]_vars

----------------------------------------------------------------------------
(* What the repository says of the program and the code does not do.       *)

(* Processes that hold one inode and wait for another never wait for each  *)
(* other (Inode).                                                          *)
NoLockCycle == comp = "files" => F!NoLockCycle

(* Truncation frees exactly the blocks of the file (Bmap).                 *)
TripleFreed == comp = "blocks" => B!TripleFreed
=============================================================================
