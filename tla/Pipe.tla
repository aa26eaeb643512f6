-------------------------------- MODULE Pipe --------------------------------
(***************************************************************************)
(* Pipes, the file table and file descriptors of src/project1_scheduler    *)
(* (pipe.c, file.c, the descriptor calls of sysfile.c).  A call holds      *)
(* p->lock or ftable.lock from one point where it may wait to the next:    *)
(* each such stretch is one action.  Only kill takes neither: it may come  *)
(* between the test for it and the sleep that the test allows.             *)
(***************************************************************************)
EXTENDS Integers, FiniteSets, Functions, FiniteSetsExt

CONSTANTS
    Procs, NFILE, NOFILE,
    Pipes,      \* pages that kalloc can give to pipes
    PIPESIZE,
    W,          \* 2^32: nread and nwrite are unsigned ints
    Sizes       \* the n of reads and writes

Fd == 1..NOFILE
File == 1..NFILE
None == 0

VARIABLES
    file,       \* ftable.file: ref, pipe and whether it is the write end
    pipe,       \* struct pipe; owed records bytes put in without a wakeup
    ofile,      \* struct proc.ofile
    run,        \* what a process is doing: user, write, read, close or gone;
                \* wsleep, rsleep: calling sleep() with p->lock still held
    left,       \* bytes to go of its read or write, the file of its close
    on,         \* the pipe of its call
    chan,       \* "run", or what it sleeps on: "nread", "nwrite" of on[p]
    killed

pvars == <<file, pipe, ofile, run, left, on, chan, killed>>

Closed == [ref |-> 0, pipe |-> None, writable |-> FALSE]
FreePage == [data |-> [k \in 0..(PIPESIZE - 1) |-> 0], nread |-> 0, nwrite |-> 0,
             readopen |-> FALSE, writeopen |-> FALSE, owed |-> FALSE]
NewPipe == [FreePage EXCEPT !.readopen = TRUE, !.writeopen = TRUE]

Init ==
    /\ file = [f \in File |-> Closed] /\ pipe = [x \in Pipes |-> FreePage]
    /\ ofile = [p \in Procs |-> [d \in Fd |-> None]]
    /\ run = [p \in Procs |-> IF p = Min(Procs) THEN "user" ELSE "unused"]
    /\ left = [p \in Procs |-> 0] /\ on = [p \in Procs |-> None]
    /\ chan = [p \in Procs |-> "run"]
    /\ killed = [p \in Procs |-> FALSE]

Open(x) == pipe[x].readopen \/ pipe[x].writeopen
Runs(p, what) == run[p] = what /\ chan[p] = "run"
FreeFds(p) == {d \in Fd : ofile[p][d] = None}
FreeFiles == {f \in File : file[f].ref = 0}

(* Somebody has p->lock from its last test to the end of sleep()'s first   *)
(* half, where ptable.lock takes over.                                     *)
Locked(x) == \E q \in Procs : run[q] \in {"wsleep", "rsleep"} /\ on[q] = x

(* wakeup: everyone who sleeps on this field of the pipe.                  *)
Woken(x, field) == [q \in Procs |-> IF on[q] = x /\ chan[q] = field THEN "run" ELSE chan[q]]

----------------------------------------------------------------------------
(* sys_pipe: two files, a page, two descriptors, or nothing at all.        *)

sys_pipe(p) ==
    /\ Runs(p, "user")
    /\ IF /\ Cardinality(FreeFiles) >= 2 /\ Cardinality(FreeFds(p)) >= 2
          /\ \E x \in Pipes : ~Open(x)
       THEN LET r == Min(FreeFiles)  w == Min(FreeFiles \ {r})
                d == Min(FreeFds(p))  x == Min({y \in Pipes : ~Open(y)})
            IN
            /\ file' = [file EXCEPT ![r] = [ref |-> 1, pipe |-> x, writable |-> FALSE],
                                    ![w] = [ref |-> 1, pipe |-> x, writable |-> TRUE]]
            /\ pipe' = [pipe EXCEPT ![x] = NewPipe]
            /\ ofile' = [ofile EXCEPT ![p] = [@ EXCEPT ![d] = r,
                                                ![Min(FreeFds(p) \ {d})] = w]]
       ELSE UNCHANGED <<file, pipe, ofile>>
    /\ UNCHANGED <<run, left, on, chan, killed>>

sys_dup(p) ==
    \E d \in Fd :
      /\ Runs(p, "user") /\ ofile[p][d] # None /\ FreeFds(p) # {}
      /\ ofile' = [ofile EXCEPT ![p][Min(FreeFds(p))] = ofile[p][d]]
      /\ file' = [file EXCEPT ![ofile[p][d]].ref = @ + 1]
      /\ UNCHANGED <<pipe, run, left, on, chan, killed>>

(* fork duplicates every open file of the parent.                          *)
ForkRefs(p) == [f \in File |-> [file[f] EXCEPT !.ref =
                                  @ + Cardinality({d \in Fd : ofile[p][d] = f})]]

fork(p) ==
    \E q \in Procs :
      /\ Runs(p, "user") /\ run[q] = "unused"
      /\ file' = ForkRefs(p)
      /\ ofile' = [ofile EXCEPT ![q] = ofile[p]]
      /\ run' = [run EXCEPT ![q] = "user"]
      /\ UNCHANGED <<pipe, left, on, chan, killed>>

----------------------------------------------------------------------------
(* fileclose drops the reference under ftable.lock; the last one goes on   *)
(* to pipeclose with a copy of the file.                                   *)

Drop(p, d) ==
    LET f == ofile[p][d] IN
    /\ ofile' = [ofile EXCEPT ![p][d] = None]
    /\ IF file[f].ref > 1
       THEN file' = [file EXCEPT ![f].ref = @ - 1] /\ UNCHANGED <<left, on>>
       ELSE /\ file' = [file EXCEPT ![f] = Closed]
            /\ on' = [on EXCEPT ![p] = file[f].pipe]
            /\ left' = [left EXCEPT ![p] = IF file[f].writable THEN 1 ELSE 0]

sys_close(p) ==
    \E d \in Fd :
      /\ Runs(p, "user") /\ ofile[p][d] # None
      /\ Drop(p, d)
      /\ run' = IF file[ofile[p][d]].ref > 1 THEN run ELSE [run EXCEPT ![p] = "close"]
      /\ UNCHANGED <<pipe, chan, killed>>

(* exit closes the descriptors one after the other, killed or not.         *)
ExitCloses(p) ==
    LET d == Min(Fd \ FreeFds(p)) IN
    /\ Runs(p, "exit") /\ on[p] = None /\ FreeFds(p) # Fd
    /\ Drop(p, d)
    /\ UNCHANGED <<pipe, run, chan, killed>>

WokenByClose_Nobody(x, writable) == chan

WokenByClose(x, writable) == Woken(x, IF writable THEN "nread" ELSE "nwrite")

pipeclose(p) ==
    LET x == on[p]  writable == left[p] = 1
        after == IF writable THEN [pipe[x] EXCEPT !.writeopen = FALSE]
                 ELSE [pipe[x] EXCEPT !.readopen = FALSE]
    IN
    /\ run[p] \in {"close", "exit"} /\ x # None /\ ~Locked(x)
    /\ pipe' = [pipe EXCEPT ![x] = IF after.readopen \/ after.writeopen THEN after
                                   ELSE FreePage]
    /\ chan' = WokenByClose(x, writable)
    /\ run' = [run EXCEPT ![p] = IF @ = "close" THEN "user" ELSE @]
    /\ on' = [on EXCEPT ![p] = None] /\ left' = [left EXCEPT ![p] = 0]
    /\ UNCHANGED <<file, ofile, killed>>

exit(p) ==
    /\ Runs(p, "user")
    /\ run' = [run EXCEPT ![p] = "exit"]
    /\ UNCHANGED <<file, pipe, ofile, left, on, chan, killed>>

(* The slot is free again once everything is closed (wait is module Smp).  *)
Gone(p) ==
    /\ Runs(p, "exit") /\ on[p] = None /\ FreeFds(p) = Fd
    /\ run' = [run EXCEPT ![p] = "unused"] /\ killed' = [killed EXCEPT ![p] = FALSE]
    /\ UNCHANGED <<file, pipe, ofile, left, on, chan>>

----------------------------------------------------------------------------
(* Reading and writing.  The counters wrap at W.                           *)

Count(x) == (pipe[x].nwrite - pipe[x].nread) % W
Full(x) == pipe[x].nwrite = (pipe[x].nread + PIPESIZE) % W
Space(x) == PIPESIZE - Count(x)

sys_write(p) ==
    \E d \in Fd, n \in Sizes :
      LET f == ofile[p][d] IN
      /\ Runs(p, "user") /\ f # None /\ file[f].writable
      /\ run' = [run EXCEPT ![p] = "write"]
      /\ on' = [on EXCEPT ![p] = file[f].pipe] /\ left' = [left EXCEPT ![p] = n]
      /\ UNCHANGED <<file, pipe, ofile, chan, killed>>

sys_read(p) ==
    \E d \in Fd, n \in Sizes :
      LET f == ofile[p][d] IN
      /\ Runs(p, "user") /\ f # None /\ ~file[f].writable
      /\ run' = [run EXCEPT ![p] = "read"]
      /\ on' = [on EXCEPT ![p] = file[f].pipe] /\ left' = [left EXCEPT ![p] = n]
      /\ UNCHANGED <<file, pipe, ofile, chan, killed>>

(* k bytes go in; a byte is the count of bytes before it, so that a reader *)
(* could tell their order.                                                 *)
Put(x, k) ==
    LET s == pipe[x] IN
    [s EXCEPT !.nwrite = (@ + k) % W,
              !.data = [i \in 0..(PIPESIZE - 1) |->
                 IF \E j \in 0..(k - 1) : i = ((s.nwrite + j) % W) % PIPESIZE
                 THEN (s.nwrite + CHOOSE j \in 0..(k - 1) :
                                    i = ((s.nwrite + j) % W) % PIPESIZE) % W
                 ELSE s.data[i]]]

Return(p) ==
    /\ run' = [run EXCEPT ![p] = "user"]
    /\ on' = [on EXCEPT ![p] = None] /\ left' = [left EXCEPT ![p] = 0]

(* Until everything is written, or the pipe is full: then readers are      *)
(* woken and the writer goes to sleep, unless nobody can read or it was    *)
(* killed.                                                                 *)
pipewrite(p) ==
    LET x == on[p]  k == Min({left[p], Space(x)}) IN
    /\ Runs(p, "write") /\ ~Locked(x)
    /\ pipe' = [pipe EXCEPT ![x] = [Put(x, k) EXCEPT !.owed =
                                     left[p] > k /\ (~pipe[x].readopen \/ killed[p])]]
    /\ \/ left[p] = k /\ Return(p) /\ chan' = Woken(x, "nread")
       \/ /\ left[p] > k /\ (~pipe[x].readopen \/ killed[p])
          /\ Return(p) /\ UNCHANGED chan
       \/ /\ left[p] > k /\ pipe[x].readopen /\ ~killed[p]
          /\ left' = [left EXCEPT ![p] = @ - k]
          /\ chan' = Woken(x, "nread")
          /\ run' = [run EXCEPT ![p] = "wsleep"] /\ UNCHANGED on
    /\ UNCHANGED <<file, ofile, killed>>

WokenByRead(x) == Woken(x, "nwrite")

piperead(p) ==
    LET x == on[p]  k == Min({left[p], Count(x)})
        empty == pipe[x].nread = pipe[x].nwrite
    IN
    /\ Runs(p, "read") /\ ~Locked(x)
    /\ \/ /\ empty /\ pipe[x].writeopen /\ killed[p]
          /\ Return(p) /\ UNCHANGED <<pipe, chan>>
       \/ /\ empty /\ pipe[x].writeopen /\ ~killed[p]
          /\ run' = [run EXCEPT ![p] = "rsleep"] /\ UNCHANGED <<pipe, chan, on, left>>
       \/ /\ ~empty \/ ~pipe[x].writeopen
          /\ pipe' = [pipe EXCEPT ![x].nread = (@ + k) % W]
          /\ Return(p) /\ chan' = WokenByRead(x)
    /\ UNCHANGED <<file, ofile, killed>>

(* sleep takes ptable.lock, gives p->lock back and goes to sleep, killed   *)
(* or not; woken, it goes back to its loop.                                *)
sleep(p) ==
    /\ run[p] \in {"wsleep", "rsleep"}
    /\ run' = [run EXCEPT ![p] = IF @ = "wsleep" THEN "write" ELSE "read"]
    /\ chan' = [chan EXCEPT ![p] = IF run[p] = "wsleep" THEN "nwrite" ELSE "nread"]
    /\ UNCHANGED <<file, pipe, ofile, left, on, killed>>

(* kill wakes its victim if it sleeps by now.                              *)
kill(p) ==
    /\ run[p] \notin {"unused", "exit"}
    /\ killed' = [killed EXCEPT ![p] = TRUE]
    /\ chan' = [chan EXCEPT ![p] = "run"]
    /\ UNCHANGED <<file, pipe, ofile, run, left, on>>

(* A killed process goes nowhere but to exit once it is back in user mode. *)
Call(p) == ~killed[p] /\ (\/ sys_pipe(p) \/ sys_dup(p) \/ fork(p) \/ sys_close(p)
                          \/ sys_write(p) \/ sys_read(p))
Step(p) == exit(p) \/ ExitCloses(p) \/ pipeclose(p) \/ Gone(p) \/ pipewrite(p) \/ piperead(p)
           \/ sleep(p)

Next == \E p \in Procs : Call(p) \/ Step(p) \/ kill(p)
Spec == Init /\ [][Next]_pvars

----------------------------------------------------------------------------
(* Properties.                                                             *)

TypeOK ==
    /\ file \in [File -> [ref : Nat, pipe : Pipes \cup {None}, writable : BOOLEAN]]
    /\ pipe \in [Pipes -> [data : [0..(PIPESIZE - 1) -> 0..(W - 1)], nread : 0..(W - 1),
                           nwrite : 0..(W - 1), readopen : BOOLEAN, writeopen : BOOLEAN, owed : BOOLEAN]]
    /\ ofile \in [Procs -> [Fd -> File \cup {None}]]
    /\ run \in [Procs -> {"unused", "user", "read", "rsleep", "write", "wsleep",
                           "close", "exit"}]
    /\ chan \in [Procs -> {"run", "nread", "nwrite"}]
    /\ left \in [Procs -> Nat] /\ on \in [Procs -> Pipes \cup {None}]

Descriptors(f) == {t \in Procs \X Fd : ofile[t[1]][t[2]] = f}
Closing(x, w) == {p \in Procs : run[p] \in {"close", "exit"} /\ on[p] = x /\ left[p] = w}

(* A file has exactly as many references as descriptors, a pipe's end is   *)
(* open exactly while a file for it exists or its last close is on the     *)
(* way, and a process inside a call works on a pipe that is open: the page *)
(* is not given back under it, nor kept when both ends are gone.           *)
PipeEndsExact ==
    /\ \A f \in File : file[f].ref = Cardinality(Descriptors(f))
    /\ \A x \in Pipes :
         /\ pipe[x].readopen <=> (\E f \in File : file[f].ref > 0 /\ file[f].pipe = x
                                                  /\ ~file[f].writable) \/ Closing(x, 0) # {}
         /\ pipe[x].writeopen <=> (\E f \in File : file[f].ref > 0 /\ file[f].pipe = x
                                                   /\ file[f].writable) \/ Closing(x, 1) # {}
    /\ \A p \in Procs : on[p] # None => Open(on[p])

(* The bytes between nread and nwrite are the last ones written, in order, *)
(* also when a write was cut in pieces by a full pipe and when the         *)
(* counters wrap.                                                          *)
PipeFifo ==
    \A x \in Pipes :
      /\ Count(x) <= PIPESIZE
      /\ \A i \in 0..(Count(x) - 1) :
           LET n == (pipe[x].nread + i) % W IN pipe[x].data[n % PIPESIZE] = n

(* Nobody sleeps through what it waits for: a reader only while the pipe   *)
(* is empty and may still be written, a writer only while it is full and   *)
(* may still be read.  The exception is a reader whose bytes came from a   *)
(* killed writer: one that finds the pipe full returns without the wakeup  *)
(* they are due.                                                           *)
PipeNoLostWakeup ==
    \A p \in Procs :
      /\ chan[p] = "nread" => /\ Count(on[p]) = 0 \/ pipe[on[p]].owed
                              /\ pipe[on[p]].writeopen
      /\ chan[p] = "nwrite" => Full(on[p]) /\ pipe[on[p]].readopen

----------------------------------------------------------------------------
(* What the repository says of the program and the code does not do (the   *)
(* README lists where).  No passing run checks this.                       *)

(* Nobody sleeps in a pipe once it was killed.                             *)
KilledWakes == \A p \in Procs : killed[p] => chan[p] = "run"
=============================================================================
