----------------------------- MODULE PipeProofs -----------------------------
(***************************************************************************)
(* Theorems about pipes and the file table, for every number of processes, *)
(* descriptors, files and pipes and every size of the ring: references and *)
(* open ends are exact, nobody sleeps through what it waits for, and bytes *)
(* come out in the order in which they went in.                            *)
(***************************************************************************)
EXTENDS Pipe, FiniteSetTheorems, WellFoundedInduction, TLAPS

(* The sizes of the code, as far as the proofs need them (param.h, pipe.c: *)
(* PIPESIZE is 512 and the counters are unsigned ints).                    *)
PipeConstants ==
    /\ Procs \subseteq Nat /\ IsFiniteSet(Procs) /\ Procs # {}
    /\ NFILE \in Nat /\ NOFILE \in Nat
    /\ Pipes \subseteq Nat \ {0}
    /\ PIPESIZE \in Nat \ {0} /\ W \in Nat /\ PIPESIZE < W
    /\ Sizes \subseteq Nat

(* The ends of a pipe: 1 to write to, 0 to read from.                      *)
Side == {0, 1}

SideOf(f) == IF file[f].writable THEN 1 ELSE 0

(* File f is end s of pipe x.                                              *)
IsEnd(f, x, s) == file[f].ref > 0 /\ file[f].pipe = x /\ SideOf(f) = s

(* Process p has taken the last reference of an end and is on its way to   *)
(* pipeclose.                                                              *)
Closes(p, x, s) == run[p] \in {"close", "exit"} /\ on[p] = x /\ left[p] = s

OpenEnd(x, s) == IF s = 1 THEN pipe[x].writeopen ELSE pipe[x].readopen

(* Some descriptor of p stands for end s of pipe x.                        *)
Holds(p, x, s) == \E d \in Fd : ofile[p][d] # None /\ IsEnd(ofile[p][d], x, s)

KilledFlags == killed \in [Procs -> BOOLEAN]

RunStates == {"unused", "user", "read", "rsleep", "write", "wsleep", "close", "exit"}

USE DEF RunStates

(* What a process is doing fits what it holds: a call works on a pipe its  *)
(* own descriptor keeps open, and only readers and writers sleep.          *)
CallsPlaced ==
    \A p \in Procs :
        /\ run[p] \in {"user", "unused"} => on[p] = None
        /\ run[p] = "unused" => \A d \in Fd : ofile[p][d] = None
        /\ run[p] \in {"read", "rsleep"} => on[p] \in Pipes /\ Holds(p, on[p], 0)
        /\ run[p] \in {"write", "wsleep"} => on[p] \in Pipes /\ Holds(p, on[p], 1)
        /\ run[p] = "close" => on[p] \in Pipes
        /\ run[p] \in {"close", "exit"} /\ on[p] # None => left[p] \in Side
        /\ chan[p] = "nread" => run[p] = "read"
        /\ chan[p] = "nwrite" => run[p] = "write"

(* Each end of a pipe has one file, or one process about to close it.      *)
EndsUnique ==
    /\ \A f \in File : file[f].ref > 0 => file[f].pipe \in Pipes
    /\ \A f, g \in File, x \in Pipes, s \in Side :
         IsEnd(f, x, s) /\ IsEnd(g, x, s) => f = g
    /\ \A p, q \in Procs, x \in Pipes, s \in Side :
         Closes(p, x, s) /\ Closes(q, x, s) => p = q
    /\ \A f \in File, p \in Procs, x \in Pipes, s \in Side :
         ~(IsEnd(f, x, s) /\ Closes(p, x, s))

(* The counts of the file table.                                           *)
RefsExact == \A f \in File : file[f].ref = Cardinality(Descriptors(f))

(* An end is open while it has a file or a process about to close it.      *)
EndsOpen ==
    \A x \in Pipes, s \in Side :
        OpenEnd(x, s) <=> \/ \E f \in File : IsEnd(f, x, s)
                          \/ \E p \in Procs : Closes(p, x, s)

RingBound == \A x \in Pipes : Count(x) <= PIPESIZE

(* Who is about to sleep holds the pipe's lock, so what it found when it   *)
(* tested is still so.                                                     *)
AboutToSleep ==
    \A p \in Procs :
        /\ run[p] = "rsleep" => Count(on[p]) = 0 /\ pipe[on[p]].writeopen
        /\ run[p] = "wsleep" => Full(on[p]) /\ pipe[on[p]].readopen

PipeInv ==
    /\ TypeOK /\ KilledFlags /\ CallsPlaced /\ EndsUnique /\ RefsExact /\ EndsOpen
    /\ RingBound /\ PipeNoLostWakeup /\ AboutToSleep

(* The counters can wrap anywhere in the ring: PIPESIZE divides 2^32.      *)
RingAligned == \E m \in Nat : W = m * PIPESIZE

----------------------------------------------------------------------------
(* Constants, the lowest free slot, and the arithmetic of the counters.    *)

(* None is neither a file nor a pipe.                                      *)
LEMMA Sizes0 ==
    ASSUME PipeConstants
    PROVE  /\ None \notin Pipes /\ None \notin File
           /\ Pipes \subseteq Nat /\ File \subseteq Nat /\ Fd \subseteq Nat
           /\ W \in Nat \ {0} /\ PIPESIZE \in Nat
BY DEF PipeConstants, None, File, Fd

(* A nonempty set of numbers has a least element.                          *)
LEMMA MinFound ==
    ASSUME NEW S, S \subseteq Nat, S # {}
    PROVE  Min(S) \in S /\ \A y \in S : Min(S) <= y
<1>1. PICK x \in S : \A y \in S : ~(<<y, x>> \in OpToRel(<, Nat))
  BY NatLessThanWellFounded, WFMin
<1>2. \A y \in S : ~(y < x)
  BY <1>1 DEF OpToRel
<1>3. \A y \in S : x <= y
  BY <1>2
<1> QED
  BY <1>3 DEF Min

(* The lesser of two numbers.                                              *)
LEMMA MinPair ==
    ASSUME NEW a \in Nat, NEW b \in Nat
    PROVE  Min({a, b}) = IF a <= b THEN a ELSE b
<1>1. Min({a, b}) \in {a, b} /\ \A y \in {a, b} : Min({a, b}) <= y
  BY MinFound
<1> QED
  BY <1>1

(* A set of two or more elements loses one and is not empty.               *)
LEMMA TwoFound ==
    ASSUME NEW S, IsFiniteSet(S), Cardinality(S) >= 2, NEW x
    PROVE  S # {} /\ S \ {x} # {}
<1>1. Cardinality(S) \in Nat
  BY FS_CardinalityType
<1>2. IsFiniteSet(S \ {x}) /\ Cardinality(S \ {x}) >= 1
  BY <1>1, FS_RemoveElement
<1> QED
  BY <1>1, <1>2, FS_EmptySet

(* The bytes in the ring, from its counters.                               *)
LEMMA RingCount ==
    ASSUME NEW w \in Nat, NEW size \in Nat, size < w,
           NEW a \in 0..(w - 1), NEW b \in 0..(w - 1), (a - b) % w <= size
    PROVE  /\ (a - b) % w = IF a >= b THEN a - b ELSE a - b + w
           /\ (a - b) % w \in 0..size
           /\ a = (b + size) % w <=> (a - b) % w = size
           /\ a = b <=> (a - b) % w = 0
<1>1. (a - b) % w = IF a >= b THEN a - b ELSE a - b + w
  OBVIOUS
<1>2. (b + size) % w = IF b + size < w THEN b + size ELSE b + size - w
  OBVIOUS
<1>3. (a - b) % w \in 0..size
  BY <1>1
<1>4. a = (b + size) % w <=> (a - b) % w = size
  BY <1>1, <1>2
<1>5. a = b <=> (a - b) % w = 0
  BY <1>1
<1> QED
  BY <1>1, <1>3, <1>4, <1>5

(* Their number after k more were put in.                                  *)
LEMMA RingPut ==
    ASSUME NEW w \in Nat, NEW size \in Nat, size < w,
           NEW a \in 0..(w - 1), NEW b \in 0..(w - 1), NEW k \in Nat,
           ((a - b) % w) + k <= size
    PROVE  /\ (a + k) % w \in 0..(w - 1)
           /\ (((a + k) % w) - b) % w = ((a - b) % w) + k
<1>1. (a - b) % w = IF a >= b THEN a - b ELSE a - b + w
  OBVIOUS
<1>2. k < w /\ ((a - b) % w) + k < w
  BY <1>1
<1>3. (a + k) % w = IF a + k < w THEN a + k ELSE a + k - w
  BY <1>2
<1>4. PICK c \in 0..(w - 1) : c = (a + k) % w
  BY <1>2, <1>3
<1>5. (c - b) % w = IF c >= b THEN c - b ELSE c - b + w
  OBVIOUS
<1> QED
  BY <1>1, <1>2, <1>3, <1>4, <1>5

(* Their number after k of them were taken.                                *)
LEMMA RingGet ==
    ASSUME NEW w \in Nat, NEW size \in Nat, size < w,
           NEW a \in 0..(w - 1), NEW b \in 0..(w - 1), (a - b) % w <= size,
           NEW k \in Nat, k <= (a - b) % w
    PROVE  /\ (b + k) % w \in 0..(w - 1)
           /\ (a - ((b + k) % w)) % w = ((a - b) % w) - k
<1>1. (a - b) % w = IF a >= b THEN a - b ELSE a - b + w
  OBVIOUS
<1>2. k < w
  BY <1>1
<1>3. (b + k) % w = IF b + k < w THEN b + k ELSE b + k - w
  BY <1>2
<1>4. PICK c \in 0..(w - 1) : c = (b + k) % w
  BY <1>2, <1>3
<1>5. (a - c) % w = IF a >= c THEN a - c ELSE a - c + w
  OBVIOUS
<1> QED
  BY <1>1, <1>2, <1>3, <1>4, <1>5

----------------------------------------------------------------------------
(* Descriptors and references.                                             *)

(* Sets of descriptors are finite.                                         *)
LEMMA DescriptorsFinite ==
    ASSUME PipeConstants, NEW f
    PROVE  /\ IsFiniteSet(Descriptors(f)) /\ Cardinality(Descriptors(f)) \in Nat
           /\ Descriptors(f) = {} <=> Cardinality(Descriptors(f)) = 0
<1>1. IsFiniteSet(Procs) /\ IsFiniteSet(Fd)
  BY FS_Interval DEF PipeConstants, Fd
<1>2. IsFiniteSet(Procs \X Fd)
  BY <1>1, FS_Product
<1>3. Descriptors(f) \in SUBSET (Procs \X Fd)
  BY DEF Descriptors
<1>4. IsFiniteSet(Descriptors(f))
  BY <1>2, <1>3, FS_Subset
<1> QED
  BY <1>4, FS_CardinalityType, FS_EmptySet

(* A file with a descriptor has a reference and stands for a pipe's end;   *)
(* with a single reference it has no other descriptor.                     *)
LEMMA HeldRef ==
    ASSUME PipeConstants, PipeInv, NEW p \in Procs, NEW d \in Fd, ofile[p][d] # None
    PROVE  /\ ofile[p][d] \in File /\ file[ofile[p][d]].ref \in Nat \ {0}
           /\ file[ofile[p][d]].pipe \in Pipes
           /\ file[ofile[p][d]].ref = 1 =>
                \A q \in Procs, e \in Fd : ofile[q][e] = ofile[p][d] => q = p /\ e = d
<1> DEFINE f == ofile[p][d]
<1>1. f \in File
  BY DEF PipeInv, TypeOK
<1>2. <<p, d>> \in Descriptors(f)
  BY DEF Descriptors
<1>3. /\ IsFiniteSet(Descriptors(f)) /\ Cardinality(Descriptors(f)) \in Nat \ {0}
  BY <1>2, DescriptorsFinite
<1>4. file[f].ref = Cardinality(Descriptors(f))
  BY <1>1 DEF PipeInv, RefsExact
<1>5. file[f].pipe \in Pipes
  BY <1>1, <1>3, <1>4 DEF PipeInv, EndsUnique
<1>6. ASSUME file[f].ref = 1, NEW q \in Procs, NEW e \in Fd, ofile[q][e] = f
      PROVE  q = p /\ e = d
  <2>1. PICK t : Descriptors(f) = {t}
    BY <1>3, <1>4, <1>6, FS_Singleton
  <2>2. <<q, e>> \in Descriptors(f)
    BY <1>6 DEF Descriptors
  <2>3. <<q, e>> = <<p, d>>
    BY <1>2, <2>1, <2>2
  <2> QED
    BY <2>3
<1> QED
  BY <1>1, <1>3, <1>4, <1>5, <1>6

(* A file without references has no descriptor.                            *)
LEMMA FreeUnheld ==
    ASSUME PipeConstants, PipeInv, NEW f \in File, file[f].ref = 0
    PROVE  \A q \in Procs, e \in Fd : ofile[q][e] # f
<1>1. Descriptors(f) = {}
  BY DescriptorsFinite DEF PipeInv, RefsExact
<1>2. ASSUME NEW q \in Procs, NEW e \in Fd, ofile[q][e] = f PROVE FALSE
  <2>1. <<q, e>> \in Descriptors(f)
    BY <1>2 DEF Descriptors
  <2> QED
    BY <1>1, <2>1
<1> QED
  BY <1>2

(* The end a descriptor stands for.                                        *)
LEMMA HeldEnd ==
    ASSUME PipeConstants, PipeInv, NEW p \in Procs, NEW d \in Fd, ofile[p][d] # None
    PROVE  Holds(p, file[ofile[p][d]].pipe, SideOf(ofile[p][d]))
<1>1. file[ofile[p][d]].ref > 0
  BY HeldRef
<1> QED
  BY <1>1 DEF Holds, IsEnd

(* Whoever holds or closes an end finds it open.                           *)
LEMMA HeldOpen ==
    ASSUME PipeConstants, PipeInv, NEW p \in Procs, NEW x \in Pipes, NEW s \in Side,
           Holds(p, x, s) \/ Closes(p, x, s)
    PROVE  OpenEnd(x, s)
<1>1. CASE Holds(p, x, s)
  <2>1. PICK d \in Fd : ofile[p][d] # None /\ IsEnd(ofile[p][d], x, s)
    BY <1>1 DEF Holds
  <2>2. ofile[p][d] \in File
    BY <2>1, HeldRef
  <2> QED
    BY <2>1, <2>2 DEF PipeInv, EndsOpen
<1>2. CASE Closes(p, x, s)
  BY <1>2 DEF PipeInv, EndsOpen
<1> QED
  BY <1>1, <1>2

----------------------------------------------------------------------------
(* The shapes of steps.                                                    *)

(* A step after which the same files and processes stand for the same ends *)
(* and the same ends are open.                                             *)
LEMMA EndsKept ==
    ASSUME PipeInv,
           \A f \in File : file'[f].ref > 0 => file'[f].pipe \in Pipes,
           \A f \in File, x \in Pipes, s \in Side : IsEnd(f, x, s)' <=> IsEnd(f, x, s),
           \A p \in Procs, x \in Pipes, s \in Side : Closes(p, x, s)' <=> Closes(p, x, s),
           \A x \in Pipes, s \in Side : OpenEnd(x, s)' <=> OpenEnd(x, s)
    PROVE  EndsUnique' /\ EndsOpen'
<1> USE DEF PipeInv
<1>1. EndsUnique'
  BY DEF EndsUnique
<1>2. EndsOpen'
  BY DEF EndsOpen
<1> QED
  BY <1>1, <1>2

(* The file table is left alone.                                           *)
LEMMA FilesKept ==
    ASSUME PipeInv, UNCHANGED <<file, ofile>>
    PROVE  /\ RefsExact'
           /\ \A f \in File : file'[f].ref > 0 => file'[f].pipe \in Pipes
           /\ \A f, x, s : IsEnd(f, x, s)' <=> IsEnd(f, x, s)
           /\ \A p, x, s : Holds(p, x, s)' <=> Holds(p, x, s)
<1>1. RefsExact'
  BY DEF PipeInv, RefsExact, Descriptors
<1>2. \A f, x, s : IsEnd(f, x, s)' <=> IsEnd(f, x, s)
  BY DEF IsEnd, SideOf
<1>3. \A p, x, s : Holds(p, x, s)' <=> Holds(p, x, s)
  BY <1>2 DEF Holds
<1> QED
  BY <1>1, <1>2, <1>3 DEF PipeInv, EndsUnique

(* The pipes are left alone.                                               *)
LEMMA PipesKept ==
    ASSUME PipeInv, UNCHANGED pipe
    PROVE  RingBound' /\ \A x, s : OpenEnd(x, s)' <=> OpenEnd(x, s)
BY DEF PipeInv, RingBound, Count, OpenEnd

(* Nobody falls asleep and the pipes are left alone: no wakeup is due.     *)
LEMMA SleepersKept ==
    ASSUME PipeInv, UNCHANGED pipe,
           \A q \in Procs :
             /\ chan'[q] # "run" => chan'[q] = chan[q] /\ on'[q] = on[q]
             /\ run'[q] \in {"rsleep", "wsleep"} => run'[q] = run[q] /\ on'[q] = on[q]
    PROVE  PipeNoLostWakeup' /\ AboutToSleep'
<1>1. \A x : Count(x)' = Count(x) /\ (Full(x)' <=> Full(x))
  BY DEF Count, Full
<1>2. \A q \in Procs : chan[q] \in {"run", "nread", "nwrite"}
  BY DEF PipeInv, TypeOK
<1>3. PipeNoLostWakeup'
  BY <1>1, <1>2 DEF PipeInv, PipeNoLostWakeup
<1>4. AboutToSleep'
  BY <1>1 DEF PipeInv, AboutToSleep
<1> QED
  BY <1>3, <1>4

----------------------------------------------------------------------------
(* Steps that change neither the file table nor a pipe.                    *)

(* The calls that only move their process.                                 *)
LEMMA MoveKeeps ==
    ASSUME PipeConstants, PipeInv, UNCHANGED <<file, pipe, ofile>>, TypeOK', KilledFlags',
           CallsPlaced',
           \A q \in Procs, x \in Pipes, s \in Side : Closes(q, x, s)' <=> Closes(q, x, s),
           \A q \in Procs :
             /\ chan'[q] # "run" => chan'[q] = chan[q] /\ on'[q] = on[q]
             /\ run'[q] \in {"rsleep", "wsleep"} => run'[q] = run[q] /\ on'[q] = on[q]
    PROVE  PipeInv'
<1>1. RefsExact' /\ EndsUnique' /\ EndsOpen'
  BY FilesKept, PipesKept, EndsKept
<1>2. RingBound' /\ PipeNoLostWakeup' /\ AboutToSleep'
  BY PipesKept, SleepersKept
<1> QED
  BY <1>1, <1>2 DEF PipeInv

(* exit() begins.                                                          *)
LEMMA ExitKeeps ==
    ASSUME PipeConstants, PipeInv, NEW p \in Procs, exit(p)
    PROVE  PipeInv'
<1>1. /\ run[p] = "user" /\ run' = [run EXCEPT ![p] = "exit"]
      /\ UNCHANGED <<file, pipe, ofile, left, on, chan, killed>>
  BY DEF exit, Runs
<1>2. on[p] = None /\ chan[p] = "run"
  BY DEF exit, Runs, PipeInv, CallsPlaced
<1>3. \A q \in Procs : run'[q] = IF q = p THEN "exit" ELSE run[q]
  BY <1>1 DEF PipeInv, TypeOK
<1>4. TypeOK'
  BY <1>1 DEF PipeInv, TypeOK
<1>5. CallsPlaced'
  BY <1>1, <1>2, <1>3, FilesKept DEF PipeInv, CallsPlaced
<1>6. \A q \in Procs, x \in Pipes, s \in Side : Closes(q, x, s)' <=> Closes(q, x, s)
  BY <1>1, <1>2, <1>3, Sizes0 DEF Closes
<1>7. KilledFlags'
  BY <1>1 DEF PipeInv, KilledFlags
<1> QED
  BY <1>1, <1>3, <1>4, <1>5, <1>6, <1>7, MoveKeeps

(* The slot is free again.                                                 *)
LEMMA GoneKeeps ==
    ASSUME PipeConstants, PipeInv, NEW p \in Procs, Gone(p)
    PROVE  PipeInv'
<1>1. /\ run[p] = "exit" /\ on[p] = None /\ chan[p] = "run"
      /\ run' = [run EXCEPT ![p] = "unused"] /\ killed' = [killed EXCEPT ![p] = FALSE]
      /\ UNCHANGED <<file, pipe, ofile, left, on, chan>>
  BY DEF Gone, Runs
<1>2. \A d \in Fd : ofile[p][d] = None
  BY DEF Gone, FreeFds
<1>3. \A q \in Procs : run'[q] = IF q = p THEN "unused" ELSE run[q]
  BY <1>1 DEF PipeInv, TypeOK
<1>5. KilledFlags'
  BY <1>1 DEF PipeInv, KilledFlags
<1>6. TypeOK'
  BY <1>1 DEF PipeInv, TypeOK
<1>7. CallsPlaced'
  BY <1>1, <1>2, <1>3, FilesKept DEF PipeInv, CallsPlaced
<1>8. \A q \in Procs, x \in Pipes, s \in Side : Closes(q, x, s)' <=> Closes(q, x, s)
  BY <1>1, <1>3, Sizes0 DEF Closes
<1> QED
  BY <1>1, <1>3, <1>5, <1>6, <1>7, <1>8, MoveKeeps

(* kill() marks its victim and wakes it if it sleeps.                      *)
LEMMA KillKeeps ==
    ASSUME PipeConstants, PipeInv, NEW p \in Procs, kill(p)
    PROVE  PipeInv'
<1>1. /\ killed' = [killed EXCEPT ![p] = TRUE] /\ chan' = [chan EXCEPT ![p] = "run"]
      /\ UNCHANGED <<file, pipe, ofile, run, left, on>>
  BY DEF kill
<1>2. \A q \in Procs : chan'[q] = IF q = p THEN "run" ELSE chan[q]
  BY <1>1 DEF PipeInv, TypeOK
<1>4. KilledFlags'
  BY <1>1 DEF PipeInv, KilledFlags
<1>5. TypeOK'
  BY <1>1 DEF PipeInv, TypeOK
<1>6. CallsPlaced'
  BY <1>1, <1>2, FilesKept DEF PipeInv, CallsPlaced
<1>7. \A q \in Procs, x \in Pipes, s \in Side : Closes(q, x, s)' <=> Closes(q, x, s)
  BY <1>1 DEF Closes
<1> QED
  BY <1>1, <1>2, <1>4, <1>5, <1>6, <1>7, MoveKeeps

(* sleep() lets go of the pipe: what its caller waits for has not come.    *)
LEMMA SleepKeeps ==
    ASSUME PipeConstants, PipeInv, NEW p \in Procs, sleep(p)
    PROVE  PipeInv'
<1>1. /\ run[p] \in {"wsleep", "rsleep"}
      /\ run' = [run EXCEPT ![p] = IF run[p] = "wsleep" THEN "write" ELSE "read"]
      /\ chan' = [chan EXCEPT ![p] = IF run[p] = "wsleep" THEN "nwrite" ELSE "nread"]
      /\ UNCHANGED <<file, pipe, ofile, left, on, killed>>
  BY DEF sleep
<1>2. \A q \in Procs :
        /\ q # p => run'[q] = run[q] /\ chan'[q] = chan[q]
        /\ q = p => \/ run[q] = "wsleep" /\ run'[q] = "write" /\ chan'[q] = "nwrite"
                    \/ run[q] = "rsleep" /\ run'[q] = "read" /\ chan'[q] = "nread"
  BY <1>1 DEF PipeInv, TypeOK
<1>3. TypeOK' /\ KilledFlags'
  <2>1. run' \in [Procs -> RunStates] /\ chan' \in [Procs -> {"run", "nread", "nwrite"}]
    BY <1>1 DEF PipeInv, TypeOK, RunStates
  <2> QED
    BY <1>1, <2>1 DEF PipeInv, TypeOK, KilledFlags, RunStates
<1>4. CallsPlaced'
  BY <1>1, <1>2, FilesKept DEF PipeInv, CallsPlaced
<1>5. \A q \in Procs, x \in Pipes, s \in Side : Closes(q, x, s)' <=> Closes(q, x, s)
  BY <1>1, <1>2 DEF Closes
<1>6. RefsExact' /\ EndsUnique' /\ EndsOpen' /\ RingBound'
  BY <1>1, <1>5, FilesKept, PipesKept, EndsKept
<1>7. \A x : Count(x)' = Count(x) /\ (Full(x)' <=> Full(x))
  BY <1>1 DEF Count, Full
<1>8. PipeNoLostWakeup'
  BY <1>1, <1>2, <1>7 DEF PipeInv, PipeNoLostWakeup, AboutToSleep
<1>9. AboutToSleep'
  BY <1>1, <1>2, <1>7 DEF PipeInv, AboutToSleep
<1> QED
  BY <1>3, <1>4, <1>6, <1>8, <1>9 DEF PipeInv

(* read() and write() enter the pipe their descriptor stands for.          *)
LEMMA EnterKeeps ==
    ASSUME PipeConstants, PipeInv, NEW p \in Procs, sys_write(p) \/ sys_read(p)
    PROVE  PipeInv'
<1>1. PICK d \in Fd, n \in Sizes :
        /\ Runs(p, "user") /\ ofile[p][d] # None
        /\ run' = [run EXCEPT ![p] = IF file[ofile[p][d]].writable THEN "write" ELSE "read"]
        /\ on' = [on EXCEPT ![p] = file[ofile[p][d]].pipe]
        /\ left' = [left EXCEPT ![p] = n]
        /\ UNCHANGED <<file, pipe, ofile, chan, killed>>
  <2>1. CASE sys_write(p)
    BY <2>1 DEF sys_write
  <2>2. CASE sys_read(p)
    BY <2>2 DEF sys_read
  <2> QED
    BY <2>1, <2>2
<1> DEFINE f == ofile[p][d]
           x == file[f].pipe
<1>2. run[p] = "user" /\ on[p] = None /\ chan[p] = "run"
  BY <1>1 DEF Runs, PipeInv, CallsPlaced
<1>3. x \in Pipes /\ Holds(p, x, SideOf(f)) /\ n \in Nat
  BY <1>1, HeldRef, HeldEnd DEF PipeConstants
<1>4. \A q \in Procs :
        /\ run'[q] = IF q = p THEN IF SideOf(f) = 1 THEN "write" ELSE "read" ELSE run[q]
        /\ on'[q] = IF q = p THEN x ELSE on[q]
        /\ left'[q] = IF q = p THEN n ELSE left[q]
  BY <1>1 DEF PipeInv, TypeOK, SideOf
<1>5. SideOf(f) \in Side
  BY DEF SideOf, Side
<1>6. TypeOK'
  <2>1. run' \in [Procs -> RunStates]
    BY <1>1 DEF PipeInv, TypeOK
  <2>2. on' \in [Procs -> Pipes \cup {None}] /\ left' \in [Procs -> Nat]
    BY <1>1, <1>3 DEF PipeInv, TypeOK
  <2> QED
    BY <1>1, <2>1, <2>2 DEF PipeInv, TypeOK
<1>7. CallsPlaced'
  <2>1. \A q, y, s : Holds(q, y, s)' <=> Holds(q, y, s)
    BY <1>1, FilesKept
  <2> HIDE DEF f, x
  <2> QED
    BY <1>1, <1>2, <1>3, <1>4, <1>5, <2>1 DEF PipeInv, CallsPlaced, Side
<1>8. \A q \in Procs, y \in Pipes, s \in Side : Closes(q, y, s)' <=> Closes(q, y, s)
  BY <1>2, <1>4 DEF Closes
<1>9. \A q \in Procs : chan'[q] # "run" => chan'[q] = chan[q] /\ on'[q] = on[q]
  BY <1>1, <1>2, <1>4
<1>10. KilledFlags'
  BY <1>1 DEF PipeInv, KilledFlags
<1> QED
  BY <1>1, <1>4, <1>6, <1>7, <1>8, <1>9, <1>10, MoveKeeps

----------------------------------------------------------------------------
(* Closing a descriptor.                                                   *)

(* What fileclose does to the tables.                                      *)
LEMMA DropFacts ==
    ASSUME PipeConstants, PipeInv, NEW p \in Procs, NEW d \in Fd, ofile[p][d] # None,
           NEW f, f = ofile[p][d], Drop(p, d)
    PROVE  /\ f \in File /\ file[f].ref \in Nat \ {0} /\ file[f].pipe \in Pipes
           /\ file' \in [File -> [ref : Nat, pipe : Pipes \cup {None}, writable : BOOLEAN]]
           /\ ofile' \in [Procs -> [Fd -> File \cup {None}]]
           /\ \A g \in File : g # f => file'[g] = file[g]
           /\ \A q \in Procs, e \in Fd :
                ofile'[q][e] = IF q = p /\ e = d THEN None ELSE ofile[q][e]
           /\ file'[f].ref = file[f].ref - 1
           /\ file[f].ref > 1 => /\ file'[f].pipe = file[f].pipe
                                 /\ file'[f].writable = file[f].writable
                                 /\ UNCHANGED <<left, on>>
           /\ file[f].ref = 1 => /\ on' = [on EXCEPT ![p] = file[f].pipe]
                                 /\ left' = [left EXCEPT ![p] = SideOf(f)]
<1>1. f \in File /\ file[f].ref \in Nat \ {0} /\ file[f].pipe \in Pipes
  BY HeldRef
<1>2. /\ file \in [File -> [ref : Nat, pipe : Pipes \cup {None}, writable : BOOLEAN]]
      /\ ofile \in [Procs -> [Fd -> File \cup {None}]]
  BY DEF PipeInv, TypeOK
<1>3. ofile' = [ofile EXCEPT ![p][d] = None]
  BY DEF Drop
<1>4. /\ ofile' \in [Procs -> [Fd -> File \cup {None}]]
      /\ \A q \in Procs, e \in Fd :
           ofile'[q][e] = IF q = p /\ e = d THEN None ELSE ofile[q][e]
  BY <1>2, <1>3
<1>5. CASE file[f].ref > 1
  <2>1. file' = [file EXCEPT ![f] = [file[f] EXCEPT !.ref = file[f].ref - 1]]
        /\ UNCHANGED <<left, on>>
    BY <1>5 DEF Drop
  <2>2. [file[f] EXCEPT !.ref = file[f].ref - 1] \in
          [ref : Nat, pipe : Pipes \cup {None}, writable : BOOLEAN]
    <3>1. file[f] \in [ref : Nat, pipe : Pipes \cup {None}, writable : BOOLEAN]
      BY <1>1, <1>2
    <3>2. file[f].ref - 1 \in Nat
      BY <1>1
    <3> QED
      BY <3>1, <3>2
  <2> QED
    BY <1>1, <1>2, <1>4, <1>5, <2>1, <2>2
<1>6. CASE file[f].ref = 1
  <2>1. /\ file' = [file EXCEPT ![f] = Closed]
        /\ on' = [on EXCEPT ![p] = file[f].pipe]
        /\ left' = [left EXCEPT ![p] = SideOf(f)]
    BY <1>6 DEF Drop, SideOf
  <2>2. Closed \in [ref : Nat, pipe : Pipes \cup {None}, writable : BOOLEAN]
        /\ Closed.ref = 0
    BY DEF Closed
  <2> QED
    BY <1>1, <1>2, <1>4, <1>6, <2>1, <2>2
<1> QED
  BY <1>1, <1>5, <1>6

(* The counts stay exact.                                                  *)
LEMMA DropCounts ==
    ASSUME PipeConstants, PipeInv, NEW p \in Procs, NEW d \in Fd, ofile[p][d] # None,
           Drop(p, d)
    PROVE  RefsExact'
<1> DEFINE f == ofile[p][d]
<1>1. /\ f \in File /\ file[f].ref \in Nat \ {0}
      /\ \A g \in File : g # f => file'[g] = file[g]
      /\ \A q \in Procs, e \in Fd :
           ofile'[q][e] = IF q = p /\ e = d THEN None ELSE ofile[q][e]
      /\ file'[f].ref = file[f].ref - 1
  BY DropFacts
<1>2. ASSUME NEW g \in File, g # f PROVE file'[g].ref = Cardinality(Descriptors(g)')
  <2>1. Descriptors(g)' = Descriptors(g)
    BY <1>1, <1>2, Sizes0 DEF Descriptors
  <2> QED
    BY <1>1, <1>2, <2>1 DEF PipeInv, RefsExact
<1>3. file'[f].ref = Cardinality({t \in Procs \X Fd : ofile'[t[1]][t[2]] = f})
  <2>1. {t \in Procs \X Fd : ofile'[t[1]][t[2]] = f} = Descriptors(f) \ {<<p, d>>}
    BY <1>1, Sizes0 DEF Descriptors
  <2>2. <<p, d>> \in Descriptors(f)
    BY DEF Descriptors
  <2>3. /\ IsFiniteSet(Descriptors(f)) /\ Cardinality(Descriptors(f)) \in Nat
        /\ Cardinality(Descriptors(f) \ {<<p, d>>}) = Cardinality(Descriptors(f)) - 1
    BY <2>2, DescriptorsFinite, FS_RemoveElement
  <2> QED
    BY <1>1, <2>1, <2>3 DEF PipeInv, RefsExact
<1>4. ASSUME NEW g \in File PROVE file'[g].ref = Cardinality(Descriptors(g)')
  <2>1. CASE g = f
    BY <1>3, <2>1 DEF Descriptors
  <2> QED
    BY <1>2, <2>1
<1> QED
  BY <1>4 DEF RefsExact

(* Other processes keep the ends they hold.                                *)
LEMMA DropOthers ==
    ASSUME PipeConstants, PipeInv, NEW p \in Procs, NEW d \in Fd, ofile[p][d] # None,
           Drop(p, d), NEW q \in Procs, q # p, NEW x, NEW s, Holds(q, x, s)
    PROVE  Holds(q, x, s)'
<1> DEFINE f == ofile[p][d]
<1>1. /\ f \in File /\ file[f].ref \in Nat \ {0}
      /\ \A g \in File : g # f => file'[g] = file[g]
      /\ \A r \in Procs, e \in Fd :
           ofile'[r][e] = IF r = p /\ e = d THEN None ELSE ofile[r][e]
      /\ file'[f].ref = file[f].ref - 1
      /\ file[f].ref > 1 => /\ file'[f].pipe = file[f].pipe
                            /\ file'[f].writable = file[f].writable
  BY DropFacts
<1>2. PICK e \in Fd : ofile[q][e] # None /\ IsEnd(ofile[q][e], x, s)
  BY DEF Holds
<1>3. ofile'[q][e] = ofile[q][e] /\ ofile[q][e] \in File
  BY <1>1, <1>2, HeldRef
<1>4. ofile[q][e] = f => file[f].ref > 1
  BY <1>1, HeldRef
<1>5. IsEnd(ofile[q][e], x, s)'
  <2>1. CASE ofile[q][e] = f
    BY <1>1, <1>2, <1>3, <1>4, <2>1 DEF IsEnd, SideOf
  <2>2. CASE ofile[q][e] # f
    BY <1>1, <1>2, <1>3, <2>2 DEF IsEnd, SideOf
  <2> QED
    BY <2>1, <2>2
<1> QED
  BY <1>2, <1>3, <1>5 DEF Holds

(* A close whose reference was not the last.                               *)
LEMMA DropShared ==
    ASSUME PipeConstants, PipeInv, NEW p \in Procs, NEW d \in Fd, ofile[p][d] # None,
           Drop(p, d), file[ofile[p][d]].ref > 1,
           run[p] \in {"user", "exit"}, on[p] = None, chan[p] = "run",
           UNCHANGED <<pipe, run, chan, killed>>
    PROVE  PipeInv'
<1> DEFINE f == ofile[p][d]
<1>1. /\ f \in File /\ file[f].ref \in Nat \ {0} /\ file[f].pipe \in Pipes
      /\ file' \in [File -> [ref : Nat, pipe : Pipes \cup {None}, writable : BOOLEAN]]
      /\ ofile' \in [Procs -> [Fd -> File \cup {None}]]
      /\ \A g \in File : g # f => file'[g] = file[g]
      /\ \A r \in Procs, e \in Fd :
           ofile'[r][e] = IF r = p /\ e = d THEN None ELSE ofile[r][e]
      /\ file'[f].ref = file[f].ref - 1
      /\ file'[f].pipe = file[f].pipe
      /\ file'[f].writable = file[f].writable
      /\ UNCHANGED <<left, on>>
  BY DropFacts
<1>2. TypeOK' /\ KilledFlags'
  BY <1>1 DEF PipeInv, TypeOK, KilledFlags
<1>3. CallsPlaced'
  <2>1. \A q \in Procs : \A x, s : q # p /\ Holds(q, x, s) => Holds(q, x, s)'
    BY DropOthers
  <2>2. \A q \in Procs, e \in Fd : ofile[q][e] = None => ofile'[q][e] = None
    BY <1>1
  <2>3. UNCHANGED <<run, on, left, chan>>
    BY <1>1
  <2> QED
    BY <2>1, <2>2, <2>3 DEF PipeInv, CallsPlaced
<1>4. RefsExact'
  BY DropCounts
<1>5. EndsUnique' /\ EndsOpen'
  <2>1. \A g \in File : /\ file'[g].ref > 0 <=> file[g].ref > 0
                        /\ file'[g].pipe = file[g].pipe
                        /\ file'[g].writable = file[g].writable
    BY <1>1
  <2>2. \A g \in File, x \in Pipes, s \in Side : IsEnd(g, x, s)' <=> IsEnd(g, x, s)
    BY <2>1 DEF IsEnd, SideOf
  <2>3. \A q \in Procs, x \in Pipes, s \in Side : Closes(q, x, s)' <=> Closes(q, x, s)
    BY <1>1 DEF Closes
  <2>4. \A g \in File : file'[g].ref > 0 => file'[g].pipe \in Pipes
    BY <2>1 DEF PipeInv, EndsUnique
  <2> QED
    BY <2>2, <2>3, <2>4, PipesKept, EndsKept
<1>6. RingBound' /\ PipeNoLostWakeup' /\ AboutToSleep'
  BY <1>1, PipesKept, SleepersKept
<1> QED
  BY <1>2, <1>3, <1>4, <1>5, <1>6 DEF PipeInv

(* The last close of a file: the end passes from the file to the process   *)
(* that will call pipeclose.                                               *)
LEMMA DropLast ==
    ASSUME PipeConstants, PipeInv, NEW p \in Procs, NEW d \in Fd, ofile[p][d] # None,
           Drop(p, d), file[ofile[p][d]].ref = 1,
           run[p] \in {"user", "exit"}, on[p] = None, chan[p] = "run",
           run' = run \/ run' = [run EXCEPT ![p] = "close"],
           run'[p] \in {"close", "exit"},
           UNCHANGED <<pipe, chan, killed>>
    PROVE  PipeInv'
<1> DEFINE f == ofile[p][d]
<1>1. /\ f \in File /\ file[f].pipe \in Pipes
      /\ file' \in [File -> [ref : Nat, pipe : Pipes \cup {None}, writable : BOOLEAN]]
      /\ ofile' \in [Procs -> [Fd -> File \cup {None}]]
      /\ \A g \in File : g # f => file'[g] = file[g]
      /\ \A r \in Procs, e \in Fd :
           ofile'[r][e] = IF r = p /\ e = d THEN None ELSE ofile[r][e]
      /\ file'[f].ref = 0
      /\ on' = [on EXCEPT ![p] = file[f].pipe]
      /\ left' = [left EXCEPT ![p] = SideOf(f)]
  BY DropFacts
<1>2. PICK x \in Pipes : x = file[f].pipe
  BY <1>1
<1>3. PICK s \in Side : s = SideOf(f)
  BY DEF Side, SideOf
<1>4. \A q \in Procs : /\ on'[q] = IF q = p THEN x ELSE on[q]
                       /\ left'[q] = IF q = p THEN s ELSE left[q]
                       /\ q # p => run'[q] = run[q]
  BY <1>1, <1>2, <1>3 DEF PipeInv, TypeOK
<1>5. TypeOK' /\ KilledFlags'
  <2>1. on' \in [Procs -> Pipes \cup {None}] /\ left' \in [Procs -> Nat]
    BY <1>1, <1>2, <1>3 DEF PipeInv, TypeOK, Side
  <2>2. run' \in [Procs -> RunStates]
    BY DEF PipeInv, TypeOK
  <2> QED
    BY <1>1, <2>1, <2>2 DEF PipeInv, TypeOK, KilledFlags
<1>6. CallsPlaced'
  <2>1. \A q \in Procs : \A y, u : q # p /\ Holds(q, y, u) => Holds(q, y, u)'
    BY DropOthers
  <2>2. \A q \in Procs, e \in Fd : ofile[q][e] = None => ofile'[q][e] = None
    BY <1>1
  <2>3. chan' = chan
    OBVIOUS
  <2> QED
    BY <1>4, <2>1, <2>2, <2>3 DEF PipeInv, CallsPlaced
<1>7. RefsExact'
  BY DropCounts
<1>8. \A g \in File, y \in Pipes, u \in Side :
         IsEnd(g, y, u)' <=> IsEnd(g, y, u) /\ g # f
  <2>1. \A g \in File : g # f => file'[g] = file[g]
    BY <1>1
  <2>2. \A g, y, u : g = f => ~IsEnd(g, y, u)'
    BY <1>1 DEF IsEnd
  <2> QED
    BY <2>1, <2>2 DEF IsEnd, SideOf
<1>9. \A q \in Procs, y \in Pipes, u \in Side :
         Closes(q, y, u)' <=> Closes(q, y, u) \/ (q = p /\ y = x /\ u = s)
  <2>1. \A y \in Pipes : on[p] # y
    BY Sizes0
  <2> QED
    BY <1>4, <2>1 DEF Closes
<1>10. IsEnd(f, x, s) /\ \A y \in Pipes, u \in Side : IsEnd(f, y, u) => y = x /\ u = s
  BY <1>2, <1>3 DEF IsEnd
<1>11. \A y \in Pipes, u \in Side : OpenEnd(y, u)' <=> OpenEnd(y, u)
  BY PipesKept
<1>12. EndsUnique'
  <2>1. \A g \in File : file'[g].ref > 0 => file'[g].pipe \in Pipes
    BY <1>1 DEF PipeInv, EndsUnique
  <2> HIDE DEF f
  <2>2. \A g, h \in File, y \in Pipes, u \in Side :
          IsEnd(g, y, u)' /\ IsEnd(h, y, u)' => g = h
    BY <1>8 DEF PipeInv, EndsUnique
  <2>3. \A q, r \in Procs, y \in Pipes, u \in Side :
          Closes(q, y, u)' /\ Closes(r, y, u)' => q = r
    BY <1>1, <1>9, <1>10 DEF PipeInv, EndsUnique
  <2>4. \A g \in File, q \in Procs, y \in Pipes, u \in Side :
          ~(IsEnd(g, y, u)' /\ Closes(q, y, u)')
    BY <1>1, <1>8, <1>9, <1>10 DEF PipeInv, EndsUnique
  <2> QED
    BY <2>1, <2>2, <2>3, <2>4 DEF EndsUnique
<1>13. EndsOpen'
  <2> HIDE DEF f
  <2> QED
    BY <1>1, <1>8, <1>9, <1>10, <1>11 DEF PipeInv, EndsOpen
<1>14. RingBound' /\ PipeNoLostWakeup' /\ AboutToSleep'
  <2>1. \A q \in Procs :
          /\ chan'[q] # "run" => chan'[q] = chan[q] /\ on'[q] = on[q]
          /\ run'[q] \in {"rsleep", "wsleep"} => run'[q] = run[q] /\ on'[q] = on[q]
    BY <1>4
  <2> QED
    BY <2>1, PipesKept, SleepersKept
<1> QED
  BY <1>5, <1>6, <1>7, <1>12, <1>13, <1>14 DEF PipeInv

(* close() of a descriptor.                                                *)
LEMMA CloseKeeps ==
    ASSUME PipeConstants, PipeInv, NEW p \in Procs, sys_close(p)
    PROVE  PipeInv'
<1>1. PICK d \in Fd :
        /\ Runs(p, "user") /\ ofile[p][d] # None /\ Drop(p, d)
        /\ run' = IF file[ofile[p][d]].ref > 1 THEN run ELSE [run EXCEPT ![p] = "close"]
        /\ UNCHANGED <<pipe, chan, killed>>
  BY DEF sys_close
<1>2. run[p] = "user" /\ on[p] = None /\ chan[p] = "run"
  BY <1>1 DEF Runs, PipeInv, CallsPlaced
<1>3. file[ofile[p][d]].ref \in Nat \ {0}
  BY <1>1, HeldRef
<1>4. CASE file[ofile[p][d]].ref > 1
  BY <1>1, <1>2, <1>4, DropShared
<1>5. CASE file[ofile[p][d]].ref = 1
  <2>1. run' = [run EXCEPT ![p] = "close"]
    BY <1>1, <1>5
  <2>2. run'[p] = "close"
    BY <2>1 DEF PipeInv, TypeOK
  <2> QED
    BY <1>1, <1>2, <1>5, <2>1, <2>2, DropLast
<1> QED
  BY <1>3, <1>4, <1>5

(* A close in exit().                                                      *)
LEMMA ExitClosesKeeps ==
    ASSUME PipeConstants, PipeInv, NEW p \in Procs, ExitCloses(p)
    PROVE  PipeInv'
<1>1. PICK d : /\ d = Min(Fd \ FreeFds(p)) /\ Fd \ FreeFds(p) # {}
               /\ run[p] = "exit" /\ chan[p] = "run" /\ on[p] = None
               /\ Drop(p, d) /\ UNCHANGED <<pipe, run, chan, killed>>
  BY DEF ExitCloses, Runs, FreeFds
<1>2. Fd \ FreeFds(p) \subseteq Nat
  BY Sizes0
<1>3. d \in Fd /\ ofile[p][d] # None
  BY <1>1, <1>2, MinFound DEF FreeFds
<1>4. file[ofile[p][d]].ref \in Nat \ {0}
  BY <1>3, HeldRef
<1>5. CASE file[ofile[p][d]].ref > 1
  BY <1>1, <1>3, <1>5, DropShared
<1>6. CASE file[ofile[p][d]].ref = 1
  BY <1>1, <1>3, <1>6, DropLast
<1> QED
  BY <1>4, <1>5, <1>6

----------------------------------------------------------------------------
(* pipeclose.                                                              *)

PipeStates ==
    [data : [0..(PIPESIZE - 1) -> 0..(W - 1)], nread : 0..(W - 1),
     nwrite : 0..(W - 1), readopen : BOOLEAN, writeopen : BOOLEAN, owed : BOOLEAN]

(* A page that was given back, or is fresh, is a pipe without bytes.       *)
LEMMA Pages ==
    ASSUME PipeConstants
    PROVE  /\ FreePage \in PipeStates /\ NewPipe \in PipeStates
           /\ ~FreePage.readopen /\ ~FreePage.writeopen
           /\ NewPipe.readopen /\ NewPipe.writeopen
           /\ FreePage.nread = 0 /\ FreePage.nwrite = 0
           /\ NewPipe.nread = 0 /\ NewPipe.nwrite = 0
           /\ (0 - 0) % W = 0
<1>1. 0 \in 0..(W - 1)
  BY DEF PipeConstants
<1>2. [k \in 0..(PIPESIZE - 1) |-> 0] \in [0..(PIPESIZE - 1) -> 0..(W - 1)]
  BY <1>1
<1>3. (0 - 0) % W = 0
  BY DEF PipeConstants
<1> QED
  BY <1>1, <1>2, <1>3 DEF FreePage, NewPipe, PipeStates

(* What pipeclose does to the pipe: the end is closed, and the page kept   *)
(* as it is while the other end is open.                                   *)
LEMMA CloseFacts ==
    ASSUME PipeConstants, PipeInv, NEW p \in Procs, pipeclose(p),
           NEW x, x = on[p], NEW s, s = left[p]
    PROVE  /\ x \in Pipes /\ s \in Side /\ run[p] \in {"close", "exit"}
           /\ pipe' \in [Pipes -> PipeStates]
           /\ \A y \in Pipes : y # x => pipe'[y] = pipe[y]
           /\ pipe'[x].writeopen <=> pipe[x].writeopen /\ s # 1
           /\ pipe'[x].readopen <=> pipe[x].readopen /\ s # 0
           /\ \/ /\ pipe'[x].nread = pipe[x].nread
                 /\ pipe'[x].nwrite = pipe[x].nwrite
                 /\ pipe'[x].owed = pipe[x].owed
                 /\ pipe'[x].data = pipe[x].data
              \/ pipe'[x] = FreePage
           /\ pipe'[x].writeopen \/ pipe'[x].readopen =>
                 /\ pipe'[x].nread = pipe[x].nread
                 /\ pipe'[x].nwrite = pipe[x].nwrite
                 /\ pipe'[x].owed = pipe[x].owed
<1>1. x \in Pipes /\ s \in Side /\ run[p] \in {"close", "exit"}
  BY DEF pipeclose, PipeInv, TypeOK, CallsPlaced
<1>2. pipe \in [Pipes -> PipeStates] /\ pipe[x] \in PipeStates
  BY <1>1 DEF PipeInv, TypeOK, PipeStates
<1> DEFINE after == IF s = 1 THEN [pipe[x] EXCEPT !.writeopen = FALSE]
                    ELSE [pipe[x] EXCEPT !.readopen = FALSE]
<1>3. /\ after \in PipeStates
      /\ after.writeopen <=> pipe[x].writeopen /\ s # 1
      /\ after.readopen <=> pipe[x].readopen /\ s # 0
      /\ after.nread = pipe[x].nread /\ after.nwrite = pipe[x].nwrite
      /\ after.owed = pipe[x].owed /\ after.data = pipe[x].data
  <2>1. CASE s = 1
    <3>1. after = [pipe[x] EXCEPT !.writeopen = FALSE]
      BY <2>1
    <3> HIDE DEF after
    <3>2. after \in PipeStates
      BY <1>2, <3>1 DEF PipeStates
    <3>3. after.writeopen = FALSE /\ after.readopen = pipe[x].readopen
      BY <1>2, <3>1 DEF PipeStates
    <3>4. /\ after.nread = pipe[x].nread /\ after.nwrite = pipe[x].nwrite
          /\ after.owed = pipe[x].owed /\ after.data = pipe[x].data
      BY <1>2, <3>1 DEF PipeStates
    <3> QED
      BY <2>1, <3>2, <3>3, <3>4
  <2>2. CASE s = 0
    <3>1. after = [pipe[x] EXCEPT !.readopen = FALSE]
      BY <2>2
    <3> HIDE DEF after
    <3>2. after \in PipeStates
      BY <1>2, <3>1 DEF PipeStates
    <3>3. after.readopen = FALSE /\ after.writeopen = pipe[x].writeopen
      BY <1>2, <3>1 DEF PipeStates
    <3>4. /\ after.nread = pipe[x].nread /\ after.nwrite = pipe[x].nwrite
          /\ after.owed = pipe[x].owed /\ after.data = pipe[x].data
      BY <1>2, <3>1 DEF PipeStates
    <3> QED
      BY <2>2, <3>2, <3>3, <3>4
  <2> QED
    BY <1>1, <2>1, <2>2 DEF Side
<1>4. pipe' = [pipe EXCEPT ![x] = IF after.readopen \/ after.writeopen THEN after
                                   ELSE FreePage]
  BY DEF pipeclose
<1> HIDE DEF after
<1>5. pipe'[x] = IF after.readopen \/ after.writeopen THEN after ELSE FreePage
  BY <1>1, <1>2, <1>4
<1>6. pipe' \in [Pipes -> PipeStates] /\ \A y \in Pipes : y # x => pipe'[y] = pipe[y]
  BY <1>1, <1>2, <1>3, <1>4, Pages
<1>7. CASE after.readopen \/ after.writeopen
  BY <1>1, <1>3, <1>5, <1>6, <1>7
<1>8. CASE ~(after.readopen \/ after.writeopen)
  BY <1>1, <1>3, <1>5, <1>6, <1>8, Pages
<1> QED
  BY <1>7, <1>8

(* The end is closed and whoever waits for the other end is woken.         *)
LEMMA PipecloseKeeps ==
    ASSUME PipeConstants, PipeInv, NEW p \in Procs, pipeclose(p)
    PROVE  PipeInv'
<1>1. PICK x, s : x = on[p] /\ s = left[p]
  OBVIOUS
<1>2. /\ x \in Pipes /\ s \in Side /\ run[p] \in {"close", "exit"}
      /\ pipe' \in [Pipes -> PipeStates]
      /\ \A y \in Pipes : y # x => pipe'[y] = pipe[y]
  BY <1>1, CloseFacts
<1>3. /\ pipe'[x].writeopen <=> pipe[x].writeopen /\ s # 1
      /\ pipe'[x].readopen <=> pipe[x].readopen /\ s # 0
  BY <1>1, CloseFacts
<1>4. \/ pipe'[x].nread = pipe[x].nread /\ pipe'[x].nwrite = pipe[x].nwrite
      \/ pipe'[x] = FreePage
  BY <1>1, CloseFacts
<1>5. pipe'[x].writeopen \/ pipe'[x].readopen =>
        /\ pipe'[x].nread = pipe[x].nread /\ pipe'[x].nwrite = pipe[x].nwrite
        /\ pipe'[x].owed = pipe[x].owed
  BY <1>1, CloseFacts
<1>6. /\ run' = [run EXCEPT ![p] = IF @ = "close" THEN "user" ELSE @]
      /\ on' = [on EXCEPT ![p] = None] /\ left' = [left EXCEPT ![p] = 0]
      /\ UNCHANGED <<file, ofile, killed>>
  BY DEF pipeclose
<1>7. /\ chan' \in [Procs -> {"run", "nread", "nwrite"}]
      /\ \A q \in Procs : chan'[q] =
           IF on[q] = x /\ chan[q] = (IF s = 1 THEN "nread" ELSE "nwrite")
           THEN "run" ELSE chan[q]
  BY <1>1 DEF pipeclose, WokenByClose, Woken, PipeInv, TypeOK
<1>8. \A q \in Procs : /\ q # p => /\ run'[q] = run[q] /\ on'[q] = on[q]
                                   /\ left'[q] = left[q]
                       /\ q = p => /\ run'[q] \in {"user", "exit"} /\ on'[q] = None
                                   /\ left'[q] = 0
  BY <1>2, <1>6 DEF PipeInv, TypeOK
<1>9. TypeOK' /\ KilledFlags'
  <2>1. run' \in [Procs -> RunStates]
    BY <1>6 DEF PipeInv, TypeOK
  <2>2. on' \in [Procs -> Pipes \cup {None}] /\ left' \in [Procs -> Nat]
    BY <1>6 DEF PipeInv, TypeOK
  <2> QED
    BY <1>2, <1>6, <1>7, <2>1, <2>2 DEF PipeInv, TypeOK, KilledFlags, PipeStates
<1>10. CallsPlaced'
  <2>1. \A q, y, u : Holds(q, y, u)' <=> Holds(q, y, u)
    BY <1>6, FilesKept
  <2>2. ofile' = ofile
    BY <1>6
  <2>3. chan[p] = "run"
    BY <1>2 DEF PipeInv, CallsPlaced, TypeOK
  <2>4. \A q \in Procs : chan'[q] = chan[q] \/ chan'[q] = "run"
    BY <1>7
  <2> QED
    BY <1>8, <2>1, <2>2, <2>3, <2>4 DEF PipeInv, CallsPlaced, Side
<1>11. RefsExact' /\ (\A g, y, u : IsEnd(g, y, u)' <=> IsEnd(g, y, u))
       /\ \A g \in File : file'[g].ref > 0 => file'[g].pipe \in Pipes
  BY <1>6, FilesKept
<1>12. \A q \in Procs, y \in Pipes, u \in Side :
          Closes(q, y, u)' <=> Closes(q, y, u) /\ q # p
  BY <1>8, Sizes0 DEF Closes
<1>13. \A y \in Pipes, u \in Side :
          OpenEnd(y, u)' <=> OpenEnd(y, u) /\ ~(y = x /\ u = s)
  BY <1>2, <1>3 DEF OpenEnd, Side
<1>14. Closes(p, x, s) /\ \A y \in Pipes, u \in Side : Closes(p, y, u) => y = x /\ u = s
  BY <1>1, <1>2 DEF Closes
<1>15. EndsUnique'
  BY <1>11, <1>12 DEF PipeInv, EndsUnique
<1>16. EndsOpen'
  <2>1. \A q \in Procs : Closes(q, x, s) => q = p
    BY <1>2, <1>14 DEF PipeInv, EndsUnique
  <2>2. \A g \in File : ~IsEnd(g, x, s)
    BY <1>2, <1>14 DEF PipeInv, EndsUnique
  <2> QED
    BY <1>11, <1>12, <1>13, <1>14, <2>1, <2>2 DEF PipeInv, EndsOpen
<1>17. RingBound'
  <2>1. \A y \in Pipes : y # x => Count(y)' = Count(y)
    BY <1>2 DEF Count
  <2>2. \A y : y = x => Count(y)' = Count(y) \/ Count(y)' = 0
    BY <1>4, Pages DEF Count
  <2> QED
    BY <2>1, <2>2 DEF PipeInv, RingBound, PipeConstants
<1>18. PipeNoLostWakeup'
  <2> SUFFICES ASSUME NEW q \in Procs
               PROVE  /\ chan'[q] = "nread" => /\ Count(on[q])' = 0 \/ pipe'[on'[q]].owed
                                               /\ pipe'[on'[q]].writeopen
                      /\ chan'[q] = "nwrite" => Full(on[q])' /\ pipe'[on'[q]].readopen
    BY DEF PipeNoLostWakeup
  <2>2. ASSUME chan'[q] # "run"
        PROVE  chan'[q] = chan[q] /\ q # p /\ on'[q] = on[q] /\ on[q] \in Pipes
    <3>1. chan'[q] = chan[q] /\ chan[q] \in {"nread", "nwrite"}
      BY <1>7, <2>2 DEF PipeInv, TypeOK
    <3>2. run[q] \in {"read", "write"} /\ on[q] \in Pipes
      BY <3>1 DEF PipeInv, CallsPlaced
    <3> QED
      BY <1>2, <1>8, <3>1, <3>2
  <2>3. PICK z : z = on[q]
    OBVIOUS
  <2>4. CASE chan'[q] = "nread"
    <3>1. /\ chan[q] = "nread" /\ on'[q] = z /\ z \in Pipes
      BY <2>2, <2>3, <2>4
    <3>2. (Count(z) = 0 \/ pipe[z].owed) /\ pipe[z].writeopen
      BY <2>3, <3>1 DEF PipeInv, PipeNoLostWakeup
    <3>3. z = x => s # 1
      BY <1>7, <2>3, <2>4, <3>1
    <3>4. /\ pipe'[z].nread = pipe[z].nread /\ pipe'[z].nwrite = pipe[z].nwrite
          /\ pipe'[z].owed = pipe[z].owed /\ pipe'[z].writeopen
      BY <1>2, <1>3, <1>5, <3>1, <3>2, <3>3
    <3>5. Count(z)' = Count(z)
      BY <3>4 DEF Count
    <3> QED
      BY <2>3, <2>4, <3>1, <3>2, <3>4, <3>5
  <2>5. CASE chan'[q] = "nwrite"
    <3>1. /\ chan[q] = "nwrite" /\ on'[q] = z /\ z \in Pipes
      BY <2>2, <2>3, <2>5
    <3>2. Full(z) /\ pipe[z].readopen
      BY <2>3, <3>1 DEF PipeInv, PipeNoLostWakeup
    <3>3. z = x => s # 0
      <4>1. s = 0 => (IF s = 1 THEN "nread" ELSE "nwrite") = "nwrite"
        OBVIOUS
      <4>2. z = x /\ s = 0 => chan'[q] = "run"
        BY <1>7, <2>3, <3>1, <4>1
      <4> QED
        BY <2>5, <4>2
    <3>4. /\ pipe'[z].nread = pipe[z].nread /\ pipe'[z].nwrite = pipe[z].nwrite
          /\ pipe'[z].readopen
      BY <1>2, <1>3, <1>5, <3>1, <3>2, <3>3
    <3>5. Full(z)' <=> Full(z)
      BY <3>4 DEF Full
    <3> QED
      BY <2>3, <2>5, <3>1, <3>2, <3>4, <3>5
  <2> QED
    BY <2>4, <2>5
<1>19. AboutToSleep'
  <2>1. ~Locked(x)
    BY <1>1 DEF pipeclose
  <2>2. \A y \in Pipes : y # x => Count(y)' = Count(y) /\ (Full(y)' <=> Full(y))
    BY <1>2 DEF Count, Full
  <2>3. ASSUME NEW q \in Procs, run'[q] \in {"rsleep", "wsleep"}
        PROVE  run'[q] = run[q] /\ on'[q] = on[q] /\ on[q] \in Pipes /\ on[q] # x
    <3>1. q # p /\ run'[q] = run[q] /\ on'[q] = on[q]
      BY <1>8, <2>3
    <3> QED
      BY <2>1, <2>3, <3>1 DEF Locked, PipeInv, CallsPlaced
  <2> QED
    BY <1>2, <2>2, <2>3 DEF PipeInv, AboutToSleep
<1> QED
  BY <1>9, <1>10, <1>11, <1>15, <1>16, <1>17, <1>18, <1>19 DEF PipeInv

----------------------------------------------------------------------------
(* The calls that make descriptors.                                        *)

FileStates == [ref : Nat, pipe : Pipes \cup {None}, writable : BOOLEAN]

(* A call in user mode after which every file stands for the same end and  *)
(* has as many references as descriptors, and everybody has at least the   *)
(* descriptors it had.                                                     *)
LEMMA ShareKeeps ==
    ASSUME PipeConstants, PipeInv, RefsExact',
           file' \in [File -> FileStates],
           ofile' \in [Procs -> [Fd -> File \cup {None}]],
           \A g \in File : /\ file'[g].ref > 0 <=> file[g].ref > 0
                           /\ file'[g].pipe = file[g].pipe
                           /\ file'[g].writable = file[g].writable,
           \A q \in Procs, e \in Fd : ofile[q][e] # None => ofile'[q][e] = ofile[q][e],
           \A q \in Procs : run'[q] = "unused" =>
               run[q] = "unused" /\ \A e \in Fd : ofile'[q][e] = ofile[q][e],
           run' \in [Procs -> RunStates],
           \A q \in Procs : run'[q] = run[q] \/ (run[q] = "unused" /\ run'[q] = "user"),
           UNCHANGED <<pipe, left, on, chan, killed>>
    PROVE  PipeInv'
<1>1. \A g \in File : \A x, s : IsEnd(g, x, s)' <=> IsEnd(g, x, s)
  BY DEF IsEnd, SideOf
<1>2. ASSUME NEW q \in Procs, NEW x, NEW s, Holds(q, x, s) PROVE Holds(q, x, s)'
  <2>1. PICK e \in Fd : ofile[q][e] # None /\ IsEnd(ofile[q][e], x, s)
    BY <1>2 DEF Holds
  <2>2. PICK g \in File : g = ofile[q][e] /\ ofile'[q][e] = g
    BY <2>1, HeldRef
  <2>3. IsEnd(g, x, s)'
    BY <1>1, <2>1, <2>2
  <2> QED
    BY <2>1, <2>2, <2>3 DEF Holds
<1>3. TypeOK' /\ KilledFlags'
  BY DEF PipeInv, TypeOK, KilledFlags, FileStates
<1>4. CallsPlaced'
  <2> SUFFICES ASSUME NEW q \in Procs
               PROVE  /\ run'[q] \in {"user", "unused"} => on'[q] = None
                      /\ run'[q] = "unused" => \A d \in Fd : ofile'[q][d] = None
                      /\ run'[q] \in {"read", "rsleep"} =>
                           on'[q] \in Pipes /\ Holds(q, on[q], 0)'
                      /\ run'[q] \in {"write", "wsleep"} =>
                           on'[q] \in Pipes /\ Holds(q, on[q], 1)'
                      /\ run'[q] = "close" => on'[q] \in Pipes
                      /\ run'[q] \in {"close", "exit"} /\ on'[q] # None => left'[q] \in Side
                      /\ chan'[q] = "nread" => run'[q] = "read"
                      /\ chan'[q] = "nwrite" => run'[q] = "write"
    BY DEF CallsPlaced
  <2>1. /\ on'[q] = on[q] /\ left'[q] = left[q] /\ chan'[q] = chan[q]
        /\ run'[q] = run[q] \/ (run[q] = "unused" /\ run'[q] = "user")
    OBVIOUS
  <2>2. ASSUME NEW x, x = on[q] PROVE Holds(q, on[q], 0)' <=> Holds(q, x, 0)'
    BY <2>1, <2>2
  <2>3. ASSUME NEW x, x = on[q] PROVE Holds(q, on[q], 1)' <=> Holds(q, x, 1)'
    BY <2>1, <2>3
  <2>4. /\ run[q] \in {"read", "rsleep"} => on[q] \in Pipes /\ Holds(q, on[q], 0)
        /\ run[q] \in {"write", "wsleep"} => on[q] \in Pipes /\ Holds(q, on[q], 1)
    BY DEF PipeInv, CallsPlaced
  <2>5. /\ run'[q] \in {"read", "rsleep"} => on'[q] \in Pipes /\ Holds(q, on[q], 0)'
        /\ run'[q] \in {"write", "wsleep"} => on'[q] \in Pipes /\ Holds(q, on[q], 1)'
    <3>1. PICK x : x = on[q]
      OBVIOUS
    <3> QED
      BY <1>2, <2>1, <2>2, <2>3, <2>4, <3>1
  <2>6. /\ run[q] \in {"user", "unused"} => on[q] = None
        /\ run[q] = "unused" => \A d \in Fd : ofile[q][d] = None
        /\ run[q] = "close" => on[q] \in Pipes
        /\ run[q] \in {"close", "exit"} /\ on[q] # None => left[q] \in Side
        /\ chan[q] = "nread" => run[q] = "read"
        /\ chan[q] = "nwrite" => run[q] = "write"
    BY DEF PipeInv, CallsPlaced
  <2>7. run'[q] = "unused" => \A d \in Fd : ofile'[q][d] = None
    BY <2>6
  <2> QED
    BY <2>1, <2>5, <2>6, <2>7
<1>5. \A q \in Procs, x \in Pipes, s \in Side : Closes(q, x, s)' <=> Closes(q, x, s)
  BY DEF Closes
<1>6. EndsUnique' /\ EndsOpen'
  <2>1. \A g \in File : file'[g].ref > 0 => file'[g].pipe \in Pipes
    BY DEF PipeInv, EndsUnique
  <2> QED
    BY <1>1, <1>5, <2>1, PipesKept, EndsKept
<1>7. RingBound' /\ PipeNoLostWakeup' /\ AboutToSleep'
  BY PipesKept, SleepersKept
<1> QED
  BY <1>3, <1>4, <1>6, <1>7 DEF PipeInv

(* dup() gives a file one more descriptor and one more reference.          *)
LEMMA DupKeeps ==
    ASSUME PipeConstants, PipeInv, NEW p \in Procs, sys_dup(p)
    PROVE  PipeInv'
<1>1. PICK d \in Fd :
        /\ Runs(p, "user") /\ ofile[p][d] # None /\ FreeFds(p) # {}
        /\ ofile' = [ofile EXCEPT ![p][Min(FreeFds(p))] = ofile[p][d]]
        /\ file' = [file EXCEPT ![ofile[p][d]].ref = @ + 1]
        /\ UNCHANGED <<pipe, run, left, on, chan, killed>>
  BY DEF sys_dup
<1>2. PICK f \in File : f = ofile[p][d] /\ file[f].ref \in Nat \ {0}
  BY <1>1, HeldRef
<1>3. PICK e \in Fd : e = Min(FreeFds(p)) /\ ofile[p][e] = None
  <2>1. FreeFds(p) \subseteq Nat
    BY Sizes0 DEF FreeFds
  <2> QED
    BY <1>1, <2>1, MinFound DEF FreeFds
<1>4. file \in [File -> FileStates] /\ ofile \in [Procs -> [Fd -> File \cup {None}]]
  BY DEF PipeInv, TypeOK, FileStates
<1>5. /\ ofile' \in [Procs -> [Fd -> File \cup {None}]]
      /\ \A q \in Procs, i \in Fd :
           ofile'[q][i] = IF q = p /\ i = e THEN f ELSE ofile[q][i]
  BY <1>1, <1>2, <1>3, <1>4
<1>6. file' = [file EXCEPT ![f] = [file[f] EXCEPT !.ref = file[f].ref + 1]]
  BY <1>1, <1>2
<1>7. /\ [file[f] EXCEPT !.ref = file[f].ref + 1] \in FileStates
      /\ [file[f] EXCEPT !.ref = file[f].ref + 1].ref = file[f].ref + 1
      /\ [file[f] EXCEPT !.ref = file[f].ref + 1].pipe = file[f].pipe
      /\ [file[f] EXCEPT !.ref = file[f].ref + 1].writable = file[f].writable
  <2>1. file[f] \in FileStates
    BY <1>4
  <2>2. file[f].ref + 1 \in Nat
    BY <1>2
  <2> QED
    BY <2>1, <2>2 DEF FileStates
<1>8. /\ file' \in [File -> FileStates]
      /\ \A g \in File : g # f => file'[g] = file[g]
      /\ file'[f].ref = file[f].ref + 1 /\ file'[f].pipe = file[f].pipe
      /\ file'[f].writable = file[f].writable
  BY <1>4, <1>6, <1>7
<1>9. RefsExact'
  <2>1. ASSUME NEW g \in File, g # f PROVE file'[g].ref = Cardinality(Descriptors(g)')
    <3>1. Descriptors(g)' = Descriptors(g)
      BY <1>3, <1>5, <2>1, Sizes0 DEF Descriptors
    <3> QED
      BY <1>8, <2>1, <3>1 DEF PipeInv, RefsExact
  <2>2. file'[f].ref = Cardinality(Descriptors(f)')
    <3>1. Descriptors(f)' = Descriptors(f) \cup {<<p, e>>}
      BY <1>5 DEF Descriptors
    <3>2. <<p, e>> \notin Descriptors(f)
      BY <1>3, Sizes0 DEF Descriptors
    <3>3. Cardinality(Descriptors(f) \cup {<<p, e>>}) = Cardinality(Descriptors(f)) + 1
      BY <3>2, DescriptorsFinite, FS_AddElement
    <3> QED
      BY <1>8, <3>1, <3>3 DEF PipeInv, RefsExact
  <2> QED
    BY <2>1, <2>2 DEF RefsExact
<1>10. \A g \in File : /\ file'[g].ref > 0 <=> file[g].ref > 0
                       /\ file'[g].pipe = file[g].pipe
                       /\ file'[g].writable = file[g].writable
  BY <1>2, <1>8
<1>11. \A q \in Procs, i \in Fd : ofile[q][i] # None => ofile'[q][i] = ofile[q][i]
  BY <1>3, <1>5
<1>12. \A q \in Procs : run'[q] = "unused" =>
         run[q] = "unused" /\ \A i \in Fd : ofile'[q][i] = ofile[q][i]
  BY <1>1, <1>5 DEF Runs
<1>13. /\ run' \in [Procs -> RunStates]
       /\ \A q \in Procs : run'[q] = run[q]
  BY <1>1 DEF PipeInv, TypeOK
<1> QED
  BY <1>1, <1>5, <1>8, <1>9, <1>10, <1>11, <1>12, <1>13, ShareKeeps

(* The descriptors fork() adds for a file.                                 *)
LEMMA ForkCount ==
    ASSUME PipeConstants, NEW q \in Procs, NEW f, \A e \in Fd : ofile[q][e] # f,
           NEW S \in SUBSET Fd
    PROVE  /\ IsFiniteSet(S) /\ Cardinality(S) \in Nat
           /\ Cardinality(Descriptors(f) \cup ({q} \X S))
                = Cardinality(Descriptors(f)) + Cardinality(S)
<1>1. IsFiniteSet(S)
  <2>1. IsFiniteSet(Fd) /\ S \in SUBSET Fd
    BY FS_Interval DEF PipeConstants, Fd
  <2> QED
    BY <2>1, FS_Subset
<1>2. Cardinality(S) \in Nat
  BY <1>1, FS_CardinalityType
<1>3. /\ IsFiniteSet({q} \X S)
      /\ Cardinality({q} \X S) = Cardinality(S)
  <2>1. IsFiniteSet({q}) /\ Cardinality({q}) = 1
    BY FS_Singleton
  <2>2. /\ IsFiniteSet({q} \X S)
        /\ Cardinality({q} \X S) = Cardinality({q}) * Cardinality(S)
    BY <1>1, <2>1, FS_Product
  <2> QED
    BY <1>2, <2>1, <2>2
<1>4. Descriptors(f) \cap ({q} \X S) = {}
  BY DEF Descriptors
<1>5. IsFiniteSet(Descriptors(f)) /\ Cardinality(Descriptors(f)) \in Nat
  BY DescriptorsFinite
<1>6. Cardinality(Descriptors(f) \cup ({q} \X S))
        = Cardinality(Descriptors(f)) + Cardinality({q} \X S)
  <2>1. Cardinality(Descriptors(f) \cap ({q} \X S)) = 0
    BY <1>4, FS_EmptySet
  <2>2. Cardinality(Descriptors(f) \cup ({q} \X S)) =
          Cardinality(Descriptors(f)) + Cardinality({q} \X S)
          - Cardinality(Descriptors(f) \cap ({q} \X S))
    BY <1>3, <1>5, FS_Union
  <2> QED
    BY <1>2, <1>3, <1>5, <2>1, <2>2
<1> QED
  BY <1>1, <1>2, <1>3, <1>6

(* fork() gives the child a descriptor for each of the parent's.           *)
LEMMA ForkKeeps ==
    ASSUME PipeConstants, PipeInv, NEW p \in Procs, fork(p)
    PROVE  PipeInv'
<1>1. PICK q \in Procs :
        /\ Runs(p, "user") /\ run[q] = "unused"
        /\ file' = ForkRefs(p) /\ ofile' = [ofile EXCEPT ![q] = ofile[p]]
        /\ run' = [run EXCEPT ![q] = "user"]
        /\ UNCHANGED <<pipe, left, on, chan, killed>>
  BY DEF fork
<1>2. \A e \in Fd : ofile[q][e] = None
  BY <1>1 DEF PipeInv, CallsPlaced
<1>3. file \in [File -> FileStates] /\ ofile \in [Procs -> [Fd -> File \cup {None}]]
  BY DEF PipeInv, TypeOK, FileStates
<1>4. /\ ofile' \in [Procs -> [Fd -> File \cup {None}]]
      /\ \A r \in Procs : ofile'[r] = IF r = q THEN ofile[p] ELSE ofile[r]
  BY <1>1, <1>3
<1> DEFINE S(f) == {d \in Fd : ofile[p][d] = f}
<1>5. ASSUME NEW f \in File
      PROVE  /\ file'[f] \in FileStates
             /\ file'[f].ref = file[f].ref + Cardinality(S(f))
             /\ file'[f].pipe = file[f].pipe /\ file'[f].writable = file[f].writable
             /\ file'[f].ref = Cardinality(Descriptors(f)')
             /\ file[f].ref \in Nat
             /\ file'[f].ref > 0 => file[f].ref > 0
             /\ file[f].ref > 0 => file'[f].ref > 0
  <2>1. file'[f] = [file[f] EXCEPT !.ref = file[f].ref + Cardinality(S(f))]
    BY <1>1 DEF ForkRefs
  <2>2. \A e \in Fd : ofile[q][e] # f
    BY <1>2, Sizes0
  <2>3. /\ IsFiniteSet(S(f)) /\ Cardinality(S(f)) \in Nat
        /\ Cardinality(Descriptors(f) \cup ({q} \X S(f)))
             = Cardinality(Descriptors(f)) + Cardinality(S(f))
    <3>1. S(f) \in SUBSET Fd
      OBVIOUS
    <3> HIDE DEF S
    <3> QED
      BY <2>2, <3>1, ForkCount
  <2>4. file[f] \in FileStates /\ file[f].ref \in Nat
    BY <1>3 DEF FileStates
  <2>5. file[f].ref = Cardinality(Descriptors(f))
    BY DEF PipeInv, RefsExact
  <2>6. Descriptors(f)' = Descriptors(f) \cup ({q} \X S(f))
    BY <1>4, <2>2 DEF Descriptors
  <2>7. file[f].ref = 0 => Cardinality(S(f)) = 0
    <3>1. ASSUME file[f].ref = 0 PROVE S(f) = {}
      BY <3>1, FreeUnheld
    <3> QED
      BY <3>1, FS_EmptySet
  <2> HIDE DEF S
  <2>8. PICK n \in Nat : n = Cardinality(S(f))
    BY <2>3
  <2>9. file'[f] = [file[f] EXCEPT !.ref = file[f].ref + n]
    BY <2>1, <2>8
  <2>10. /\ file'[f] \in FileStates /\ file'[f].ref = file[f].ref + n
         /\ file'[f].pipe = file[f].pipe /\ file'[f].writable = file[f].writable
    BY <2>4, <2>9 DEF FileStates
  <2> QED
    BY <2>3, <2>4, <2>5, <2>6, <2>7, <2>8, <2>10
<1>6. file' \in [File -> FileStates]
  BY <1>1, <1>5 DEF ForkRefs
<1>7. RefsExact'
  BY <1>5 DEF RefsExact
<1>8. \A g \in File : /\ file'[g].ref > 0 <=> file[g].ref > 0
                      /\ file'[g].pipe = file[g].pipe
                      /\ file'[g].writable = file[g].writable
  BY <1>5
<1>9. \A r \in Procs, i \in Fd : ofile[r][i] # None => ofile'[r][i] = ofile[r][i]
  BY <1>2, <1>4
<1>10. \A r \in Procs : run'[r] = IF r = q THEN "user" ELSE run[r]
  BY <1>1 DEF PipeInv, TypeOK
<1>11. run' \in [Procs -> RunStates]
  BY <1>1 DEF PipeInv, TypeOK
<1>12. \A r \in Procs : run'[r] = "unused" =>
         run[r] = "unused" /\ \A i \in Fd : ofile'[r][i] = ofile[r][i]
  BY <1>4, <1>10
<1>13. \A r \in Procs : run'[r] = run[r] \/ (run[r] = "unused" /\ run'[r] = "user")
  BY <1>1, <1>10
<1> QED
  BY <1>1, <1>4, <1>6, <1>7, <1>8, <1>9, <1>11, <1>12, <1>13, ShareKeeps

(* pipe() found two files, two descriptors and a page.                     *)
LEMMA NewPipeKeeps ==
    ASSUME PipeConstants, PipeInv, NEW p \in Procs, run[p] = "user",
           NEW r \in File, NEW w \in File, r # w, file[r].ref = 0, file[w].ref = 0,
           NEW d \in Fd, NEW e \in Fd, d # e, ofile[p][d] = None, ofile[p][e] = None,
           NEW x \in Pipes, ~Open(x),
           file' = [file EXCEPT ![r] = [ref |-> 1, pipe |-> x, writable |-> FALSE],
                                ![w] = [ref |-> 1, pipe |-> x, writable |-> TRUE]],
           pipe' = [pipe EXCEPT ![x] = NewPipe],
           ofile' = [ofile EXCEPT ![p] = [@ EXCEPT ![d] = r, ![e] = w]],
           UNCHANGED <<run, left, on, chan, killed>>
    PROVE  PipeInv'
<1>1. /\ file \in [File -> FileStates] /\ ofile \in [Procs -> [Fd -> File \cup {None}]]
      /\ pipe \in [Pipes -> PipeStates]
  BY DEF PipeInv, TypeOK, FileStates, PipeStates
<1>2. /\ file' \in [File -> FileStates]
      /\ \A g \in File : g # r /\ g # w => file'[g] = file[g]
      /\ file'[r].ref = 1 /\ file'[r].pipe = x /\ file'[r].writable = FALSE
      /\ file'[w].ref = 1 /\ file'[w].pipe = x /\ file'[w].writable = TRUE
  <2>1. /\ [ref |-> 1, pipe |-> x, writable |-> FALSE] \in FileStates
        /\ [ref |-> 1, pipe |-> x, writable |-> TRUE] \in FileStates
    BY DEF FileStates
  <2>2. file' \in [File -> FileStates]
    BY <1>1, <2>1
  <2> QED
    BY <1>1, <2>2
<1>3. /\ ofile' \in [Procs -> [Fd -> File \cup {None}]]
      /\ \A q \in Procs, i \in Fd : ofile'[q][i] =
           IF q = p /\ i = d THEN r ELSE IF q = p /\ i = e THEN w ELSE ofile[q][i]
  BY <1>1
<1>4. /\ pipe' \in [Pipes -> PipeStates] /\ pipe'[x] = NewPipe
      /\ \A y \in Pipes : y # x => pipe'[y] = pipe[y]
  BY <1>1, Pages
<1>5. TypeOK' /\ KilledFlags'
  BY <1>2, <1>3, <1>4 DEF PipeInv, TypeOK, KilledFlags, FileStates, PipeStates
<1>6. \A q \in Procs, i \in Fd : ofile[q][i] # r /\ ofile[q][i] # w
  BY FreeUnheld
<1>7. RefsExact'
  <2>1. ASSUME NEW g \in File, g # r, g # w
        PROVE  file'[g].ref = Cardinality(Descriptors(g)')
    <3>1. Descriptors(g)' = Descriptors(g)
      BY <1>3, <2>1, Sizes0 DEF Descriptors
    <3> QED
      BY <1>2, <2>1, <3>1 DEF PipeInv, RefsExact
  <2>2. Descriptors(r)' = {<<p, d>>}
    BY <1>3, <1>6 DEF Descriptors
  <2>3. Descriptors(w)' = {<<p, e>>}
    BY <1>3, <1>6 DEF Descriptors
  <2>4. /\ file'[r].ref = Cardinality(Descriptors(r)')
        /\ file'[w].ref = Cardinality(Descriptors(w)')
    <3>1. Cardinality({<<p, d>>}) = 1 /\ Cardinality({<<p, e>>}) = 1
      BY FS_Singleton
    <3> QED
      BY <1>2, <2>2, <2>3, <3>1
  <2> QED
    BY <2>1, <2>4 DEF RefsExact
<1>8. \A g \in File, y \in Pipes, s \in Side :
        IsEnd(g, y, s)' <=> \/ IsEnd(g, y, s)
                            \/ g = r /\ y = x /\ s = 0
                            \/ g = w /\ y = x /\ s = 1
  <2>1. \A g \in File : \A y, s : g # r /\ g # w => (IsEnd(g, y, s)' <=> IsEnd(g, y, s))
    BY <1>2 DEF IsEnd, SideOf
  <2>2. \A y, s : IsEnd(r, y, s)' <=> y = x /\ s = 0
    BY <1>2 DEF IsEnd, SideOf
  <2>3. \A y, s : IsEnd(w, y, s)' <=> y = x /\ s = 1
    BY <1>2 DEF IsEnd, SideOf
  <2>4. \A y, s : ~IsEnd(r, y, s) /\ ~IsEnd(w, y, s)
    BY DEF IsEnd
  <2> QED
    BY <2>1, <2>2, <2>3, <2>4
<1>9. \A q \in Procs : \A y, s : Closes(q, y, s)' <=> Closes(q, y, s)
  BY DEF Closes
<1>10. \A y \in Pipes, s \in Side : OpenEnd(y, s)' <=> OpenEnd(y, s) \/ y = x
  BY <1>4, Pages DEF OpenEnd
<1>11. \A s \in Side : ~OpenEnd(x, s)
  BY DEF OpenEnd, Open
<1>12. \A s \in Side : /\ \A g \in File : ~IsEnd(g, x, s)
                       /\ \A q \in Procs : ~Closes(q, x, s)
  BY <1>11 DEF PipeInv, EndsOpen
<1>13. EndsUnique'
  <2>1. \A g \in File : file'[g].ref > 0 => file'[g].pipe \in Pipes
    BY <1>2 DEF PipeInv, EndsUnique
  <2>2. \A g, h \in File, y \in Pipes, s \in Side :
          IsEnd(g, y, s)' /\ IsEnd(h, y, s)' => g = h
    BY <1>8, <1>12 DEF PipeInv, EndsUnique
  <2>3. \A q, v \in Procs, y \in Pipes, s \in Side :
          Closes(q, y, s)' /\ Closes(v, y, s)' => q = v
    BY <1>9 DEF PipeInv, EndsUnique
  <2>4. \A g \in File, q \in Procs, y \in Pipes, s \in Side :
          ~(IsEnd(g, y, s)' /\ Closes(q, y, s)')
    BY <1>8, <1>9, <1>12 DEF PipeInv, EndsUnique
  <2> QED
    BY <2>1, <2>2, <2>3, <2>4 DEF EndsUnique
<1>14. EndsOpen'
  <2> SUFFICES ASSUME NEW y \in Pipes, NEW s \in Side
               PROVE  OpenEnd(y, s)' <=> \/ \E f \in File : IsEnd(f, y, s)'
                                         \/ \E q \in Procs : Closes(q, y, s)'
    BY DEF EndsOpen
  <2>1. CASE y = x
    BY <1>8, <1>10, <2>1 DEF Side
  <2>2. CASE y # x
    BY <1>8, <1>9, <1>10, <2>2 DEF PipeInv, EndsOpen
  <2> QED
    BY <2>1, <2>2
<1>15. ASSUME NEW q \in Procs, NEW y \in Pipes, NEW s \in Side, Holds(q, y, s)
       PROVE  Holds(q, y, s)'
  <2>1. PICK i \in Fd : ofile[q][i] # None /\ IsEnd(ofile[q][i], y, s)
    BY <1>15 DEF Holds
  <2>2. PICK g \in File : g = ofile[q][i] /\ ofile'[q][i] = g
    BY <1>3, <2>1, HeldRef
  <2>3. IsEnd(g, y, s)'
    BY <1>8, <2>1, <2>2
  <2> QED
    BY <2>1, <2>2, <2>3 DEF Holds
<1>16. CallsPlaced'
  <2>1. \A q \in Procs : run[q] = "unused" => \A i \in Fd : ofile'[q][i] = None
    BY <1>3 DEF PipeInv, CallsPlaced
  <2>2. UNCHANGED <<run, left, on, chan>> /\ 0 \in Side /\ 1 \in Side
    BY DEF Side
  <2> QED
    BY <1>15, <2>1, <2>2 DEF PipeInv, CallsPlaced
<1>17. RingBound'
  <2>1. \A y \in Pipes : y # x => Count(y)' = Count(y)
    BY <1>4 DEF Count
  <2>2. Count(x)' = 0
    BY <1>4, Pages DEF Count
  <2> QED
    BY <2>1, <2>2 DEF PipeInv, RingBound, PipeConstants
<1>18. PipeNoLostWakeup'
  <2>1. \A q \in Procs : chan[q] # "run" => on[q] \in Pipes /\ on[q] # x
    BY DEF PipeInv, TypeOK, CallsPlaced, PipeNoLostWakeup, Open
  <2>2. \A y \in Pipes : y # x => /\ pipe'[y] = pipe[y] /\ Count(y)' = Count(y)
                                  /\ Full(y)' <=> Full(y)
    BY <1>4 DEF Count, Full
  <2> QED
    BY <2>1, <2>2 DEF PipeInv, PipeNoLostWakeup
<1>19. AboutToSleep'
  <2>1. \A q \in Procs : run[q] \in {"rsleep", "wsleep"} => on[q] \in Pipes /\ on[q] # x
    BY DEF PipeInv, CallsPlaced, AboutToSleep, Open
  <2>2. \A y \in Pipes : y # x => /\ pipe'[y] = pipe[y] /\ Count(y)' = Count(y)
                                  /\ Full(y)' <=> Full(y)
    BY <1>4 DEF Count, Full
  <2> QED
    BY <2>1, <2>2 DEF PipeInv, AboutToSleep
<1> QED
  BY <1>5, <1>7, <1>13, <1>14, <1>16, <1>17, <1>18, <1>19 DEF PipeInv

(* pipe() makes a whole pipe or nothing.                                   *)
LEMMA PipeKeeps ==
    ASSUME PipeConstants, PipeInv, NEW p \in Procs, sys_pipe(p)
    PROVE  PipeInv'
<1>1. run[p] = "user" /\ UNCHANGED <<run, left, on, chan, killed>>
  BY DEF sys_pipe, Runs
<1>2. CASE /\ Cardinality(FreeFiles) >= 2 /\ Cardinality(FreeFds(p)) >= 2
           /\ \E x \in Pipes : ~Open(x)
  <2>1. /\ FreeFiles \subseteq Nat /\ FreeFds(p) \subseteq Nat
        /\ IsFiniteSet(FreeFiles) /\ IsFiniteSet(FreeFds(p))
    <3>1. /\ IsFiniteSet(File) /\ IsFiniteSet(Fd)
      BY FS_Interval DEF PipeConstants, File, Fd
    <3>2. FreeFiles \in SUBSET File /\ FreeFds(p) \in SUBSET Fd
      BY DEF FreeFiles, FreeFds
    <3> QED
      BY <3>1, <3>2, FS_Subset, Sizes0
  <2>2. \A z : /\ FreeFiles # {} /\ FreeFiles \ {z} # {}
               /\ FreeFds(p) # {} /\ FreeFds(p) \ {z} # {}
    BY <1>2, <2>1, TwoFound
  <2>3. PICK r \in FreeFiles : r = Min(FreeFiles)
    BY <2>1, <2>2, MinFound
  <2>4. PICK w \in FreeFiles \ {r} : w = Min(FreeFiles \ {r})
    <3>1. FreeFiles \ {r} \subseteq Nat
      BY <2>1
    <3> QED
      BY <2>2, <3>1, MinFound
  <2>5. PICK d \in FreeFds(p) : d = Min(FreeFds(p))
    BY <2>1, <2>2, MinFound
  <2>6. PICK e \in FreeFds(p) \ {d} : e = Min(FreeFds(p) \ {d})
    <3>1. FreeFds(p) \ {d} \subseteq Nat
      BY <2>1
    <3> QED
      BY <2>2, <3>1, MinFound
  <2>7. PICK x \in Pipes : ~Open(x) /\ x = Min({y \in Pipes : ~Open(y)})
    <3>1. PICK S : S = {y \in Pipes : ~Open(y)}
      OBVIOUS
    <3>2. S \subseteq Nat /\ S # {}
      BY <1>2, <3>1, Sizes0
    <3>3. Min(S) \in S
      BY <3>2, MinFound
    <3> QED
      BY <3>1, <3>3
  <2>8. /\ file' = [file EXCEPT ![r] = [ref |-> 1, pipe |-> x, writable |-> FALSE],
                                ![w] = [ref |-> 1, pipe |-> x, writable |-> TRUE]]
        /\ pipe' = [pipe EXCEPT ![x] = NewPipe]
        /\ ofile' = [ofile EXCEPT ![p] = [@ EXCEPT ![d] = r, ![e] = w]]
    BY <1>2, <2>3, <2>4, <2>5, <2>6, <2>7 DEF sys_pipe
  <2>9. /\ r \in File /\ w \in File /\ r # w /\ file[r].ref = 0 /\ file[w].ref = 0
        /\ d \in Fd /\ e \in Fd /\ d # e /\ ofile[p][d] = None /\ ofile[p][e] = None
    BY <2>3, <2>4, <2>5, <2>6 DEF FreeFiles, FreeFds
  <2> QED
    BY <1>1, <2>7, <2>8, <2>9, NewPipeKeeps
<1>3. CASE ~(/\ Cardinality(FreeFiles) >= 2 /\ Cardinality(FreeFds(p)) >= 2
             /\ \E x \in Pipes : ~Open(x))
  <2>1. UNCHANGED <<file, pipe, ofile>>
    BY <1>3 DEF sys_pipe
  <2>2. TypeOK' /\ KilledFlags'
    BY <1>1, <2>1 DEF PipeInv, TypeOK, KilledFlags
  <2>3. CallsPlaced'
    BY <1>1, <2>1, FilesKept DEF PipeInv, CallsPlaced
  <2>4. \A q \in Procs, x \in Pipes, s \in Side : Closes(q, x, s)' <=> Closes(q, x, s)
    BY <1>1 DEF Closes
  <2> QED
    BY <1>1, <2>1, <2>2, <2>3, <2>4, MoveKeeps
<1> QED
  BY <1>2, <1>3

----------------------------------------------------------------------------
(* Reading and writing.                                                    *)

(* The call found nothing to do and goes to sleep, the lock in its hands.  *)
Pauses(p) ==
    /\ run' = [run EXCEPT ![p] = IF run[p] = "write" THEN "wsleep" ELSE "rsleep"]
    /\ on' = on /\ left' \in [Procs -> Nat]
    /\ \A q \in Procs : q # p => left'[q] = left[q]

(* A call does not do both.                                                *)
LEMMA ReturnsOrPauses ==
    ASSUME PipeInv, NEW p \in Procs, Return(p)
    PROVE  ~Pauses(p)
BY DEF Return, Pauses, PipeInv, TypeOK

(* A call that returns from its pipe, or pauses.                           *)
LEMMA ReturnFacts ==
    ASSUME PipeConstants, PipeInv, NEW p \in Procs, run[p] \in {"read", "write"},
           Return(p) \/ Pauses(p), UNCHANGED <<file, ofile, killed>>,
           chan' \in [Procs -> {"run", "nread", "nwrite"}], chan'[p] = "run",
           \A q \in Procs : chan'[q] = chan[q] \/ chan'[q] = "run"
    PROVE  /\ run' \in [Procs -> RunStates]
           /\ on' \in [Procs -> Pipes \cup {None}] /\ left' \in [Procs -> Nat]
           /\ KilledFlags' /\ CallsPlaced'
           /\ \A q \in Procs : q # p => run'[q] = run[q] /\ on'[q] = on[q]
           /\ \A q \in Procs, y \in Pipes, s \in Side :
                Closes(q, y, s)' <=> Closes(q, y, s)
<1>1. /\ run \in [Procs -> RunStates]
      /\ on \in [Procs -> Pipes \cup {None}] /\ left \in [Procs -> Nat]
  BY DEF PipeInv, TypeOK
<1>2. /\ run' \in [Procs -> RunStates]
      /\ on' \in [Procs -> Pipes \cup {None}] /\ left' \in [Procs -> Nat]
      /\ \A q \in Procs : q # p => /\ run'[q] = run[q] /\ on'[q] = on[q]
                                   /\ left'[q] = left[q]
      /\ \/ run[p] = "read" /\ run'[p] = "rsleep" /\ on'[p] = on[p]
         \/ run[p] = "write" /\ run'[p] = "wsleep" /\ on'[p] = on[p]
         \/ run'[p] = "user" /\ on'[p] = None
  <2>1. CASE Return(p)
    BY <1>1, <2>1 DEF Return, RunStates
  <2>2. CASE Pauses(p)
    BY <1>1, <2>2 DEF Pauses, RunStates
  <2> QED
    BY <2>1, <2>2
<1>3. KilledFlags'
  BY DEF PipeInv, KilledFlags
<1>4. CallsPlaced'
  <2>1. \A q, y, s : Holds(q, y, s)' <=> Holds(q, y, s)
    BY FilesKept
  <2>2. ofile' = ofile
    OBVIOUS
  <2> QED
    BY <1>2, <2>1, <2>2 DEF PipeInv, CallsPlaced
<1>5. \A q \in Procs, y \in Pipes, s \in Side : Closes(q, y, s)' <=> Closes(q, y, s)
  BY <1>2 DEF Closes
<1> QED
  BY <1>2, <1>3, <1>4, <1>5

(* The counters of the pipe a call works on.                               *)
LEMMA RingFacts ==
    ASSUME PipeConstants, PipeInv, NEW x \in Pipes
    PROVE  /\ pipe \in [Pipes -> PipeStates] /\ pipe[x] \in PipeStates
           /\ pipe[x].nread \in 0..(W - 1) /\ pipe[x].nwrite \in 0..(W - 1)
           /\ Count(x) \in Nat /\ Count(x) <= PIPESIZE /\ Space(x) \in Nat
           /\ Full(x) <=> Count(x) = PIPESIZE
           /\ pipe[x].nwrite = pipe[x].nread <=> Count(x) = 0
<1>1. pipe \in [Pipes -> PipeStates] /\ pipe[x] \in PipeStates
  BY DEF PipeInv, TypeOK, PipeStates
<1>2. pipe[x].nread \in 0..(W - 1) /\ pipe[x].nwrite \in 0..(W - 1)
  BY <1>1 DEF PipeStates
<1>3. PICK a \in 0..(W - 1), b \in 0..(W - 1) : a = pipe[x].nwrite /\ b = pipe[x].nread
  BY <1>2
<1>4. W \in Nat /\ PIPESIZE \in Nat /\ PIPESIZE < W
  BY DEF PipeConstants
<1>5. Count(x) = (a - b) % W /\ (a - b) % W <= PIPESIZE
  BY <1>3 DEF PipeInv, RingBound, Count
<1>6. /\ (a - b) % W \in 0..PIPESIZE
      /\ a = (b + PIPESIZE) % W <=> (a - b) % W = PIPESIZE
      /\ a = b <=> (a - b) % W = 0
  BY <1>4, <1>5, RingCount
<1>7. Count(x) \in Nat /\ Count(x) <= PIPESIZE /\ Space(x) \in Nat
  BY <1>4, <1>5, <1>6 DEF Space
<1>8. Full(x) <=> Count(x) = PIPESIZE
  BY <1>3, <1>5, <1>6 DEF Full
<1>9. pipe[x].nwrite = pipe[x].nread <=> Count(x) = 0
  BY <1>3, <1>5, <1>6
<1> QED
  BY <1>1, <1>2, <1>7, <1>8, <1>9

(* The counters after k bytes were put in.                                 *)
LEMMA PutFacts ==
    ASSUME PipeConstants, PipeInv, NEW x \in Pipes, NEW k \in Nat, k <= Space(x)
    PROVE  /\ (pipe[x].nwrite + k) % W \in 0..(W - 1)
           /\ (((pipe[x].nwrite + k) % W) - pipe[x].nread) % W = Count(x) + k
<1>1. PICK a \in 0..(W - 1), b \in 0..(W - 1) : a = pipe[x].nwrite /\ b = pipe[x].nread
  BY RingFacts
<1>2. W \in Nat /\ PIPESIZE \in Nat /\ PIPESIZE < W
  BY DEF PipeConstants
<1>3. Count(x) = (a - b) % W /\ (a - b) % W \in Nat
  BY <1>1, RingFacts DEF Count
<1>4. ((a - b) % W) + k <= PIPESIZE
  BY <1>2, <1>3 DEF Space
<1>5. /\ (a + k) % W \in 0..(W - 1)
      /\ (((a + k) % W) - b) % W = ((a - b) % W) + k
  BY <1>2, <1>4, RingPut
<1> QED
  BY <1>1, <1>3, <1>5

(* The counters after k bytes were taken.                                  *)
LEMMA GetFacts ==
    ASSUME PipeConstants, PipeInv, NEW x \in Pipes, NEW k \in Nat, k <= Count(x)
    PROVE  /\ (pipe[x].nread + k) % W \in 0..(W - 1)
           /\ (pipe[x].nwrite - ((pipe[x].nread + k) % W)) % W = Count(x) - k
<1>1. PICK a \in 0..(W - 1), b \in 0..(W - 1) : a = pipe[x].nwrite /\ b = pipe[x].nread
  BY RingFacts
<1>2. W \in Nat /\ PIPESIZE \in Nat /\ PIPESIZE < W
  BY DEF PipeConstants
<1>3. Count(x) = (a - b) % W /\ (a - b) % W <= PIPESIZE
  BY <1>1, RingFacts DEF Count
<1>4. k <= (a - b) % W
  BY <1>3
<1>5. /\ (b + k) % W \in 0..(W - 1)
      /\ (a - ((b + k) % W)) % W = ((a - b) % W) - k
  BY <1>2, <1>3, <1>4, RingGet
<1> QED
  BY <1>1, <1>3, <1>5

(* What piperead and pipewrite keep, given what they do to their pipe and  *)
(* to those who sleep on it.                                               *)
LEMMA TransferKeeps ==
    ASSUME PipeConstants, PipeInv, NEW p \in Procs, run[p] \in {"read", "write"},
           NEW x \in Pipes, x = on[p], ~Locked(x),
           Return(p) \/ Pauses(p), UNCHANGED <<file, ofile, killed>>,
           pipe' \in [Pipes -> PipeStates],
           \A y \in Pipes : y # x => pipe'[y] = pipe[y],
           pipe'[x].readopen = pipe[x].readopen, pipe'[x].writeopen = pipe[x].writeopen,
           \A y : y = x => Count(y)' <= PIPESIZE,
           chan' \in [Procs -> {"run", "nread", "nwrite"}], chan'[p] = "run",
           \A q \in Procs : chan'[q] = chan[q] \/ chan'[q] = "run",
           \A q \in Procs : \A y : y = x /\ on'[q] = x /\ chan'[q] = "nread" =>
               (Count(y)' = 0 \/ pipe'[x].owed) /\ pipe'[x].writeopen,
           \A q \in Procs : \A y : y = x /\ on'[q] = x /\ chan'[q] = "nwrite" =>
               Full(y)' /\ pipe'[x].readopen,
           \A y : y = x /\ Pauses(p) /\ run[p] = "read" => Count(y)' = 0 /\ pipe'[x].writeopen,
           \A y : y = x /\ Pauses(p) /\ run[p] = "write" => Full(y)' /\ pipe'[x].readopen
    PROVE  PipeInv'
<1>1. /\ run' \in [Procs -> RunStates]
      /\ on' \in [Procs -> Pipes \cup {None}] /\ left' \in [Procs -> Nat]
      /\ KilledFlags' /\ CallsPlaced'
      /\ \A q \in Procs : q # p => run'[q] = run[q] /\ on'[q] = on[q]
      /\ \A q \in Procs, y \in Pipes, s \in Side : Closes(q, y, s)' <=> Closes(q, y, s)
  BY ReturnFacts
<1>2. TypeOK'
  BY <1>1 DEF PipeInv, TypeOK, PipeStates
<1>3. RefsExact' /\ EndsUnique' /\ EndsOpen'
  <2>1. \A y \in Pipes, s \in Side : OpenEnd(y, s)' <=> OpenEnd(y, s)
    BY DEF OpenEnd
  <2> QED
    BY <1>1, <2>1, FilesKept, EndsKept
<1>4. \A y \in Pipes : y # x => /\ pipe'[y] = pipe[y] /\ Count(y)' = Count(y)
                                /\ Full(y)' <=> Full(y)
  BY DEF Count, Full
<1>5. RingBound'
  BY <1>4 DEF PipeInv, RingBound
<1>6. PipeNoLostWakeup'
  <2> SUFFICES ASSUME NEW q \in Procs, NEW z, z = on'[q]
               PROVE  /\ chan'[q] = "nread" => /\ Count(z)' = 0 \/ pipe'[z].owed
                                               /\ pipe'[z].writeopen
                      /\ chan'[q] = "nwrite" => Full(z)' /\ pipe'[z].readopen
    BY DEF PipeNoLostWakeup
  <2>2. ASSUME z # x, chan'[q] # "run"
        PROVE  z = on[q] /\ z \in Pipes /\ chan'[q] = chan[q]
    <3>1. q # p /\ z = on[q] /\ chan'[q] = chan[q] /\ chan[q] \in {"nread", "nwrite"}
      BY <1>1, <2>2
    <3> QED
      BY <3>1 DEF PipeInv, CallsPlaced
  <2>3. CASE z # x
    BY <1>4, <2>2, <2>3 DEF PipeInv, PipeNoLostWakeup
  <2>4. CASE z = x
    BY <2>4
  <2> QED
    BY <2>3, <2>4
<1>7. AboutToSleep'
  <2> SUFFICES ASSUME NEW q \in Procs, NEW z, z = on'[q]
               PROVE  /\ run'[q] = "rsleep" => Count(z)' = 0 /\ pipe'[z].writeopen
                      /\ run'[q] = "wsleep" => Full(z)' /\ pipe'[z].readopen
    BY DEF AboutToSleep
  <2>1. CASE q # p
    <3>1. run'[q] = run[q] /\ z = on[q]
      BY <1>1, <2>1
    <3>2. run[q] \in {"rsleep", "wsleep"} => z \in Pipes /\ z # x
      BY <3>1 DEF Locked, PipeInv, CallsPlaced
    <3> QED
      BY <1>4, <3>1, <3>2 DEF PipeInv, AboutToSleep
  <2>2. CASE q = p
    <3>1. CASE Return(p)
      BY <2>2, <3>1 DEF Return, PipeInv, TypeOK
    <3>2. CASE Pauses(p)
      <4>1. z = x
        BY <2>2, <3>2 DEF Pauses
      <4>2. run'[p] = IF run[p] = "write" THEN "wsleep" ELSE "rsleep"
        BY <3>2 DEF Pauses, PipeInv, TypeOK
      <4> QED
        BY <2>2, <3>2, <4>1, <4>2
    <3> QED
      BY <3>1, <3>2
  <2> QED
    BY <2>1, <2>2
<1> QED
  BY <1>1, <1>2, <1>3, <1>5, <1>6, <1>7 DEF PipeInv

(* The pipe after bytes were put in.                                       *)
LEMMA PutState ==
    ASSUME PipeConstants, PipeInv, NEW x \in Pipes, NEW k \in Nat, k <= Space(x)
    PROVE  /\ Put(x, k) \in PipeStates
           /\ Put(x, k).nread = pipe[x].nread
           /\ Put(x, k).nwrite = (pipe[x].nwrite + k) % W
           /\ Put(x, k).readopen = pipe[x].readopen
           /\ Put(x, k).writeopen = pipe[x].writeopen
<1>1. pipe[x] \in PipeStates /\ pipe[x].nwrite \in 0..(W - 1)
  BY RingFacts
<1>2. PICK n \in 0..(W - 1) : n = (pipe[x].nwrite + k) % W
  BY PutFacts
<1>3. PICK D : D = [i \in 0..(PIPESIZE - 1) |->
                 IF \E j \in 0..(k - 1) : i = ((pipe[x].nwrite + j) % W) % PIPESIZE
                 THEN (pipe[x].nwrite + CHOOSE j \in 0..(k - 1) :
                                    i = ((pipe[x].nwrite + j) % W) % PIPESIZE) % W
                 ELSE pipe[x].data[i]]
  OBVIOUS
<1>4. D \in [0..(PIPESIZE - 1) -> 0..(W - 1)]
  <2>1. ASSUME NEW i \in 0..(PIPESIZE - 1) PROVE D[i] \in 0..(W - 1)
    <3>1. CASE \E j \in 0..(k - 1) : i = ((pipe[x].nwrite + j) % W) % PIPESIZE
      <4>1. PICK c \in 0..(k - 1) : D[i] = (pipe[x].nwrite + c) % W
        BY <1>3, <3>1
      <4>2. c \in Nat /\ W \in Nat \ {0} /\ pipe[x].nwrite \in Nat
        BY <1>1, Sizes0
      <4>3. (pipe[x].nwrite + c) % W \in 0..(W - 1)
        BY <4>2
      <4> QED
        BY <4>1, <4>3
    <3>2. CASE ~ \E j \in 0..(k - 1) : i = ((pipe[x].nwrite + j) % W) % PIPESIZE
      <4>1. D[i] = pipe[x].data[i]
        BY <1>3, <3>2
      <4> QED
        BY <1>1, <4>1 DEF PipeStates
    <3> QED
      BY <3>1, <3>2
  <2> QED
    BY <1>3, <2>1
<1>5. Put(x, k) = [pipe[x] EXCEPT !.nwrite = n, !.data = D]
  BY <1>2, <1>3 DEF Put
<1>6. /\ Put(x, k) \in PipeStates
      /\ Put(x, k).nread = pipe[x].nread /\ Put(x, k).nwrite = n
      /\ Put(x, k).readopen = pipe[x].readopen /\ Put(x, k).writeopen = pipe[x].writeopen
  BY <1>1, <1>2, <1>4, <1>5 DEF PipeStates
<1> QED
  BY <1>2, <1>6

(* A writer fills the pipe and returns or sleeps.                          *)
LEMMA WriteKeeps ==
    ASSUME PipeConstants, PipeInv, NEW p \in Procs, pipewrite(p)
    PROVE  PipeInv'
<1>1. run[p] = "write" /\ chan[p] = "run" /\ UNCHANGED <<file, ofile, killed>>
  BY DEF pipewrite, Runs
<1>2. PICK x \in Pipes : x = on[p] /\ ~Locked(x)
  BY <1>1 DEF PipeInv, CallsPlaced, pipewrite
<1>3. left[p] \in Nat /\ Space(x) \in Nat
  BY RingFacts DEF PipeInv, TypeOK
<1>4. PICK k \in Nat : k = Min({left[p], Space(x)})
  BY <1>3, MinPair
<1>5. k <= Space(x) /\ k <= left[p] /\ (left[p] > k => k = Space(x))
  BY <1>3, <1>4, MinPair
<1>6. PICK o \in BOOLEAN : o <=> left[p] > k /\ (~pipe[x].readopen \/ killed[p])
  <2>1. (left[p] > k /\ (~pipe[x].readopen \/ killed[p])) \in BOOLEAN
    BY <1>3
  <2> QED
    BY <2>1
<1>7. pipe' = [pipe EXCEPT ![x] = [Put(x, k) EXCEPT !.owed =
                 left[p] > k /\ (~pipe[x].readopen \/ killed[p])]]
  BY <1>2, <1>4 DEF pipewrite
<1>8. pipe' = [pipe EXCEPT ![x] = [Put(x, k) EXCEPT !.owed = o]]
  <2>1. o = (left[p] > k /\ (~pipe[x].readopen \/ killed[p]))
    BY <1>3, <1>6
  <2> QED
    BY <1>7, <2>1, Zenon
<1>9. PICK r : r = [Put(x, k) EXCEPT !.owed = o]
  OBVIOUS
<1>10. /\ r \in PipeStates
       /\ r.nread = pipe[x].nread /\ r.nwrite = (pipe[x].nwrite + k) % W
       /\ r.readopen = pipe[x].readopen /\ r.writeopen = pipe[x].writeopen
       /\ r.owed = o
  <2>1. PICK t \in PipeStates : /\ t = Put(x, k) /\ t.nread = pipe[x].nread
                                 /\ t.nwrite = (pipe[x].nwrite + k) % W
                                 /\ t.readopen = pipe[x].readopen
                                 /\ t.writeopen = pipe[x].writeopen
    BY <1>5, PutState
  <2>2. r = [t EXCEPT !.owed = o]
    BY <1>9, <2>1
  <2>3. /\ r \in PipeStates /\ r.nread = t.nread /\ r.nwrite = t.nwrite
        /\ r.readopen = t.readopen /\ r.writeopen = t.writeopen /\ r.owed = o
    BY <2>2 DEF PipeStates
  <2> QED
    BY <2>1, <2>3
<1>11. pipe \in [Pipes -> PipeStates]
  BY RingFacts
<1>12. /\ pipe' \in [Pipes -> PipeStates] /\ pipe'[x] = r
       /\ \A y \in Pipes : y # x => pipe'[y] = pipe[y]
  BY <1>8, <1>9, <1>10, <1>11
<1>13. Count(x)' = Count(x) + k /\ Count(x) \in Nat /\ Count(x) + k <= PIPESIZE
  <2>1. (((pipe[x].nwrite + k) % W) - pipe[x].nread) % W = Count(x) + k
    BY <1>5, PutFacts
  <2>2. Count(x) \in Nat /\ PIPESIZE \in Nat
    BY RingFacts, Sizes0
  <2>3. Count(x) + k <= PIPESIZE
    BY <1>5, <2>2 DEF Space
  <2> QED
    BY <1>10, <1>12, <2>1, <2>2, <2>3 DEF Count
<1>14. left[p] > k => Full(x)'
  <2>1. left[p] > k => Count(x)' = PIPESIZE
    BY <1>5, <1>13, Sizes0 DEF Space
  <2>2. /\ pipe'[x].nread \in 0..(W - 1) /\ pipe'[x].nwrite \in 0..(W - 1)
    BY <1>10, <1>12 DEF PipeStates
  <2>3. PICK a \in 0..(W - 1), b \in 0..(W - 1) :
          a = pipe'[x].nwrite /\ b = pipe'[x].nread
    BY <2>2
  <2>4. W \in Nat /\ PIPESIZE \in Nat /\ PIPESIZE < W
    BY DEF PipeConstants
  <2>5. (a - b) % W = Count(x)' /\ (a - b) % W <= PIPESIZE
    BY <1>13, <2>3 DEF Count
  <2>6. a = (b + PIPESIZE) % W <=> (a - b) % W = PIPESIZE
    BY <2>4, <2>5, RingCount
  <2> QED
    BY <2>1, <2>3, <2>5, <2>6 DEF Full
<1>15. Woken(x, "nread") \in [Procs -> {"run", "nread", "nwrite"}]
       /\ \A q \in Procs : Woken(x, "nread")[q] =
            IF on[q] = x /\ chan[q] = "nread" THEN "run" ELSE chan[q]
  BY DEF Woken, PipeInv, TypeOK
<1>16. \A q \in Procs : on[q] = x /\ chan[q] = "nwrite" =>
         Full(x) /\ pipe[x].readopen
  BY DEF PipeInv, PipeNoLostWakeup
<1>17. Full(x) => Full(x)'
  <2>1. Full(x) => k = 0
    BY <1>5, Sizes0, RingFacts DEF Space
  <2>2. ASSUME k = 0 PROVE (pipe[x].nwrite + k) % W = pipe[x].nwrite
    <3>1. W \in Nat /\ pipe[x].nwrite \in 0..(W - 1)
      BY Sizes0, RingFacts
    <3> QED
      BY <2>2, <3>1
  <2> QED
    BY <1>10, <1>12, <2>1, <2>2 DEF Full
<1>18. /\ \A y : y = x => Count(y)' <= PIPESIZE
       /\ pipe'[x].readopen = pipe[x].readopen /\ pipe'[x].writeopen = pipe[x].writeopen
       /\ pipe'[x].owed = o
  BY <1>10, <1>12, <1>13, Sizes0
<1>19. chan \in [Procs -> {"run", "nread", "nwrite"}]
  BY DEF PipeInv, TypeOK
<1>20. CASE left[p] = k /\ Return(p) /\ chan' = Woken(x, "nread")
  <2>1. chan'[p] = "run" /\ \A q \in Procs : on'[q] = x => on[q] = x
    BY <1>1, <1>2, <1>15, <1>20, Sizes0 DEF Return, PipeInv, TypeOK
  <2>2. \A q \in Procs : ~(on'[q] = x /\ chan'[q] = "nread")
    BY <1>15, <1>20, <2>1
  <2>3. \A q \in Procs : \A y : y = x /\ on'[q] = x /\ chan'[q] = "nwrite" =>
          Full(y)' /\ pipe'[x].readopen
    BY <1>15, <1>16, <1>17, <1>18, <1>20, <2>1
  <2> QED
    BY <1>1, <1>2, <1>12, <1>15, <1>18, <1>20, <2>1, <2>2, <2>3, ReturnsOrPauses,
       TransferKeeps
<1>21. CASE /\ left[p] > k /\ (~pipe[x].readopen \/ killed[p])
            /\ Return(p) /\ UNCHANGED chan
  <2>1. \A q \in Procs : on'[q] = x => on[q] = x
    BY <1>1, <1>2, <1>21, Sizes0 DEF Return, PipeInv, TypeOK
  <2>2. \A q \in Procs : on[q] = x /\ chan[q] = "nread" => pipe[x].writeopen
    BY DEF PipeInv, PipeNoLostWakeup
  <2>3. o /\ \A q \in Procs : chan'[q] = chan[q]
    BY <1>6, <1>21
  <2>4. \A q \in Procs : \A y : y = x /\ on'[q] = x /\ chan'[q] = "nread" =>
          (Count(y)' = 0 \/ pipe'[x].owed) /\ pipe'[x].writeopen
    BY <1>18, <2>1, <2>2, <2>3
  <2>5. \A q \in Procs : \A y : y = x /\ on'[q] = x /\ chan'[q] = "nwrite" =>
          Full(y)' /\ pipe'[x].readopen
    BY <1>16, <1>17, <1>18, <2>1, <2>3
  <2> QED
    BY <1>1, <1>2, <1>12, <1>18, <1>19, <1>21, <2>3, <2>4, <2>5, ReturnsOrPauses,
       TransferKeeps
<1>22. CASE /\ left[p] > k /\ pipe[x].readopen /\ ~killed[p]
            /\ left' = [left EXCEPT ![p] = @ - k]
            /\ chan' = Woken(x, "nread")
            /\ run' = [run EXCEPT ![p] = "wsleep"] /\ UNCHANGED on
  <2>1. Pauses(p)
    BY <1>1, <1>3, <1>22 DEF Pauses, PipeInv, TypeOK
  <2>2. /\ chan' \in [Procs -> {"run", "nread", "nwrite"}] /\ chan'[p] = "run"
        /\ \A q \in Procs : chan'[q] = Woken(x, "nread")[q]
    BY <1>1, <1>15, <1>22
  <2>3. \A q \in Procs : ~(on'[q] = x /\ chan'[q] = "nread")
    BY <1>15, <1>22, <2>2
  <2>4. Full(x)' /\ pipe'[x].readopen
    BY <1>14, <1>18, <1>22
  <2>5. \A q \in Procs : chan'[q] = chan[q] \/ chan'[q] = "run"
    BY <1>15, <2>2
  <2>6. \A q \in Procs : \A y : y = x /\ on'[q] = x /\ chan'[q] = "nwrite" =>
          Full(y)' /\ pipe'[x].readopen
    BY <2>4
  <2>7. \A y : y = x => Full(y)' /\ pipe'[x].readopen
    BY <2>4
  <2> QED
    BY <1>1, <1>2, <1>12, <1>18, <2>1, <2>2, <2>3, <2>5, <2>6, <2>7, TransferKeeps
<1> QED
  <2>1. \/ left[p] = k /\ Return(p) /\ chan' = Woken(x, "nread")
        \/ /\ left[p] > k /\ (~pipe[x].readopen \/ killed[p])
           /\ Return(p) /\ UNCHANGED chan
        \/ /\ left[p] > k /\ pipe[x].readopen /\ ~killed[p]
           /\ left' = [left EXCEPT ![p] = @ - k]
           /\ chan' = Woken(x, "nread")
           /\ run' = [run EXCEPT ![p] = "wsleep"] /\ UNCHANGED on
    BY <1>2, <1>4 DEF pipewrite
  <2> QED
    BY <1>20, <1>21, <1>22, <2>1

(* A reader takes what is there, sleeps, or finds the pipe closed.         *)
LEMMA ReadKeeps ==
    ASSUME PipeConstants, PipeInv, NEW p \in Procs, piperead(p)
    PROVE  PipeInv'
<1>1. run[p] = "read" /\ chan[p] = "run" /\ UNCHANGED <<file, ofile, killed>>
  BY DEF piperead, Runs
<1>2. PICK x \in Pipes : x = on[p] /\ ~Locked(x)
  BY <1>1 DEF PipeInv, CallsPlaced, piperead
<1>3. /\ pipe \in [Pipes -> PipeStates] /\ pipe[x] \in PipeStates
      /\ Count(x) \in Nat /\ Count(x) <= PIPESIZE
      /\ pipe[x].nwrite = pipe[x].nread <=> Count(x) = 0
  BY RingFacts
<1>4. chan \in [Procs -> {"run", "nread", "nwrite"}]
  BY DEF PipeInv, TypeOK
<1>5. \A q \in Procs : on[q] = x /\ chan[q] = "nread" =>
        (Count(x) = 0 \/ pipe[x].owed) /\ pipe[x].writeopen
  BY DEF PipeInv, PipeNoLostWakeup
<1>6. \A q \in Procs : on[q] = x /\ chan[q] = "nwrite" => Full(x) /\ pipe[x].readopen
  BY DEF PipeInv, PipeNoLostWakeup
<1>7. ASSUME UNCHANGED pipe PROVE /\ \A y : Count(y)' = Count(y) /\ (Full(y)' <=> Full(y))
                                  /\ pipe'[x] = pipe[x] /\ pipe' \in [Pipes -> PipeStates]
                                  /\ \A y \in Pipes : y # x => pipe'[y] = pipe[y]
  BY <1>3, <1>7 DEF Count, Full
<1>8. CASE /\ pipe[x].nread = pipe[x].nwrite /\ pipe[x].writeopen /\ killed[p]
           /\ Return(p) /\ UNCHANGED <<pipe, chan>>
  <2>1. \A q \in Procs : on'[q] = x => on[q] = x
    BY <1>1, <1>2, <1>8, Sizes0 DEF Return, PipeInv, TypeOK
  <2>2. pipe' = pipe /\ chan' = chan
    BY <1>8
  <2>3. \A q \in Procs : \A y : y = x /\ on'[q] = x /\ chan'[q] = "nread" =>
          (Count(y)' = 0 \/ pipe'[x].owed) /\ pipe'[x].writeopen
    BY <1>5, <1>7, <2>1, <2>2
  <2>4. \A q \in Procs : \A y : y = x /\ on'[q] = x /\ chan'[q] = "nwrite" =>
          Full(y)' /\ pipe'[x].readopen
    BY <1>6, <1>7, <2>1, <2>2
  <2>5. \A y : y = x => Count(y)' <= PIPESIZE
    BY <1>3, <1>7, <2>2
  <2> QED
    BY <1>1, <1>2, <1>4, <1>7, <1>8, <2>2, <2>3, <2>4, <2>5, ReturnsOrPauses,
       TransferKeeps
<1>9. CASE /\ pipe[x].nread = pipe[x].nwrite /\ pipe[x].writeopen /\ ~killed[p]
           /\ run' = [run EXCEPT ![p] = "rsleep"] /\ UNCHANGED <<pipe, chan, on, left>>
  <2>1. Pauses(p)
    BY <1>1, <1>9 DEF Pauses, PipeInv, TypeOK
  <2>2. pipe' = pipe /\ chan' = chan /\ on' = on
    BY <1>9
  <2>3. \A q \in Procs : \A y : y = x /\ on'[q] = x /\ chan'[q] = "nread" =>
          (Count(y)' = 0 \/ pipe'[x].owed) /\ pipe'[x].writeopen
    BY <1>5, <1>7, <2>2
  <2>4. \A q \in Procs : \A y : y = x /\ on'[q] = x /\ chan'[q] = "nwrite" =>
          Full(y)' /\ pipe'[x].readopen
    BY <1>6, <1>7, <2>2
  <2>5. \A y : y = x => Count(y)' <= PIPESIZE
    BY <1>3, <1>7, <2>2
  <2>6. \A y : y = x => Count(y)' = 0 /\ pipe'[x].writeopen
    BY <1>3, <1>7, <1>9, <2>2
  <2> QED
    BY <1>1, <1>2, <1>4, <1>7, <2>1, <2>2, <2>3, <2>4, <2>5, <2>6, TransferKeeps
<1>10. CASE /\ pipe' = [pipe EXCEPT ![x].nread = (@ + Min({left[p], Count(x)})) % W]
            /\ Return(p) /\ chan' = Woken(x, "nwrite")
  <2>1. left[p] \in Nat
    BY DEF PipeInv, TypeOK
  <2>2. PICK k \in Nat : k = Min({left[p], Count(x)}) /\ k <= Count(x)
    BY <1>3, <2>1, MinPair
  <2>3. PICK n \in 0..(W - 1) : n = (pipe[x].nread + k) % W
    BY <2>2, GetFacts
  <2>4. pipe' = [pipe EXCEPT ![x] = [pipe[x] EXCEPT !.nread = n]]
    BY <1>10, <2>2, <2>3
  <2>5. PICK r : r = [pipe[x] EXCEPT !.nread = n]
    OBVIOUS
  <2>6. /\ r \in PipeStates /\ r.nread = n /\ r.nwrite = pipe[x].nwrite
        /\ r.readopen = pipe[x].readopen /\ r.writeopen = pipe[x].writeopen
        /\ r.owed = pipe[x].owed
    BY <1>3, <2>5 DEF PipeStates
  <2>7. /\ pipe' \in [Pipes -> PipeStates] /\ pipe'[x] = r
        /\ \A y \in Pipes : y # x => pipe'[y] = pipe[y]
    BY <1>3, <2>4, <2>5, <2>6
  <2>8. Count(x)' = Count(x) - k
    <3>1. (pipe[x].nwrite - ((pipe[x].nread + k) % W)) % W = Count(x) - k
      BY <2>2, GetFacts
    <3>2. Count(x)' = (pipe'[x].nwrite - pipe'[x].nread) % W
      BY DEF Count
    <3>3. pipe'[x].nwrite = pipe[x].nwrite /\ pipe'[x].nread = (pipe[x].nread + k) % W
      BY <2>3, <2>6, <2>7
    <3> QED
      BY <3>1, <3>2, <3>3
  <2>9. /\ chan' \in [Procs -> {"run", "nread", "nwrite"}]
        /\ \A q \in Procs : chan'[q] =
             IF on[q] = x /\ chan[q] = "nwrite" THEN "run" ELSE chan[q]
    BY <1>4, <1>10 DEF Woken
  <2>10. \A q \in Procs : on'[q] = x => on[q] = x
    BY <1>1, <1>2, <1>10, Sizes0 DEF Return, PipeInv, TypeOK
  <2>11. \A q \in Procs : ~(on'[q] = x /\ chan'[q] = "nwrite")
    BY <2>9, <2>10
  <2>12. Count(x) = 0 => Count(x)' = 0
    BY <1>3, <2>2, <2>8
  <2>13. \A q \in Procs : \A y : y = x /\ on'[q] = x /\ chan'[q] = "nread" =>
          (Count(y)' = 0 \/ pipe'[x].owed) /\ pipe'[x].writeopen
    BY <1>5, <2>6, <2>7, <2>9, <2>10, <2>12
  <2>14. \A y : y = x => Count(y)' <= PIPESIZE
    BY <1>3, <2>2, <2>8, Sizes0
  <2>15. /\ pipe'[x].readopen = pipe[x].readopen /\ pipe'[x].writeopen = pipe[x].writeopen
         /\ chan'[p] = "run" /\ \A q \in Procs : chan'[q] = chan[q] \/ chan'[q] = "run"
    BY <1>1, <2>6, <2>7, <2>9
  <2>16. Return(p)
    BY <1>10
  <2> QED
    BY <1>1, <1>2, <2>7, <2>9, <2>11, <2>13, <2>14, <2>15, <2>16, ReturnsOrPauses,
       TransferKeeps
<1> QED
  <2>1. \/ /\ pipe[x].nread = pipe[x].nwrite /\ pipe[x].writeopen /\ killed[p]
           /\ Return(p) /\ UNCHANGED <<pipe, chan>>
        \/ /\ pipe[x].nread = pipe[x].nwrite /\ pipe[x].writeopen /\ ~killed[p]
           /\ run' = [run EXCEPT ![p] = "rsleep"] /\ UNCHANGED <<pipe, chan, on, left>>
        \/ /\ pipe' = [pipe EXCEPT ![x].nread = (@ + Min({left[p], Count(x)})) % W]
           /\ Return(p) /\ chan' = Woken(x, "nwrite")
    BY <1>2 DEF piperead, WokenByRead
  <2> QED
    BY <1>8, <1>9, <1>10, <2>1

----------------------------------------------------------------------------
(* The theorems.                                                           *)

(* Before the first call.                                                  *)
LEMMA PipeInit ==
    ASSUME PipeConstants, Init
    PROVE  PipeInv
<1>1. /\ file = [f \in File |-> Closed] /\ pipe = [x \in Pipes |-> FreePage]
      /\ ofile = [p \in Procs |-> [d \in Fd |-> None]]
      /\ left = [p \in Procs |-> 0] /\ on = [p \in Procs |-> None]
      /\ chan = [p \in Procs |-> "run"] /\ killed = [p \in Procs |-> FALSE]
  BY DEF Init
<1>2. /\ run \in [Procs -> RunStates]
      /\ \A p \in Procs : run[p] \in {"user", "unused"}
  BY DEF Init
<1>3. Closed \in FileStates /\ Closed.ref = 0
  BY DEF Closed, FileStates
<1>4. TypeOK /\ KilledFlags
  <2>1. /\ file \in [File -> FileStates] /\ pipe \in [Pipes -> PipeStates]
    BY <1>1, <1>3, Pages
  <2>2. /\ ofile \in [Procs -> [Fd -> File \cup {None}]]
        /\ chan \in [Procs -> {"run", "nread", "nwrite"}]
        /\ left \in [Procs -> Nat] /\ on \in [Procs -> Pipes \cup {None}]
        /\ killed \in [Procs -> BOOLEAN]
    BY <1>1
  <2> QED
    BY <1>2, <2>1, <2>2 DEF TypeOK, KilledFlags, FileStates, PipeStates
<1>5. CallsPlaced
  BY <1>1, <1>2 DEF CallsPlaced
<1>6. \A f \in File : \A x, s : ~IsEnd(f, x, s)
  BY <1>1, <1>3 DEF IsEnd
<1>7. \A p \in Procs : \A x, s : ~Closes(p, x, s)
  BY <1>2 DEF Closes
<1>8. EndsUnique
  BY <1>1, <1>3, <1>6, <1>7 DEF EndsUnique
<1>9. RefsExact
  <2>1. \A f \in File : Descriptors(f) = {}
    BY <1>1, Sizes0 DEF Descriptors
  <2> QED
    BY <1>1, <1>3, <2>1, FS_EmptySet DEF RefsExact
<1>10. EndsOpen
  BY <1>1, <1>6, <1>7, Pages DEF EndsOpen, OpenEnd
<1>11. RingBound
  <2>1. \A x \in Pipes : Count(x) = 0
    BY <1>1, Pages DEF Count
  <2> QED
    BY <2>1 DEF RingBound, PipeConstants
<1>12. PipeNoLostWakeup
  BY <1>1 DEF PipeNoLostWakeup
<1>13. AboutToSleep
  BY <1>2 DEF AboutToSleep
<1> QED
  BY <1>4, <1>5, <1>8, <1>9, <1>10, <1>11, <1>12, <1>13 DEF PipeInv

(* Every step keeps the invariant.                                         *)
LEMMA PipeNext ==
    ASSUME PipeConstants, PipeInv, [Next]_pvars
    PROVE  PipeInv'
<1>1. CASE UNCHANGED pvars
  <2>1. UNCHANGED <<file, pipe, ofile, run, left, on, chan, killed>>
    BY <1>1 DEF pvars
  <2>2. TypeOK' /\ KilledFlags'
    BY <2>1 DEF PipeInv, TypeOK, KilledFlags
  <2>3. CallsPlaced'
    BY <2>1, FilesKept DEF PipeInv, CallsPlaced
  <2>4. \A q \in Procs, x \in Pipes, s \in Side : Closes(q, x, s)' <=> Closes(q, x, s)
    BY <2>1 DEF Closes
  <2> QED
    BY <2>1, <2>2, <2>3, <2>4, MoveKeeps
<1>2. ASSUME NEW p \in Procs, Call(p) \/ Step(p) \/ kill(p) PROVE PipeInv'
  BY <1>2, PipeKeeps, DupKeeps, ForkKeeps, CloseKeeps, EnterKeeps, KillKeeps, SleepKeeps,
     ExitKeeps, ExitClosesKeeps, PipecloseKeeps, GoneKeeps, WriteKeeps, ReadKeeps
     DEF Call, Step
<1> QED
  BY <1>1, <1>2 DEF Next

(* The file table, the pipes and the calls under way agree in every state. *)
THEOREM PipeCorrect ==
    ASSUME PipeConstants
    PROVE  Spec => []PipeInv
<1>1. Init => PipeInv
  BY PipeInit
<1>2. PipeInv /\ [Next]_pvars => PipeInv'
  BY PipeNext
<1> QED
  BY <1>1, <1>2, PTL DEF Spec

(* References are counted exactly through dup, fork, exit and closes that  *)
(* overlap; an end is open exactly while a file or a close under way       *)
(* stands for it; and no call works on a page that was given back.         *)
THEOREM PipeEndsCorrect ==
    ASSUME PipeConstants
    PROVE  Spec => []PipeEndsExact
<1>1. PipeInv => PipeEndsExact
  <2> SUFFICES ASSUME PipeInv PROVE PipeEndsExact
    OBVIOUS
  <2>1. \A f \in File : file[f].ref = Cardinality(Descriptors(f))
    BY DEF PipeInv, RefsExact
  <2>2. ASSUME NEW x \in Pipes, NEW s \in Side
        PROVE  OpenEnd(x, s) <=> (\E f \in File : IsEnd(f, x, s)) \/ Closing(x, s) # {}
    <3>1. (\E p \in Procs : Closes(p, x, s)) <=> Closing(x, s) # {}
      BY DEF Closes, Closing
    <3> QED
      BY <3>1 DEF PipeInv, EndsOpen
  <2>3. ASSUME NEW x \in Pipes
        PROVE  /\ pipe[x].readopen <=> (\E f \in File : file[f].ref > 0 /\ file[f].pipe = x
                                            /\ ~file[f].writable) \/ Closing(x, 0) # {}
               /\ pipe[x].writeopen <=> (\E f \in File : file[f].ref > 0 /\ file[f].pipe = x
                                            /\ file[f].writable) \/ Closing(x, 1) # {}
    <3>1. \A f : /\ IsEnd(f, x, 0) <=> file[f].ref > 0 /\ file[f].pipe = x
                                         /\ ~file[f].writable
                 /\ IsEnd(f, x, 1) <=> file[f].ref > 0 /\ file[f].pipe = x
                                         /\ file[f].writable
      BY DEF IsEnd, SideOf
    <3>2. (OpenEnd(x, 0) <=> pipe[x].readopen) /\ (OpenEnd(x, 1) <=> pipe[x].writeopen)
      BY DEF OpenEnd
    <3>3. 0 \in Side /\ 1 \in Side
      BY DEF Side
    <3> QED
      BY <2>2, <3>1, <3>2, <3>3
  <2>4. ASSUME NEW p \in Procs, on[p] # None PROVE Open(on[p])
    <3>1. PICK x \in Pipes : x = on[p]
      BY <2>4 DEF PipeInv, TypeOK
    <3>2. \E s \in Side : Holds(p, x, s) \/ Closes(p, x, s)
      <4>1. CASE run[p] \in {"read", "rsleep"}
        BY <3>1, <4>1 DEF PipeInv, CallsPlaced, Side
      <4>2. CASE run[p] \in {"write", "wsleep"}
        BY <3>1, <4>2 DEF PipeInv, CallsPlaced, Side
      <4>3. CASE run[p] \in {"close", "exit"}
        BY <2>4, <3>1, <4>3 DEF PipeInv, CallsPlaced, Closes
      <4> QED
        BY <2>4, <4>1, <4>2, <4>3 DEF PipeInv, CallsPlaced, TypeOK
    <3>3. \E s \in Side : OpenEnd(x, s)
      BY <3>2, HeldOpen
    <3> QED
      BY <3>1, <3>3 DEF OpenEnd, Open
  <2> QED
    BY <2>1, <2>3, <2>4 DEF PipeEndsExact
<1> QED
  BY <1>1, PipeCorrect, PTL

(* Nobody sleeps in piperead or pipewrite through what it waits for, in    *)
(* whatever order reads, writes, closes, exits and kills come; but for     *)
(* the bytes of a killed writer that are owed a wakeup.                    *)
THEOREM PipeWakeupCorrect ==
    ASSUME PipeConstants
    PROVE  Spec => []PipeNoLostWakeup
<1>1. PipeInv => PipeNoLostWakeup
  BY DEF PipeInv
<1> QED
  BY <1>1, PipeCorrect, PTL

----------------------------------------------------------------------------
(* The order of the bytes: remainders first.                               *)

(* Multiples of n that differ by less than n are the same.                 *)
LEMMA Multiples ==
    ASSUME NEW n \in Nat \ {0}, NEW y \in Int, NEW z \in Int,
           n * y - n * z < n, n * z - n * y < n
    PROVE  y = z
<1>1. n * y - n * z = n * (y - z)
  OBVIOUS
<1>2. ASSUME y > z PROVE FALSE
  <2>1. y - z >= 1
    BY <1>2
  <2>2. n * (y - z) >= n
    BY <2>1
  <2> QED
    BY <1>1, <2>2
<1>3. ASSUME z > y PROVE FALSE
  <2>1. z - y >= 1
    BY <1>3
  <2>2. n * (z - y) >= n
    BY <2>1
  <2>3. n * z - n * y = n * (z - y)
    OBVIOUS
  <2> QED
    BY <2>2, <2>3
<1> QED
  BY <1>2, <1>3

(* Quotient and remainder.                                                 *)
LEMMA DivMod ==
    ASSUME NEW n \in Nat \ {0}, NEW c \in Int
    PROVE  \E q \in Int, r \in 0..(n - 1) : c = n * q + r /\ r = c % n
<1>1. c % n \in 0..(n - 1) /\ c \div n \in Int
  OBVIOUS
<1>2. c = n * (c \div n) + (c % n)
  OBVIOUS
<1> QED
  BY <1>1, <1>2

(* The remainder is unique.                                                *)
LEMMA ModUnique ==
    ASSUME NEW n \in Nat \ {0}, NEW c \in Int, NEW z \in Int, NEW r \in 0..(n - 1),
           c = n * z + r
    PROVE  c % n = r
<1>1. PICK q \in Int, s \in 0..(n - 1) : c = n * q + s /\ s = c % n
  BY DivMod
<1>2. PICK Q \in Int, Z \in Int : Q = n * q /\ Z = n * z
  OBVIOUS
<1>3. c = Q + s /\ c = Z + r
  BY <1>1, <1>2
<1>4. Q - Z < n /\ Z - Q < n
  BY <1>3
<1>5. n * q - n * z < n /\ n * z - n * q < n
  BY <1>2, <1>4
<1>6. q = z
  BY <1>5, Multiples
<1>7. Q = Z
  BY <1>2, <1>6
<1>8. r = s
  BY <1>3, <1>7
<1> QED
  BY <1>1, <1>8

(* A counter that wraps at a multiple of n keeps its remainder.            *)
LEMMA ModMod ==
    ASSUME NEW n \in Nat \ {0}, NEW m \in Nat, NEW w \in Nat \ {0}, w = m * n, NEW c \in Int
    PROVE  (c % w) % n = c % n
<1>1. PICK q \in Int, r \in 0..(w - 1) : c = w * q + r /\ r = c % w
  BY DivMod
<1>a. r \in Int
  OBVIOUS
<1>2. PICK u \in Int, s \in 0..(n - 1) : r = n * u + s /\ s = r % n
  BY <1>a, DivMod
<1>3. PICK e \in Int : e = m * q + u
  OBVIOUS
<1>4. PICK A \in Int, B \in Int : A = w * q /\ B = n * u
  OBVIOUS
<1>5. A + B = n * e
  BY <1>3, <1>4
<1>6. c = A + B + s
  <2>1. c = A + r
    BY <1>1, <1>4
  <2>2. r = B + s
    BY <1>2, <1>4
  <2> QED
    BY <2>1, <2>2
<1>7. c = n * e + s
  BY <1>5, <1>6
<1>8. c % n = s
  BY <1>7, ModUnique
<1> QED
  BY <1>1, <1>2, <1>8

(* Numbers less than n apart have different remainders.                    *)
LEMMA ModDiffers ==
    ASSUME NEW n \in Nat \ {0}, NEW a \in Int, NEW b \in Int, a < b, b - a < n
    PROVE  a % n # b % n
<1>1. PICK q \in Int, r \in 0..(n - 1) : a = n * q + r /\ r = a % n
  BY DivMod
<1>2. PICK u \in Int, s \in 0..(n - 1) : b = n * u + s /\ s = b % n
  BY DivMod
<1>3. ASSUME r = s PROVE FALSE
  <2>1. n * q \in Int /\ n * u \in Int /\ n * u - n * q = b - a
    BY <1>1, <1>2, <1>3
  <2>2. n * u - n * q < n /\ n * q - n * u < n
    BY <2>1
  <2>3. q = u
    BY <2>2, Multiples
  <2> QED
    BY <1>1, <1>2, <1>3, <2>3
<1> QED
  BY <1>1, <1>2, <1>3

(* Adding to a counter that has wrapped.                                   *)
LEMMA ModSum ==
    ASSUME NEW w \in Nat \ {0}, NEW c \in Int, NEW j \in Int
    PROVE  ((c % w) + j) % w = (c + j) % w
<1>1. PICK q \in Int, r \in 0..(w - 1) : c = w * q + r /\ r = c % w
  BY DivMod
<1>2. PICK d \in Int : d = r + j
  OBVIOUS
<1>3. PICK u \in Int, s \in 0..(w - 1) : d = w * u + s /\ s = d % w
  BY DivMod
<1>4. PICK e \in Int, z \in Int : e = q + u /\ z = c + j
  OBVIOUS
<1>5. PICK A \in Int, B \in Int : A = w * q /\ B = w * u
  OBVIOUS
<1>6. A + B = w * e
  BY <1>4, <1>5
<1>7. z = A + B + s
  <2>1. c = A + r
    BY <1>1, <1>5
  <2>2. d = B + s
    BY <1>3, <1>5
  <2> QED
    BY <1>2, <1>4, <2>1, <2>2
<1>8. z = w * e + s
  BY <1>6, <1>7
<1>9. z % w = s
  BY <1>8, ModUnique
<1> QED
  BY <1>1, <1>2, <1>3, <1>4, <1>9

(* The i-th byte waiting in pipe x, counted from nread.                    *)
Nth(x, i) == (pipe[x].nread + i) % W

(* The bytes between nread and nwrite are where they were put.             *)
InOrder(x) ==
    \A i \in 0..(Count(x) - 1) : pipe[x].data[Nth(x, i) % PIPESIZE] = Nth(x, i)

(* A pipe whose ring is left alone, or is empty, is in order.              *)
LEMMA OrderKept ==
    ASSUME NEW x, InOrder(x),
           \/ /\ pipe'[x].nread = pipe[x].nread /\ pipe'[x].nwrite = pipe[x].nwrite
              /\ pipe'[x].data = pipe[x].data
           \/ pipe'[x].nread = 0 /\ pipe'[x].nwrite = 0 /\ (0 - 0) % W = 0
    PROVE  InOrder(x)'
<1>1. CASE /\ pipe'[x].nread = pipe[x].nread /\ pipe'[x].nwrite = pipe[x].nwrite
           /\ pipe'[x].data = pipe[x].data
  BY <1>1 DEF InOrder, Nth, Count
<1>2. CASE pipe'[x].nread = 0 /\ pipe'[x].nwrite = 0 /\ (0 - 0) % W = 0
  <2>1. Count(x)' = 0
    BY <1>2 DEF Count
  <2> QED
    BY <2>1 DEF InOrder
<1> QED
  BY <1>1, <1>2

(* The slots of waiting and new bytes are all different.                   *)
LEMMA SlotsDiffer ==
    ASSUME PipeConstants, RingAligned, PipeInv, NEW x \in Pipes,
           NEW i \in Nat, NEW j \in Nat, i < j, j - i < PIPESIZE
    PROVE  Nth(x, i) % PIPESIZE # Nth(x, j) % PIPESIZE
<1>1. PICK m \in Nat : W = m * PIPESIZE
  BY DEF RingAligned
<1>2. PICK b \in Nat : b = pipe[x].nread
  <2>1. pipe[x].nread \in 0..(W - 1) /\ W \in Nat
    BY RingFacts, Sizes0
  <2> QED
    BY <2>1
<1>3. W \in Nat \ {0} /\ PIPESIZE \in Nat \ {0}
  BY DEF PipeConstants
<1>4. PICK y \in Int, z \in Int : y = b + i /\ z = b + j
  OBVIOUS
<1>5. (y % W) % PIPESIZE = y % PIPESIZE /\ (z % W) % PIPESIZE = z % PIPESIZE
  BY <1>1, <1>3, ModMod
<1>6. y < z /\ z - y < PIPESIZE
  BY <1>3, <1>4
<1>7. y % PIPESIZE # z % PIPESIZE
  BY <1>3, <1>6, ModDiffers
<1> QED
  BY <1>2, <1>4, <1>5, <1>7 DEF Nth

(* The j-th byte of a write waits behind the others.                       *)
LEMMA WritePlace ==
    ASSUME PipeConstants, PipeInv, NEW x \in Pipes, NEW j \in Nat
    PROVE  (pipe[x].nwrite + j) % W = Nth(x, Count(x) + j)
<1>1. PICK a \in 0..(W - 1), b \in 0..(W - 1) : a = pipe[x].nwrite /\ b = pipe[x].nread
  BY RingFacts
<1>2. W \in Nat \ {0} /\ PIPESIZE \in Nat /\ PIPESIZE < W
  BY DEF PipeConstants
<1>3. Count(x) = (a - b) % W /\ Count(x) <= PIPESIZE /\ Count(x) \in Nat
  BY <1>1, RingFacts DEF Count
<1>4. (a - b) % W = IF a >= b THEN a - b ELSE a - b + W
  BY <1>2
<1>5. PICK c \in Int : c = b + Count(x)
  BY <1>2, <1>3
<1>6. c % W = a
  <2>1. c = a \/ c = a + W
    BY <1>2, <1>3, <1>4, <1>5
  <2>2. a = W * 0 + a /\ a + W = W * 1 + a
    BY <1>2
  <2>3. CASE c = a
    BY <1>2, <2>2, <2>3, ModUnique
  <2>4. CASE c = a + W
    BY <1>2, <2>2, <2>4, ModUnique
  <2> QED
    BY <2>1, <2>3, <2>4
<1>7. ((c % W) + j) % W = (c + j) % W
  <2>1. j \in Int
    OBVIOUS
  <2> QED
    BY <1>2, <2>1, ModSum
<1>8. c + j = b + (Count(x) + j)
  BY <1>2, <1>3, <1>5
<1> QED
  BY <1>1, <1>6, <1>7, <1>8 DEF Nth

(* What Put leaves in the ring.                                            *)
LEMMA PutOrder ==
    ASSUME PipeConstants, RingAligned, PipeInv, NEW x \in Pipes, InOrder(x),
           NEW k \in Nat, k <= Space(x), NEW i \in Nat, i < Count(x) + k
    PROVE  Put(x, k).data[Nth(x, i) % PIPESIZE] = Nth(x, i)
<1>1. /\ Count(x) \in Nat /\ Count(x) + k <= PIPESIZE
      /\ PIPESIZE \in Nat \ {0} /\ W \in Nat \ {0}
  <2>1. Count(x) \in Nat /\ PIPESIZE \in Nat \ {0} /\ W \in Nat \ {0}
    BY RingFacts DEF PipeConstants
  <2> QED
    BY <2>1 DEF Space
<1>2. PICK s : s = Nth(x, i) % PIPESIZE
  OBVIOUS
<1>3. s \in 0..(PIPESIZE - 1)
  <2>1. pipe[x].nread \in 0..(W - 1)
    BY RingFacts
  <2>2. PICK c \in Int : c = Nth(x, i)
    BY <1>1, <2>1 DEF Nth
  <2>3. c % PIPESIZE \in 0..(PIPESIZE - 1)
    BY <1>1
  <2> QED
    BY <1>2, <2>2, <2>3
<1>4. Put(x, k).data[s] =
        IF \E j \in 0..(k - 1) : s = ((pipe[x].nwrite + j) % W) % PIPESIZE
        THEN (pipe[x].nwrite + CHOOSE j \in 0..(k - 1) :
                                 s = ((pipe[x].nwrite + j) % W) % PIPESIZE) % W
        ELSE pipe[x].data[s]
  <2>1. pipe[x] \in PipeStates
    BY RingFacts
  <2> QED
    BY <1>3, <2>1 DEF Put, PipeStates
<1>5. \A j \in 0..(k - 1) : /\ (pipe[x].nwrite + j) % W = Nth(x, Count(x) + j)
                            /\ s = ((pipe[x].nwrite + j) % W) % PIPESIZE => i = Count(x) + j
  <2> SUFFICES ASSUME NEW j \in 0..(k - 1)
               PROVE  /\ (pipe[x].nwrite + j) % W = Nth(x, Count(x) + j)
                      /\ s = ((pipe[x].nwrite + j) % W) % PIPESIZE => i = Count(x) + j
    OBVIOUS
  <2>1. j \in Nat /\ j < k
    OBVIOUS
  <2>2. (pipe[x].nwrite + j) % W = Nth(x, Count(x) + j)
    BY <2>1, WritePlace
  <2>3. PICK h \in Nat : h = Count(x) + j
    BY <1>1, <2>1
  <2>4. ASSUME i # h PROVE Nth(x, i) % PIPESIZE # Nth(x, h) % PIPESIZE
    <3>1. CASE i < h
      <4>1. h - i < PIPESIZE
        BY <1>1, <2>1, <2>3
      <4> QED
        BY <3>1, <4>1, SlotsDiffer
    <3>2. CASE h < i
      <4>1. i - h < PIPESIZE
        BY <1>1, <2>1, <2>3
      <4> QED
        BY <3>2, <4>1, SlotsDiffer
    <3> QED
      BY <2>4, <3>1, <3>2
  <2> QED
    BY <1>2, <2>2, <2>3, <2>4
<1>6. CASE \E j \in 0..(k - 1) : s = ((pipe[x].nwrite + j) % W) % PIPESIZE
  <2>1. PICK j \in 0..(k - 1) : /\ s = ((pipe[x].nwrite + j) % W) % PIPESIZE
                                /\ Put(x, k).data[s] = (pipe[x].nwrite + j) % W
    BY <1>4, <1>6
  <2> QED
    BY <1>2, <1>5, <2>1
<1>7. CASE ~ \E j \in 0..(k - 1) : s = ((pipe[x].nwrite + j) % W) % PIPESIZE
  <2>1. Put(x, k).data[s] = pipe[x].data[s]
    BY <1>4, <1>7
  <2>2. i < Count(x)
    <3>1. ASSUME i >= Count(x) PROVE FALSE
      <4>1. PICK j \in 0..(k - 1) : i = Count(x) + j
        <5>1. i - Count(x) \in 0..(k - 1) /\ i = Count(x) + (i - Count(x))
          BY <1>1, <3>1
        <5> QED
          BY <5>1
      <4>2. (pipe[x].nwrite + j) % W = Nth(x, i)
        BY <1>5, <4>1
      <4> QED
        BY <1>2, <1>7, <4>2
    <3> QED
      BY <1>1, <3>1
  <2>3. i \in 0..(Count(x) - 1)
    BY <1>1, <2>2
  <2> QED
    BY <1>2, <2>1, <2>3 DEF InOrder
<1> QED
  BY <1>6, <1>7

(* Reading moves nread past the first bytes and leaves the others.         *)
LEMMA GetOrder ==
    ASSUME PipeConstants, PipeInv, NEW x \in Pipes, InOrder(x),
           NEW k \in Nat, k <= Count(x),
           pipe'[x].nread = (pipe[x].nread + k) % W, pipe'[x].data = pipe[x].data,
           NEW n, n = Count(x)', n = Count(x) - k
    PROVE  InOrder(x)'
<1>1. W \in Nat \ {0} /\ Count(x) \in Nat /\ pipe[x].nread \in 0..(W - 1)
  BY Sizes0, RingFacts
<1>2. PICK b \in Nat : b = pipe[x].nread
  BY <1>1
<1>3. ASSUME NEW i \in 0..(n - 1)
      PROVE  pipe'[x].data[((pipe'[x].nread + i) % W) % PIPESIZE]
               = (pipe'[x].nread + i) % W
  <2>1. i \in Int /\ k + i \in 0..(Count(x) - 1)
    BY <1>1
  <2>2. PICK c \in Int : c = b + k
    BY <1>2
  <2>3. ((c % W) + i) % W = (c + i) % W
    BY <1>1, <2>1, ModSum
  <2>4. c + i = b + (k + i)
    BY <2>1, <2>2
  <2>5. (pipe'[x].nread + i) % W = Nth(x, k + i)
    BY <1>2, <2>2, <2>3, <2>4 DEF Nth
  <2>6. pipe[x].data[Nth(x, k + i) % PIPESIZE] = Nth(x, k + i)
    BY <2>1 DEF InOrder
  <2> QED
    BY <2>5, <2>6
<1> QED
  BY <1>3 DEF InOrder, Nth

(* piperead takes bytes from the front.                                    *)
LEMMA ReadOrder ==
    ASSUME PipeConstants, PipeInv, \A y \in Pipes : InOrder(y),
           NEW p \in Procs, piperead(p), NEW z \in Pipes
    PROVE  InOrder(z)'
<1>1. run[p] = "read"
  BY DEF piperead, Runs
<1>2. PICK x \in Pipes : x = on[p]
  BY <1>1 DEF PipeInv, CallsPlaced
<1>3. CASE UNCHANGED pipe
  BY <1>3, OrderKept
<1>4. CASE pipe' = [pipe EXCEPT ![x].nread = (@ + Min({left[p], Count(x)})) % W]
  <2>1. /\ left[p] \in Nat /\ Count(x) \in Nat
        /\ pipe \in [Pipes -> PipeStates] /\ pipe[x] \in PipeStates
    BY RingFacts DEF PipeInv, TypeOK
  <2>2. PICK k \in Nat : k = Min({left[p], Count(x)}) /\ k <= Count(x)
    BY <2>1, MinPair
  <2>3. PICK n \in 0..(W - 1) : n = (pipe[x].nread + k) % W
    BY <2>2, GetFacts
  <2>4. pipe' = [pipe EXCEPT ![x] = [pipe[x] EXCEPT !.nread = n]]
    BY <1>4, <2>2, <2>3
  <2>5. PICK r : r = [pipe[x] EXCEPT !.nread = n]
    OBVIOUS
  <2>6. /\ r \in PipeStates /\ r.nread = n /\ r.nwrite = pipe[x].nwrite
        /\ r.data = pipe[x].data
    BY <2>1, <2>5 DEF PipeStates
  <2>7. pipe'[x] = r /\ \A y \in Pipes : y # x => pipe'[y] = pipe[y]
    BY <2>1, <2>4, <2>5
  <2>8. Count(x)' = Count(x) - k
    <3>1. (pipe[x].nwrite - ((pipe[x].nread + k) % W)) % W = Count(x) - k
      BY <2>2, GetFacts
    <3> QED
      BY <2>3, <2>6, <2>7, <3>1 DEF Count
  <2>9. CASE z = x
    <3>1. pipe'[x].nread = (pipe[x].nread + k) % W /\ pipe'[x].data = pipe[x].data
      BY <2>3, <2>6, <2>7
    <3>2. InOrder(x)'
      BY <2>2, <2>8, <3>1, GetOrder
    <3> QED
      BY <2>9, <3>2
  <2>10. CASE z # x
    <3>1. pipe'[z] = pipe[z]
      BY <2>7, <2>10
    <3> QED
      BY <3>1, OrderKept
  <2> QED
    BY <2>9, <2>10
<1> QED
  <2>1. \/ UNCHANGED pipe
        \/ pipe' = [pipe EXCEPT ![x].nread = (@ + Min({left[p], Count(x)})) % W]
    BY <1>2 DEF piperead
  <2> QED
    BY <1>3, <1>4, <2>1

(* pipewrite puts bytes behind the others, and none over one that waits.   *)
LEMMA WriteOrder ==
    ASSUME PipeConstants, RingAligned, PipeInv, \A y \in Pipes : InOrder(y),
           NEW p \in Procs, pipewrite(p), NEW z \in Pipes
    PROVE  InOrder(z)'
<1>1. run[p] = "write"
  BY DEF pipewrite, Runs
<1>2. PICK x \in Pipes : x = on[p]
  BY <1>1 DEF PipeInv, CallsPlaced
<1>3. /\ left[p] \in Nat /\ Space(x) \in Nat /\ Count(x) \in Nat
      /\ pipe \in [Pipes -> PipeStates]
  BY RingFacts DEF PipeInv, TypeOK
<1>4. PICK k \in Nat : k = Min({left[p], Space(x)}) /\ k <= Space(x)
  BY <1>3, MinPair
<1>5. PICK o : o = (left[p] > k /\ (~pipe[x].readopen \/ killed[p]))
  OBVIOUS
<1>6. pipe' = [pipe EXCEPT ![x] = [Put(x, k) EXCEPT !.owed = o]]
  <2>1. pipe' = [pipe EXCEPT ![x] = [Put(x, k) EXCEPT !.owed =
                   left[p] > k /\ (~pipe[x].readopen \/ killed[p])]]
    BY <1>2, <1>4 DEF pipewrite
  <2> QED
    BY <1>5, <2>1, Zenon
<1>7. PICK t \in PipeStates : /\ t = Put(x, k) /\ t.nread = pipe[x].nread
                               /\ t.nwrite = (pipe[x].nwrite + k) % W
  BY <1>4, PutState
<1>8. PICK r : r = [t EXCEPT !.owed = o]
  OBVIOUS
<1>9. r.nread = t.nread /\ r.nwrite = t.nwrite /\ r.data = t.data
  BY <1>8 DEF PipeStates
<1>10. pipe'[x] = r /\ \A y \in Pipes : y # x => pipe'[y] = pipe[y]
  BY <1>3, <1>6, <1>7, <1>8
<1>11. Count(x)' = Count(x) + k
  <2>1. (((pipe[x].nwrite + k) % W) - pipe[x].nread) % W = Count(x) + k
    BY <1>4, PutFacts
  <2> QED
    BY <1>7, <1>9, <1>10, <2>1 DEF Count
<1>12. CASE z = x
  <2>1. PICK n : n = Count(x)' /\ n = Count(x) + k
    BY <1>11
  <2>2. ASSUME NEW i \in 0..(n - 1)
        PROVE  pipe'[x].data[((pipe'[x].nread + i) % W) % PIPESIZE]
                 = (pipe'[x].nread + i) % W
    <3>1. i \in Nat /\ i < Count(x) + k
      BY <1>3, <2>1
    <3>2. Put(x, k).data[Nth(x, i) % PIPESIZE] = Nth(x, i)
      BY <1>4, <3>1, PutOrder
    <3>3. pipe'[x].data = Put(x, k).data /\ pipe'[x].nread = pipe[x].nread
      BY <1>7, <1>9, <1>10
    <3> QED
      BY <3>2, <3>3 DEF Nth
  <2>3. InOrder(x)'
    BY <2>1, <2>2 DEF InOrder, Nth
  <2> QED
    BY <1>12, <2>3
<1>13. CASE z # x
  <2>1. pipe'[z] = pipe[z]
    BY <1>10, <1>13
  <2> QED
    BY <2>1, OrderKept
<1> QED
  BY <1>12, <1>13

(* sys_pipe and pipeclose leave a ring as it is or empty it.               *)
LEMMA PagesOrder ==
    ASSUME PipeConstants, PipeInv, \A y \in Pipes : InOrder(y),
           NEW p \in Procs, sys_pipe(p) \/ pipeclose(p), NEW z \in Pipes
    PROVE  InOrder(z)'
<1>1. CASE sys_pipe(p)
  <2>1. CASE UNCHANGED pipe
    BY <2>1, OrderKept
  <2>2. CASE \E x : pipe' = [pipe EXCEPT ![x] = NewPipe]
    <3>1. PICK x : pipe' = [pipe EXCEPT ![x] = NewPipe]
      BY <2>2
    <3>2. pipe'[z] = pipe[z] \/ pipe'[z] = NewPipe
      BY <3>1, RingFacts
    <3> QED
      BY <3>2, OrderKept, Pages
  <2> QED
    BY <1>1, <2>1, <2>2 DEF sys_pipe
<1>2. CASE pipeclose(p)
  <2>1. PICK x, s : x = on[p] /\ s = left[p]
    OBVIOUS
  <2>2. /\ \A y \in Pipes : y # x => pipe'[y] = pipe[y]
        /\ \/ /\ pipe'[x].nread = pipe[x].nread
              /\ pipe'[x].nwrite = pipe[x].nwrite
              /\ pipe'[x].data = pipe[x].data
           \/ pipe'[x] = FreePage
    BY <1>2, <2>1, CloseFacts
  <2>3. \/ /\ pipe'[z].nread = pipe[z].nread /\ pipe'[z].nwrite = pipe[z].nwrite
           /\ pipe'[z].data = pipe[z].data
        \/ pipe'[z] = FreePage
    BY <2>2
  <2> QED
    BY <2>3, OrderKept, Pages
<1> QED
  BY <1>1, <1>2

(* Every step keeps the order.                                             *)
LEMMA OrderNext ==
    ASSUME PipeConstants, RingAligned, PipeInv, \A y \in Pipes : InOrder(y), [Next]_pvars
    PROVE  (\A y \in Pipes : InOrder(y))'
<1> SUFFICES ASSUME NEW z \in Pipes PROVE InOrder(z)'
  OBVIOUS
<1>1. CASE UNCHANGED pipe
  BY <1>1, OrderKept
<1>2. ASSUME NEW p \in Procs, Call(p) \/ Step(p) \/ kill(p) PROVE InOrder(z)'
  <2>1. CASE sys_pipe(p) \/ pipeclose(p)
    BY <2>1, PagesOrder
  <2>2. CASE pipewrite(p)
    BY <2>2, WriteOrder
  <2>3. CASE piperead(p)
    BY <2>3, ReadOrder
  <2>4. CASE \/ sys_dup(p) \/ fork(p) \/ sys_close(p) \/ sys_write(p) \/ sys_read(p)
             \/ kill(p) \/ exit(p) \/ ExitCloses(p) \/ Gone(p) \/ sleep(p)
    <3>1. UNCHANGED pipe
      BY <2>4 DEF sys_dup, fork, sys_close, sys_write, sys_read, kill, exit, ExitCloses,
                  Gone, sleep
    <3> QED
      BY <1>1, <3>1
  <2> QED
    BY <1>2, <2>1, <2>2, <2>3, <2>4 DEF Call, Step
<1> QED
  BY <1>1, <1>2 DEF Next, pvars

(* Bytes come out of a pipe in the order in which they went in, also when  *)
(* a write was cut in pieces and when the 32-bit counters wrap: PIPESIZE   *)
(* divides 2^32.                                                           *)
THEOREM PipeFifoCorrect ==
    ASSUME PipeConstants, RingAligned
    PROVE  Spec => []PipeFifo
<1> DEFINE Order == \A y \in Pipes : InOrder(y)
<1>1. Init => PipeInv
  BY PipeInit
<1>2. Init => Order
  <2> SUFFICES ASSUME Init, NEW y \in Pipes PROVE InOrder(y)
    OBVIOUS
  <2>1. pipe[y] = FreePage
    BY DEF Init
  <2>2. Count(y) = 0
    BY <2>1, Pages DEF Count
  <2> QED
    BY <2>2 DEF InOrder
<1>3. PipeInv /\ [Next]_pvars => PipeInv'
  BY PipeNext
<1>4. PipeInv /\ Order /\ [Next]_pvars => Order'
  BY OrderNext
<1>5. PipeInv /\ Order => PipeFifo
  BY DEF PipeInv, RingBound, InOrder, Nth, PipeFifo
<1> QED
  BY <1>1, <1>2, <1>3, <1>4, <1>5, PTL DEF Spec
=============================================================================
