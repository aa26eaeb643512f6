----------------------------- MODULE LwpProofs ------------------------------
(***************************************************************************)
(* Theorems about the process and thread tables of the second kernel, for  *)
(* every number of processes, threads and CPUs, every set of system calls  *)
(* and with or without memory: a process runs one thread at a time, no     *)
(* wakeup of a parent or of a joiner is lost, and ptable.lock is held by   *)
(* the CPU whose thread came back from sleep().                            *)
(***************************************************************************)
EXTENDS Lwp, FiniteSetTheorems, WellFoundedInduction, TLAPS

Live(p) == pstate[p] \in {"RUNNABLE", "RUNNING"}

(* Thread i of p is in fork(), with the child in arg[p][i].                *)
Forking(p, i) == Live(p) /\ pc[p][i] \in {"fork", "fork2"}

(* The child of a fork under way is an EMBRYO that no other fork makes.    *)
ForkChild ==
    /\ \A p \in Proc, i \in Thread : Forking(p, i) =>
          arg[p][i] \in Proc /\ pstate[arg[p][i]] = "EMBRYO"
    /\ \A p, r \in Proc, i, j \in Thread :
          Forking(p, i) /\ Forking(r, j) /\ arg[p][i] = arg[r][j] => p = r /\ i = j

(* No thread of a slot that is free or being made has run or sleeps.       *)
FreshSlots ==
    \A q \in Proc : pstate[q] \in {"UNUSED", "EMBRYO"} =>
        \A i \in Thread : pc[q][i] = "user" /\ tstate[q][i] \in {"UNUSED", "EMBRYO"}

(* init never ends and has no parent; nobody is its own parent.            *)
InitLive ==
    /\ Live(initproc) /\ parent[initproc] = NoProc
    /\ \A i \in Thread : pc[initproc][i] \notin {"exitclr", "exit2"}
    /\ \A p \in Proc : parent[p] # p

(* The log counts every thread between begin_op and end_op: a thread that  *)
(* exec or wait() freed there may be counted for ever, one that will call  *)
(* end_op is never missing.                                                *)
InOps == {t \in Proc \X Thread : pc[t[1]][t[2]] = "op"}
OpsCounted == IsFiniteSet(InOps) /\ Cardinality(InOps) <= outstanding

(* ptable.lock is held by a CPU that runs a process, and by the CPU of     *)
(* every thread that runs between sched() and the release after it.        *)
PtableHeld ==
    /\ ptlock # NoCpu => running[ptlock] # NoProc
    /\ \A c \in Cpu, p \in Proc :
         running[c] = p /\ pc[p][thidx[p]] \in HoldsPtable => ptlock = c

LwpInv ==
    /\ TypeOK /\ OneThreadPerProcess /\ ForkChild /\ FreshSlots /\ InitLive
    /\ OpsCounted /\ PtableHeld /\ NoLostJoin /\ NoLostChildWakeup

-----------------------------------------------------------------------------
(* The choices of the kernel.                                              *)

(* The sizes as the provers use them.                                      *)
LEMMA Sizes ==
    /\ MaxOps \in Nat /\ initproc \in Proc /\ NoProc \notin Proc
    /\ NoCpu \notin Cpu /\ 0 \in Thread
  BY SizeAssumption DEF SizeAssumption, Proc, Thread, Cpu, initproc, NoProc, NoCpu

(* The slots of the tables are numbered.                                   *)
LEMMA Slots == Proc \subseteq Nat /\ Thread \subseteq Nat /\ NTHREAD \in Nat \ {0}
  BY SizeAssumption DEF SizeAssumption, Proc, Thread

(* A set of natural numbers that is not empty has a lowest element.        *)
LEMMA LowestExists ==
    ASSUME NEW S, S \subseteq Nat, S # {}
    PROVE  \E x \in S : \A y \in S : x <= y
<1>1. PICK x \in S : \A y \in S : ~(<<y, x>> \in OpToRel(<, Nat))
  BY NatLessThanWellFounded, WFMin
<1>2. \A y \in S : ~(y < x)
  BY <1>1 DEF OpToRel
<1> QED BY <1>2

(* A scan of a table finds an element of what it looks for.                *)
LEMMA FirstFound ==
    ASSUME NEW S, S \subseteq Nat, S # {}
    PROVE  First(S) \in S
  BY LowestExists DEF First

(* The scheduler picks a thread slot of the process.                       *)
LEMMA PickedThread ==
    ASSUME TypeOK, NEW p \in Proc
    PROVE  thidxtorun(p) \in Thread
<1> DEFINE distance(i) == (i + NTHREAD - thidx[p]) % NTHREAD
           others == {i \in Thread : i # thidx[p] /\ tstate[p][i] = "RUNNABLE"}
<1>1. thidx[p] \in Thread
  BY DEF TypeOK
<1>2. \A i \in Thread : distance(i) \in Nat
  BY <1>1, Slots DEF Thread
<1>3. ASSUME others # {}
      PROVE  \E i \in others : \A j \in others : distance(i) <= distance(j)
  <2> DEFINE D == {distance(i) : i \in others}
  <2>1. D \subseteq Nat /\ D # {}
    BY <1>2, <1>3
  <2> HIDE DEF D
  <2>2. PICK d \in D : \A e \in D : d <= e
    BY <2>1, LowestExists
  <2>3. PICK i \in others : d = distance(i)
    BY <2>2 DEF D
  <2>4. \A j \in others : distance(j) \in D
    BY DEF D
  <2> HIDE DEF distance, others
  <2> QED BY <2>2, <2>3, <2>4
<1>4. thidxtorun(p) = IF others = {} THEN thidx[p]
        ELSE CHOOSE i \in others : \A j \in others : distance(i) <= distance(j)
  BY DEF thidxtorun
<1>5. others \subseteq Thread
  OBVIOUS
<1> HIDE DEF distance, others
<1> QED BY <1>1, <1>3, <1>4, <1>5

(* The ranges of the indices.                                              *)
LEMMA Ranges ==
    ASSUME LwpInv
    PROVE  /\ \A r \in Proc : thidx[r] \in Thread
           /\ ptlock \in Cpu \cup {NoCpu} /\ outstanding \in Nat
<1>1. /\ \A r \in Proc : thidx[r] \in Thread
      /\ ptlock \in Cpu \cup {NoCpu} /\ outstanding \in 0..MaxOps
  BY DEF LwpInv, TypeOK
<1> QED BY <1>1, Sizes

(* What the invariant says of the thread that runs.                        *)
LEMMA Runs ==
    ASSUME LwpInv, NEW c \in Cpu, NEW p \in Proc, running[c] = p
    PROVE  /\ pstate[p] = "RUNNING" /\ thidx[p] \in Thread
           /\ tstate[p][thidx[p]] = "RUNNING" /\ Live(p)
  BY DEF LwpInv, TypeOK, OneThreadPerProcess, Live

(* Fewer threads between begin_op and end_op keep the count right.         *)
LEMMA OpsShrink ==
    ASSUME OpsCounted, InOps' \subseteq InOps, outstanding' = outstanding,
           outstanding \in Nat
    PROVE  OpsCounted'
  BY FS_Subset, FS_CardinalityType DEF OpsCounted

-----------------------------------------------------------------------------
(* The shapes most steps have.                                             *)

(* A panic stops the machine and changes nothing else; nothing happens.    *)
LEMMA StutterKeeps ==
    ASSUME LwpInv, fault' \in {"acquire", "init exiting", fault},
           UNCHANGED <<pstate, parent, killed, thidx, tstate, pc, arg, fresh,
                       ofile, ref, outstanding, running, ptlock>>
    PROVE  LwpInv'
<1>1. TypeOK'
  BY DEF LwpInv, TypeOK
<1>2. OneThreadPerProcess'
  BY DEF LwpInv, OneThreadPerProcess
<1>3. ForkChild' /\ FreshSlots'
  <2>1. ForkChild'
    <3>1. UNCHANGED <<pstate, pc, arg>>
      OBVIOUS
    <3>2. \A r \in Proc, i \in Thread : Forking(r, i)' <=> Forking(r, i)
      BY <3>1 DEF Forking, Live
    <3>3. ForkChild
      BY DEF LwpInv
    <3> HIDE DEF Forking
    <3> QED BY <3>1, <3>2, <3>3 DEF ForkChild
  <2>2. FreshSlots'
    BY DEF LwpInv, FreshSlots
  <2> QED BY <2>1, <2>2
<1>4. InitLive'
  BY DEF LwpInv, InitLive, Live
<1>5. OpsCounted'
  BY DEF LwpInv, OpsCounted, InOps
<1>6. PtableHeld'
  BY DEF LwpInv, PtableHeld
<1>7. NoLostJoin'
  BY DEF LwpInv, NoLostJoin, Joining
<1>8. NoLostChildWakeup'
  BY DEF LwpInv, NoLostChildWakeup, InWait, Zombies, Children
<1> QED BY <1>1, <1>2, <1>3, <1>4, <1>5, <1>6, <1>7, <1>8 DEF LwpInv

(* The thread that runs goes on at another point, where it does not sleep, *)
(* fork or count an operation, and may let go of ptable.lock.              *)
LEMMA GotoKeeps ==
    ASSUME LwpInv, NEW c \in Cpu, NEW p \in Proc, running[c] = p,
           NEW x \in {"user", "sys", "exit", "exec", "rdsleep"}, Goto(p, x),
           \/ ptlock' = ptlock
           \/ ptlock \in {c, NoCpu} /\ ptlock' = NoCpu,
           \/ arg' = arg
           \/ arg' = [arg EXCEPT ![p][thidx[p]] = 0],
           UNCHANGED <<pstate, parent, killed, thidx, tstate, fresh,
                       ofile, ref, outstanding, running, fault>>
    PROVE  LwpInv'
<1>1. pstate[p] = "RUNNING" /\ thidx[p] \in Thread /\ tstate[p][thidx[p]] = "RUNNING"
  BY Runs
<1>2. \A r \in Proc, i \in Thread :
        pc'[r][i] = IF r = p /\ i = thidx[p] THEN x ELSE pc[r][i]
  BY <1>1 DEF Goto, LwpInv, TypeOK
<1>3. /\ \A r \in Proc, i \in Thread :
           ~(r = p /\ i = thidx[p]) => arg'[r][i] = arg[r][i]
      /\ arg' \in [Proc -> [Thread -> Nat]]
  <2>1. arg \in [Proc -> [Thread -> Nat]]
    BY DEF LwpInv, TypeOK
  <2>2. CASE arg' = arg
    BY <2>1, <2>2
  <2>3. CASE arg' = [arg EXCEPT ![p][thidx[p]] = 0]
    BY <1>1, <2>1, <2>3
  <2> QED BY <2>2, <2>3
<1>4. TypeOK'
  <2>1. pc' \in [Proc -> [Thread -> Points]]
    BY <1>1 DEF Goto, LwpInv, TypeOK, Points, Preemptible
  <2>2. ptlock' \in Cpu \cup {NoCpu}
    BY Ranges
  <2> QED BY <1>3, <2>1, <2>2 DEF LwpInv, TypeOK
<1>5. OneThreadPerProcess'
  BY DEF LwpInv, OneThreadPerProcess
<1>6. ForkChild'
  <2>1. UNCHANGED pstate
    OBVIOUS
  <2>2. \A r \in Proc, i \in Thread :
          ~(r = p /\ i = thidx[p]) => arg'[r][i] = arg[r][i]
    BY <1>3
  <2> QED BY <1>1, <1>2, <2>1, <2>2 DEF LwpInv, ForkChild, Forking, Live
<1>7. FreshSlots'
  <2>1. UNCHANGED <<pstate, tstate>>
    OBVIOUS
  <2> QED BY <1>1, <1>2, <2>1 DEF LwpInv, FreshSlots
<1>8. InitLive'
  <2>1. UNCHANGED <<pstate, parent>>
    OBVIOUS
  <2> QED BY <1>2, <2>1, Sizes DEF LwpInv, InitLive, Live
<1>9. OpsCounted'
  <2>1. InOps' \subseteq InOps
    BY <1>2 DEF InOps
  <2>2. outstanding \in Nat
    BY Ranges
  <2> QED BY <2>1, <2>2, OpsShrink DEF LwpInv
<1>10. PtableHeld'
  <2>1. \A d \in Cpu : running[d] = p => d = c
    BY Sizes DEF LwpInv, OneThreadPerProcess
  <2>2. \A r \in Proc : thidx[r] \in Thread
    BY Ranges
  <2> QED BY <1>2, <2>1, <2>2, Sizes DEF LwpInv, PtableHeld, HoldsPtable
<1>11. NoLostJoin'
  <2>1. UNCHANGED <<pstate, tstate, fresh>>
    OBVIOUS
  <2> QED BY <1>1, <1>2, <1>3, <2>1 DEF LwpInv, NoLostJoin, Joining
<1>12. NoLostChildWakeup'
  <2>1. UNCHANGED <<pstate, tstate, parent>>
    OBVIOUS
  <2> QED BY <1>1, <1>2, <2>1 DEF LwpInv, NoLostChildWakeup, InWait, Zombies, Children
<1> QED BY <1>4, <1>5, <1>6, <1>7, <1>8, <1>9, <1>10, <1>11, <1>12 DEF LwpInv

-----------------------------------------------------------------------------
(* Every step keeps the invariant.                                         *)

(* A system call begins.                                                   *)
LEMMA Keeps_SyscallEntry ==
    ASSUME LwpInv, NEW c \in Cpu, NEW p \in Proc, SyscallEntry(c, p)
    PROVE  LwpInv'
  BY GotoKeeps DEF SyscallEntry, At, On, PtableFree, procVars, fileVars

(* A killed process leaves user mode for exit().                           *)
LEMMA Keeps_KilledExit ==
    ASSUME LwpInv, NEW c \in Cpu, NEW p \in Proc, KilledExit(c, p)
    PROVE  LwpInv'
  BY GotoKeeps DEF KilledExit, At, On, PtableFree, procVars, fileVars

(* ptable.lock is taken twice: the machine stops.                          *)
LEMMA Keeps_acquire_Again ==
    ASSUME LwpInv, NEW c \in Cpu, NEW p \in Proc, acquire_Again(c, p)
    PROVE  LwpInv'
  BY StutterKeeps DEF acquire_Again, procVars, threadVars, fileVars

(* fork() finds no slot.                                                   *)
LEMMA Keeps_ForkNoSlot ==
    ASSUME LwpInv, NEW c \in Cpu, NEW p \in Proc, ForkNoSlot(c, p)
    PROVE  LwpInv'
<1>1. PICK x \in {"user", "exit"} : Goto(p, x)
  BY DEF ForkNoSlot
<1> QED BY <1>1, GotoKeeps
   DEF ForkNoSlot, Calling, At, On, PtableFree, procVars, fileVars

(* exit() is called.                                                       *)
LEMMA Keeps_sys_exit ==
    ASSUME LwpInv, NEW c \in Cpu, NEW p \in Proc, sys_exit(c, p)
    PROVE  LwpInv'
  BY GotoKeeps DEF sys_exit, Calling, At, On, procVars, fileVars

(* init calls exit(): the machine stops.                                   *)
LEMMA Keeps_InitExiting ==
    ASSUME LwpInv, NEW c \in Cpu, NEW p \in Proc, InitExiting(c, p)
    PROVE  LwpInv'
  BY StutterKeeps DEF InitExiting, procVars, threadVars, fileVars

(* wait() has nothing to wait for.                                         *)
LEMMA Keeps_WaitReturns ==
    ASSUME LwpInv, NEW c \in Cpu, NEW p \in Proc, WaitReturns(c, p)
    PROVE  LwpInv'
  BY GotoKeeps DEF WaitReturns, Waiting, Calling, At, On, PtableFree, procVars, fileVars

(* A read ends.                                                            *)
LEMMA Keeps_ReadReturns ==
    ASSUME LwpInv, NEW c \in Cpu, NEW p \in Proc, ReadReturns(c, p)
    PROVE  LwpInv'
  BY GotoKeeps DEF ReadReturns, Reading, Calling, At, On, procVars, fileVars

(* A read finds nothing.                                                   *)
LEMMA Keeps_ReadWaits ==
    ASSUME LwpInv, NEW c \in Cpu, NEW p \in Proc, ReadWaits(c, p)
    PROVE  LwpInv'
  BY GotoKeeps DEF ReadWaits, Reading, Calling, At, On, procVars, fileVars

(* The only thread comes back to thread_exit.                              *)
LEMMA Keeps_OnlyThreadReturns ==
    ASSUME LwpInv, NEW c \in Cpu, NEW p \in Proc, OnlyThreadReturns(c, p)
    PROVE  LwpInv'
  BY GotoKeeps DEF OnlyThreadReturns, At, On, procVars, fileVars

(* thread_join does not find the thread.                                   *)
LEMMA Keeps_JoinNoThread ==
    ASSUME LwpInv, NEW c \in Cpu, NEW p \in Proc, JoinNoThread(c, p)
    PROVE  LwpInv'
  BY GotoKeeps DEF JoinNoThread, Calling, At, On, PtableFree, procVars, fileVars

(* exec() begins.                                                          *)
LEMMA Keeps_sys_exec ==
    ASSUME LwpInv, NEW c \in Cpu, NEW p \in Proc, sys_exec(c, p)
    PROVE  LwpInv'
  BY GotoKeeps DEF sys_exec, Calling, At, On, procVars, fileVars

(* exec() is done.                                                         *)
LEMMA Keeps_ExecReturns ==
    ASSUME LwpInv, NEW c \in Cpu, NEW p \in Proc, ExecReturns(c, p)
    PROVE  LwpInv'
  BY GotoKeeps DEF ExecReturns, At, On, procVars, fileVars

(* The scheduler switches to a thread.                                     *)
LEMMA Keeps_scheduler ==
    ASSUME LwpInv, NEW c \in Cpu, NEW p \in Proc, scheduler(c, p)
    PROVE  LwpInv'
<1> USE DEF LwpInv
<1>1. thidxtorun(p) \in Thread
  BY PickedThread
<1>2. PICK x \in Thread : x = thidxtorun(p)
  BY <1>1
<1>3. running[c] = NoProc /\ ptlock = NoCpu /\ pstate[p] = "RUNNABLE"
  BY DEF scheduler, PtableFree
<1>4. /\ thidx' = [thidx EXCEPT ![p] = x]
      /\ tstate' = [tstate EXCEPT ![p][x] = "RUNNING"]
      /\ pstate' = [pstate EXCEPT ![p] = "RUNNING"]
      /\ running' = [running EXCEPT ![c] = p]
      /\ ptlock' = IF pc[p][x] \in HoldsPtable THEN c ELSE NoCpu
  BY <1>2 DEF scheduler
<1>5. \A r \in Proc : thidx'[r] = IF r = p THEN x ELSE thidx[r]
  BY <1>2, <1>3, <1>4 DEF TypeOK
<1>6. \A r \in Proc, i \in Thread : tstate'[r][i] =
           IF r = p /\ i = x THEN "RUNNING" ELSE tstate[r][i]
  BY <1>2, <1>3, <1>4 DEF TypeOK
<1>7. \A r \in Proc : pstate'[r] = IF r = p THEN "RUNNING" ELSE pstate[r]
  BY <1>2, <1>3, <1>4 DEF TypeOK
<1>8. \A d \in Cpu : running'[d] = IF d = c THEN p ELSE running[d]
  BY <1>2, <1>3, <1>4 DEF TypeOK
<1>9. ptlock' = IF pc[p][x] \in HoldsPtable THEN c ELSE NoCpu
  BY <1>4
<1>10. UNCHANGED <<parent, killed, pc, arg, fresh, ofile,
                  ref, outstanding, fault>>
  BY DEF scheduler, procVars, threadVars, fileVars
<1>11. TypeOK'
  BY <1>2, <1>3, <1>4, <1>10 DEF TypeOK, States, Points, Preemptible, HoldsPtable
<1>12. OneThreadPerProcess'
  BY <1>2, <1>3, <1>7, <1>5, <1>6, <1>8, Sizes, Ranges DEF OneThreadPerProcess
<1>13. ForkChild'
  <2>1. UNCHANGED <<pc, arg>>
    BY <1>10
  <2> QED BY <1>2, <1>3, <1>7, <2>1 DEF ForkChild, Forking, Live
<1>14. FreshSlots'
  <2>1. UNCHANGED <<pc>>
    BY <1>10
  <2> QED BY <1>2, <1>3, <1>7, <1>6, <2>1 DEF FreshSlots
<1>15. InitLive'
  <2>1. UNCHANGED <<parent, pc>>
    BY <1>10
  <2> QED BY <1>2, <1>3, <1>7, Sizes, <2>1 DEF InitLive, Live
<1>16. OpsCounted'
  <2>1. InOps' \subseteq InOps
    BY <1>10 DEF InOps
  <2>2. outstanding' = outstanding /\ outstanding \in Nat
    BY <1>10, Ranges
  <2> QED BY <2>1, <2>2, OpsShrink
<1>17. PtableHeld'
  <2>1. UNCHANGED <<pc>>
    BY <1>10
  <2> QED BY <1>2, <1>3, <1>9, <1>8, <1>5, Sizes, Ranges, <2>1
     DEF PtableHeld, HoldsPtable, OneThreadPerProcess
<1>18. NoLostJoin'
  <2>1. UNCHANGED <<pc, arg, fresh>>
    BY <1>10
  <2> QED BY <1>2, <1>3, <1>7, <1>6, <2>1 DEF NoLostJoin, Joining
<1>19. NoLostChildWakeup'
  <2>1. UNCHANGED <<pc, parent>>
    BY <1>10
  <2> QED BY <1>2, <1>3, <1>7, <1>6, <2>1
     DEF NoLostChildWakeup, InWait, Zombies, Children
<1> QED BY <1>11, <1>12, <1>13, <1>14, <1>15, <1>16, <1>17, <1>18, <1>19

(* The timer takes the CPU from the thread.                                *)
LEMMA Keeps_yield ==
    ASSUME LwpInv, NEW c \in Cpu, NEW p \in Proc, yield(c, p)
    PROVE  LwpInv'
<1> USE DEF LwpInv
<1>1. running[c] = p
  BY DEF yield, On
<1>2. /\ pstate[p] = "RUNNING" /\ thidx[p] \in Thread
      /\ tstate[p][thidx[p]] = "RUNNING"
  BY <1>1, Runs
<1>3. ptlock = NoCpu /\ pc[p][thidx[p]] \notin HoldsPtable
  BY DEF yield, PtableFree, Preemptible, HoldsPtable
<1>4. /\ tstate' = [tstate EXCEPT ![p][thidx[p]] = "RUNNABLE"]
      /\ pstate' = [pstate EXCEPT ![p] = "RUNNABLE"]
      /\ running' = [running EXCEPT ![c] = NoProc]
      /\ ptlock' = NoCpu
  BY <1>2 DEF yield, Leave
<1>5. \A r \in Proc, i \in Thread : tstate'[r][i] =
           IF r = p /\ i = thidx[p] THEN "RUNNABLE" ELSE tstate[r][i]
  BY <1>1, <1>2, <1>3, <1>4 DEF TypeOK
<1>6. \A r \in Proc : pstate'[r] = IF r = p THEN "RUNNABLE" ELSE pstate[r]
  BY <1>1, <1>2, <1>3, <1>4 DEF TypeOK
<1>7. \A d \in Cpu : running'[d] = IF d = c THEN NoProc ELSE running[d]
  BY <1>1, <1>2, <1>3, <1>4 DEF TypeOK
<1>8. ptlock' = NoCpu
  BY <1>4
<1>9. UNCHANGED <<parent, killed, thidx, pc, arg, fresh,
                  ofile, ref, outstanding, fault>>
  BY DEF yield, procVars, threadVars, fileVars
<1>10. TypeOK'
  BY <1>1, <1>2, <1>3, <1>4, <1>9 DEF TypeOK, States, Points, Preemptible, HoldsPtable
<1>11. OneThreadPerProcess'
  <2>1. UNCHANGED <<thidx>>
    BY <1>9
  <2> QED BY <1>1, <1>2, <1>3, <1>6, <1>5, <1>7, Sizes, Ranges, <2>1
     DEF OneThreadPerProcess
<1>12. ForkChild'
  <2>1. UNCHANGED <<pc, arg>>
    BY <1>9
  <2> QED BY <1>1, <1>2, <1>3, <1>6, <2>1 DEF ForkChild, Forking, Live
<1>13. FreshSlots'
  <2>1. UNCHANGED <<pc>>
    BY <1>9
  <2> QED BY <1>2, <1>3, <1>6, <1>5, <2>1 DEF FreshSlots
<1>14. InitLive'
  <2>1. UNCHANGED <<parent, pc>>
    BY <1>9
  <2> QED BY <1>2, <1>3, <1>6, Sizes, <2>1 DEF InitLive, Live
<1>15. OpsCounted'
  <2>1. InOps' \subseteq InOps
    BY <1>9 DEF InOps
  <2>2. outstanding' = outstanding /\ outstanding \in Nat
    BY <1>9, Ranges
  <2> QED BY <2>1, <2>2, OpsShrink
<1>16. PtableHeld'
  <2>1. UNCHANGED <<pc, thidx>>
    BY <1>9
  <2> QED BY <1>1, <1>2, <1>3, <1>8, <1>7, Sizes, Ranges, <2>1
     DEF PtableHeld, HoldsPtable, OneThreadPerProcess
<1>17. NoLostJoin'
  <2>1. UNCHANGED <<pc, arg, fresh>>
    BY <1>9
  <2> QED BY <1>1, <1>2, <1>3, <1>6, <1>5, <2>1 DEF NoLostJoin, Joining
<1>18. NoLostChildWakeup'
  <2>1. UNCHANGED <<pc, parent>>
    BY <1>9
  <2> QED BY <1>1, <1>2, <1>3, <1>6, <1>5, <2>1
     DEF NoLostChildWakeup, InWait, Zombies, Children
<1> QED BY <1>10, <1>11, <1>12, <1>13, <1>14, <1>15, <1>16, <1>17, <1>18

(* fork() takes a slot.                                                    *)
LEMMA Keeps_allocproc ==
    ASSUME LwpInv, NEW c \in Cpu, NEW p \in Proc, allocproc(c, p)
    PROVE  LwpInv'
<1> USE DEF LwpInv
<1>1. running[c] = p
  BY DEF allocproc, Calling, At, On
<1>2. /\ pstate[p] = "RUNNING" /\ thidx[p] \in Thread
      /\ tstate[p][thidx[p]] = "RUNNING"
  BY <1>1, Runs
<1>3. pc[p][thidx[p]] = "sys" /\ ptlock = NoCpu
  BY <1>1, <1>2 DEF allocproc, Calling, At, On, PtableFree
<1>4. PICK q \in Proc : q = First(UnusedProcs) /\ pstate[q] = "UNUSED" /\ q # p
  <2>1. UnusedProcs \subseteq Nat /\ UnusedProcs # {}
    BY Slots DEF allocproc, UnusedProcs
  <2> QED BY <1>2, <2>1, FirstFound DEF UnusedProcs
<1>5. /\ pstate' = [pstate EXCEPT ![q] = "EMBRYO"]
      /\ arg' = [arg EXCEPT ![p][thidx[p]] = q]
      /\ pc' = [pc EXCEPT ![p][thidx[p]] = "fork"]
  BY <1>4 DEF allocproc, Goto
<1>6. PICK y : tstate' = [tstate EXCEPT ![q][y] = "EMBRYO"]
  BY <1>4 DEF allocproc
<1>7. tstate' \in [Proc -> [Thread -> States]]
  BY <1>5, <1>6 DEF TypeOK, States
<1>8. \A r \in Proc : pstate'[r] = IF r = q THEN "EMBRYO" ELSE pstate[r]
  BY <1>1, <1>2, <1>3, <1>4, <1>5, <1>6, <1>7 DEF TypeOK
<1>9. \A r \in Proc, i \in Thread : arg'[r][i] =
           IF r = p /\ i = thidx[p] THEN q ELSE arg[r][i]
  <2>1. arg \in [Proc -> [Thread -> Nat]]
    BY DEF TypeOK
  <2> QED BY <1>2, <1>5, <2>1
<1>10. \A r \in Proc, i \in Thread : pc'[r][i] =
           IF r = p /\ i = thidx[p] THEN "fork" ELSE pc[r][i]
  <2>1. pc \in [Proc -> [Thread -> Points]]
    BY DEF TypeOK
  <2> QED BY <1>2, <1>5, <2>1
<1>11. \A r \in Proc, i \in Thread :
      \/ tstate'[r][i] = tstate[r][i]
      \/ r = q /\ tstate'[r][i] = "EMBRYO"
  BY <1>4, <1>5, <1>6, <1>7 DEF TypeOK
<1>12. UNCHANGED <<parent, killed, thidx, fresh, ofile, ref,
                  outstanding, running, ptlock, fault>>
  BY DEF allocproc, procVars, threadVars, fileVars
<1>13. TypeOK'
  <2>1. q \in Nat
    BY Slots
  <2> QED BY <1>2, <1>4, <1>5, <1>7, <1>12, <2>1
     DEF TypeOK, States, Points, Preemptible, HoldsPtable
<1>14. OneThreadPerProcess'
  <2>1. UNCHANGED <<thidx, running>>
    BY <1>12
  <2> QED BY <1>1, <1>2, <1>3, <1>4, <1>8, <1>11, Sizes, Ranges, <2>1
     DEF OneThreadPerProcess
<1>15. ForkChild'
  BY <1>1, <1>2, <1>3, <1>4, <1>8, <1>10, <1>9 DEF ForkChild, Forking, Live
<1>16. FreshSlots'
  BY <1>2, <1>3, <1>4, <1>8, <1>10, <1>11 DEF FreshSlots
<1>17. InitLive'
  <2>1. UNCHANGED <<parent>>
    BY <1>12
  <2> QED BY <1>2, <1>3, <1>4, <1>8, <1>10, Sizes, <2>1 DEF InitLive, Live
<1>18. OpsCounted'
  <2>1. InOps' \subseteq InOps
    BY <1>2, <1>3, <1>4, <1>10 DEF InOps
  <2>2. outstanding' = outstanding /\ outstanding \in Nat
    BY <1>12, Ranges
  <2> QED BY <2>1, <2>2, OpsShrink
<1>19. PtableHeld'
  <2>1. UNCHANGED <<ptlock, running, thidx>>
    BY <1>12
  <2> QED BY <1>1, <1>2, <1>3, <1>4, <1>10, Sizes, Ranges, <2>1
     DEF PtableHeld, HoldsPtable, OneThreadPerProcess
<1>20. NoLostJoin'
  <2>1. UNCHANGED <<fresh>>
    BY <1>12
  <2> QED BY <1>1, <1>2, <1>3, <1>4, <1>8, <1>11, <1>10, <1>9, <2>1
     DEF NoLostJoin, Joining
<1>21. NoLostChildWakeup'
  <2>1. UNCHANGED <<parent>>
    BY <1>12
  <2> QED BY <1>1, <1>2, <1>3, <1>4, <1>8, <1>11, <1>10, <2>1
     DEF NoLostChildWakeup, InWait, Zombies, Children
<1> QED BY <1>13, <1>14, <1>15, <1>16, <1>17, <1>18, <1>19, <1>20, <1>21

(* fork() gives the slot back.                                             *)
LEMMA Keeps_ForkNoMemory ==
    ASSUME LwpInv, NEW c \in Cpu, NEW p \in Proc, ForkNoMemory(c, p)
    PROVE  LwpInv'
<1> USE DEF LwpInv
<1>1. running[c] = p
  BY DEF ForkNoMemory, At, On
<1>2. /\ pstate[p] = "RUNNING" /\ thidx[p] \in Thread
      /\ tstate[p][thidx[p]] = "RUNNING"
  BY <1>1, Runs
<1>3. pc[p][thidx[p]] = "fork"
  BY <1>1, <1>2 DEF ForkNoMemory, At, On
<1>4. PICK q \in Proc : q = arg[p][thidx[p]] /\ pstate[q] = "EMBRYO" /\ q # p
  BY <1>2, <1>3 DEF ForkChild, Forking, Live
<1>5. /\ pstate' = [pstate EXCEPT ![q] = "UNUSED"]
      /\ arg' = [arg EXCEPT ![p][thidx[p]] = 0]
  BY <1>4 DEF ForkNoMemory
<1>6. PICK x \in {"exit", "user"} : pc' = [pc EXCEPT ![p][thidx[p]] = x]
  BY DEF ForkNoMemory, Goto
<1>7. PICK y : tstate' = [tstate EXCEPT ![q][y] = "UNUSED"]
  BY <1>4 DEF ForkNoMemory
<1>8. tstate' \in [Proc -> [Thread -> States]]
  BY <1>5, <1>6, <1>7 DEF TypeOK, States
<1>9. \A r \in Proc : pstate'[r] = IF r = q THEN "UNUSED" ELSE pstate[r]
  BY <1>2, <1>5 DEF TypeOK
<1>10. \A r \in Proc, i \in Thread : arg'[r][i] =
           IF r = p /\ i = thidx[p] THEN 0 ELSE arg[r][i]
  BY <1>2, <1>5 DEF TypeOK
<1>11. \A r \in Proc, i \in Thread : pc'[r][i] =
           IF r = p /\ i = thidx[p] THEN x ELSE pc[r][i]
  BY <1>2, <1>5, <1>6, <1>7, <1>8 DEF TypeOK
<1>12. x \in {"exit", "user"}
  BY <1>5, <1>6, <1>7, <1>8
<1>13. \A r \in Proc, i \in Thread :
      \/ tstate'[r][i] = tstate[r][i]
      \/ r = q /\ tstate'[r][i] = "UNUSED"
  BY <1>4, <1>5, <1>6, <1>7, <1>8 DEF TypeOK
<1>14. UNCHANGED <<parent, killed, thidx, fresh, ofile, ref,
                  outstanding, running, ptlock, fault>>
  BY DEF ForkNoMemory, procVars, threadVars, fileVars
<1>15. TypeOK'
  BY <1>1, <1>2, <1>3, <1>4, <1>5, <1>6, <1>7, <1>8, <1>14
     DEF TypeOK, States, Points, Preemptible, HoldsPtable
<1>16. OneThreadPerProcess'
  <2>1. UNCHANGED <<thidx, running>>
    BY <1>14
  <2> QED BY <1>1, <1>2, <1>3, <1>4, <1>9, <1>13, Sizes, Ranges, <2>1
     DEF OneThreadPerProcess
<1>17. ForkChild'
  BY <1>1, <1>2, <1>3, <1>4, <1>9, <1>11, <1>12, <1>10 DEF ForkChild, Forking, Live
<1>18. FreshSlots'
  BY <1>2, <1>3, <1>4, <1>9, <1>11, <1>12, <1>13 DEF FreshSlots
<1>19. InitLive'
  <2>1. UNCHANGED <<parent>>
    BY <1>14
  <2> QED BY <1>2, <1>3, <1>4, <1>9, <1>11, <1>12, Sizes, <2>1 DEF InitLive, Live
<1>20. OpsCounted'
  <2>1. InOps' \subseteq InOps
    BY <1>2, <1>3, <1>4, <1>11, <1>12 DEF InOps
  <2>2. outstanding' = outstanding /\ outstanding \in Nat
    BY <1>14, Ranges
  <2> QED BY <2>1, <2>2, OpsShrink
<1>21. PtableHeld'
  <2>1. UNCHANGED <<ptlock, running, thidx>>
    BY <1>14
  <2> QED BY <1>1, <1>2, <1>3, <1>4, <1>11, <1>12, Sizes, Ranges, <2>1
     DEF PtableHeld, HoldsPtable, OneThreadPerProcess
<1>22. NoLostJoin'
  <2>1. UNCHANGED <<fresh>>
    BY <1>14
  <2> QED BY <1>1, <1>2, <1>3, <1>4, <1>9, <1>13, <1>11, <1>12, <1>10, <2>1
     DEF NoLostJoin, Joining
<1>23. NoLostChildWakeup'
  <2>1. UNCHANGED <<parent>>
    BY <1>14
  <2> QED BY <1>1, <1>2, <1>3, <1>4, <1>9, <1>13, <1>11, <1>12, <2>1
     DEF NoLostChildWakeup, InWait, Zombies, Children
<1> QED BY <1>15, <1>16, <1>17, <1>18, <1>19, <1>20, <1>21, <1>22, <1>23

(* fork() copies the files.                                                *)
LEMMA Keeps_ForkCopy ==
    ASSUME LwpInv, NEW c \in Cpu, NEW p \in Proc, ForkCopy(c, p)
    PROVE  LwpInv'
<1> USE DEF LwpInv
<1>1. running[c] = p
  BY DEF ForkCopy, At, On
<1>2. /\ pstate[p] = "RUNNING" /\ thidx[p] \in Thread
      /\ tstate[p][thidx[p]] = "RUNNING"
  BY <1>1, Runs
<1>3. pc[p][thidx[p]] = "fork"
  BY <1>1, <1>2 DEF ForkCopy, At, On
<1>4. PICK q \in Proc : q = arg[p][thidx[p]] /\ pstate[q] = "EMBRYO" /\ q # p
  BY <1>2, <1>3 DEF ForkChild, Forking, Live
<1>5. /\ parent' = [parent EXCEPT ![q] = p]
      /\ ofile' = [ofile EXCEPT ![q] = ofile[p]]
      /\ pc' = [pc EXCEPT ![p][thidx[p]] = "fork2"]
      /\ ref' \in Nat
  <2>1. ref' \in Nat
    <3>1. ref \in Nat
      BY DEF TypeOK
    <3> QED BY <3>1 DEF ForkCopy
  <2> QED BY <1>4, <2>1 DEF ForkCopy, Goto
<1>6. \A r \in Proc : parent'[r] = IF r = q THEN p ELSE parent[r]
  BY <1>1, <1>2, <1>3, <1>4, <1>5 DEF TypeOK
<1>7. \A r \in Proc, i \in Thread : pc'[r][i] =
           IF r = p /\ i = thidx[p] THEN "fork2" ELSE pc[r][i]
  BY <1>1, <1>2, <1>3, <1>4, <1>5 DEF TypeOK
<1>8. UNCHANGED <<pstate, killed, thidx, tstate, arg, fresh,
                  outstanding, running, ptlock, fault>>
  BY DEF ForkCopy, procVars, threadVars, fileVars
<1>9. TypeOK'
  BY <1>1, <1>2, <1>3, <1>4, <1>5, <1>8
     DEF TypeOK, States, Points, Preemptible, HoldsPtable
<1>10. OneThreadPerProcess'
  <2>1. UNCHANGED <<pstate, thidx, tstate, running>>
    BY <1>8
  <2> QED BY <1>1, <1>2, <1>3, <1>4, Sizes, Ranges, <2>1 DEF OneThreadPerProcess
<1>11. ForkChild'
  <2>1. UNCHANGED <<pstate, arg>>
    BY <1>8
  <2> QED BY <1>1, <1>2, <1>3, <1>4, <1>7, <2>1 DEF ForkChild, Forking, Live
<1>12. FreshSlots'
  <2>1. UNCHANGED <<pstate, tstate>>
    BY <1>8
  <2> QED BY <1>2, <1>3, <1>4, <1>7, <2>1 DEF FreshSlots
<1>13. InitLive'
  <2>1. UNCHANGED <<pstate>>
    BY <1>8
  <2> QED BY <1>2, <1>3, <1>4, <1>6, <1>7, Sizes, <2>1 DEF InitLive, Live
<1>14. OpsCounted'
  <2>1. InOps' \subseteq InOps
    BY <1>2, <1>3, <1>4, <1>7 DEF InOps
  <2>2. outstanding' = outstanding /\ outstanding \in Nat
    BY <1>8, Ranges
  <2> QED BY <2>1, <2>2, OpsShrink
<1>15. PtableHeld'
  <2>1. UNCHANGED <<ptlock, running, thidx>>
    BY <1>8
  <2> QED BY <1>1, <1>2, <1>3, <1>4, <1>7, Sizes, Ranges, <2>1
     DEF PtableHeld, HoldsPtable, OneThreadPerProcess
<1>16. NoLostJoin'
  <2>1. UNCHANGED <<pstate, tstate, arg, fresh>>
    BY <1>8
  <2> QED BY <1>1, <1>2, <1>3, <1>4, <1>7, <2>1 DEF NoLostJoin, Joining
<1>17. NoLostChildWakeup'
  <2>1. UNCHANGED <<pstate, tstate>>
    BY <1>8
  <2> QED BY <1>1, <1>2, <1>3, <1>4, <1>7, <1>6, <2>1
     DEF NoLostChildWakeup, InWait, Zombies, Children
<1> QED BY <1>9, <1>10, <1>11, <1>12, <1>13, <1>14, <1>15, <1>16, <1>17

(* The child can run.                                                      *)
LEMMA Keeps_ForkDone ==
    ASSUME LwpInv, NEW c \in Cpu, NEW p \in Proc, ForkDone(c, p)
    PROVE  LwpInv'
<1> USE DEF LwpInv
<1>1. running[c] = p
  BY DEF ForkDone, At, On
<1>2. /\ pstate[p] = "RUNNING" /\ thidx[p] \in Thread
      /\ tstate[p][thidx[p]] = "RUNNING"
  BY <1>1, Runs
<1>3. pc[p][thidx[p]] = "fork2" /\ ptlock = NoCpu
  BY <1>1, <1>2 DEF ForkDone, At, On, PtableFree
<1>4. PICK q \in Proc : q = arg[p][thidx[p]] /\ pstate[q] = "EMBRYO" /\ q # p
  BY <1>2, <1>3 DEF ForkChild, Forking, Live
<1>5. /\ pstate' = [pstate EXCEPT ![q] = "RUNNABLE"]
      /\ tstate' = [tstate EXCEPT ![q][thidx[q]] = "RUNNABLE"]
      /\ arg' = [arg EXCEPT ![p][thidx[p]] = 0]
      /\ pc' = [pc EXCEPT ![q][thidx[q]] = "user", ![p][thidx[p]] = "user"]
  BY <1>4 DEF ForkDone
<1>6. \A r \in Proc : pstate'[r] = IF r = q THEN "RUNNABLE" ELSE pstate[r]
  BY <1>1, <1>2, <1>3, <1>4, <1>5 DEF TypeOK
<1>7. \A r \in Proc, i \in Thread : tstate'[r][i] =
           IF r = q /\ i = thidx[q] THEN "RUNNABLE" ELSE tstate[r][i]
  BY <1>1, <1>2, <1>3, <1>4, <1>5 DEF TypeOK
<1>8. \A r \in Proc, i \in Thread : arg'[r][i] =
           IF r = p /\ i = thidx[p] THEN 0 ELSE arg[r][i]
  BY <1>1, <1>2, <1>3, <1>4, <1>5 DEF TypeOK
<1>9. \A r \in Proc, i \in Thread : pc'[r][i] =
           IF r = p /\ i = thidx[p] THEN "user" ELSE pc[r][i]
  <2>1. \A i \in Thread : pc[q][i] = "user"
    BY <1>4 DEF FreshSlots
  <2> QED BY <2>1, <1>2, <1>4, <1>5 DEF TypeOK
<1>10. UNCHANGED <<parent, killed, thidx, fresh, ofile, ref,
                  outstanding, running, ptlock, fault>>
  BY DEF ForkDone, procVars, threadVars, fileVars
<1>11. TypeOK'
  <2>1. "user" \in Points /\ "RUNNABLE" \in States
    BY DEF States, Points, Preemptible
  <2>2. pc' \in [Proc -> [Thread -> Points]]
    BY <1>5, <2>1 DEF TypeOK
  <2>3. pstate' \in [Proc -> States] /\ tstate' \in [Proc -> [Thread -> States]]
    BY <1>5, <2>1 DEF TypeOK
  <2>4. arg' \in [Proc -> [Thread -> Nat]]
    BY <1>5 DEF TypeOK
  <2> QED BY <1>10, <2>2, <2>3, <2>4 DEF TypeOK
<1>12. OneThreadPerProcess'
  <2>1. UNCHANGED <<thidx, running>>
    BY <1>10
  <2> QED BY <1>1, <1>2, <1>3, <1>4, <1>6, <1>7, Sizes, Ranges, <2>1
     DEF OneThreadPerProcess, FreshSlots
<1>13. ForkChild'
  BY <1>1, <1>2, <1>3, <1>4, <1>6, <1>9, <1>8 DEF ForkChild, Forking, Live, FreshSlots
<1>14. FreshSlots'
  BY <1>2, <1>3, <1>4, <1>6, <1>9, <1>7 DEF FreshSlots
<1>15. InitLive'
  <2>1. UNCHANGED <<parent>>
    BY <1>10
  <2> QED BY <1>2, <1>3, <1>4, <1>6, <1>9, Sizes, <2>1 DEF InitLive, Live
<1>16. OpsCounted'
  <2>1. InOps' \subseteq InOps
    BY <1>2, <1>3, <1>4, <1>9 DEF InOps
  <2>2. outstanding' = outstanding /\ outstanding \in Nat
    BY <1>10, Ranges
  <2> QED BY <2>1, <2>2, OpsShrink
<1>17. PtableHeld'
  <2>1. UNCHANGED <<ptlock, running, thidx>>
    BY <1>10
  <2> QED BY <1>1, <1>2, <1>3, <1>4, <1>9, Sizes, Ranges, <2>1
     DEF PtableHeld, HoldsPtable, OneThreadPerProcess
<1>18. NoLostJoin'
  <2>1. UNCHANGED <<fresh>>
    BY <1>10
  <2> QED BY <1>1, <1>2, <1>3, <1>4, <1>6, <1>7, <1>9, <1>8, <2>1
     DEF NoLostJoin, Joining, FreshSlots
<1>19. NoLostChildWakeup'
  <2>1. UNCHANGED <<parent>>
    BY <1>10
  <2> QED BY <1>1, <1>2, <1>3, <1>4, <1>6, <1>7, <1>9, <2>1
     DEF NoLostChildWakeup, InWait, Zombies, Children, FreshSlots
<1> QED BY <1>11, <1>12, <1>13, <1>14, <1>15, <1>16, <1>17, <1>18, <1>19

(* exit() drops its reference to the file.                                 *)
LEMMA Keeps_ExitCloses ==
    ASSUME LwpInv, NEW c \in Cpu, NEW p \in Proc, ExitCloses(c, p)
    PROVE  LwpInv'
<1> USE DEF LwpInv
<1>1. running[c] = p
  BY DEF ExitCloses, At, On
<1>2. /\ pstate[p] = "RUNNING" /\ thidx[p] \in Thread
      /\ tstate[p][thidx[p]] = "RUNNING"
  BY <1>1, Runs
<1>3. pc[p][thidx[p]] = "exit" /\ p # initproc /\ ptlock = NoCpu
  BY <1>1, <1>2 DEF ExitCloses, At, On, PtableFree
<1>4. /\ ref' \in Nat
      /\ fault' \in {"none", "fileclose"}
  BY DEF ExitCloses, At, On, Goto, TypeOK
<1>5. PICK x \in {"exit", "exit2", "exitclr"} : pc' = [pc EXCEPT ![p][thidx[p]] = x]
  <2>1. CASE pc' = pc
    <3>1. pc = [pc EXCEPT ![p][thidx[p]] = "exit"]
      BY <1>3, <2>1 DEF TypeOK
    <3> QED BY <2>1, <3>1
  <2> QED BY <2>1 DEF ExitCloses, Goto
<1>6. \A r \in Proc, i \in Thread : pc'[r][i] =
           IF r = p /\ i = thidx[p] THEN x ELSE pc[r][i]
  BY <1>2, <1>4, <1>5 DEF TypeOK
<1>7. x \in {"exit", "exit2", "exitclr"}
  BY <1>4, <1>5
<1>8. UNCHANGED <<pstate, parent, killed, thidx, tstate, arg,
                  fresh, ofile, outstanding, running, ptlock>>
  BY DEF ExitCloses, procVars, threadVars, fileVars
<1>9. TypeOK'
  BY <1>1, <1>2, <1>3, <1>4, <1>5, <1>8
     DEF TypeOK, States, Points, Preemptible, HoldsPtable
<1>10. OneThreadPerProcess'
  <2>1. UNCHANGED <<pstate, thidx, tstate, running>>
    BY <1>8
  <2> QED BY <1>1, <1>2, <1>3, Sizes, Ranges, <2>1 DEF OneThreadPerProcess
<1>11. ForkChild'
  <2>1. UNCHANGED <<pstate, arg>>
    BY <1>8
  <2> QED BY <1>1, <1>2, <1>3, <1>6, <1>7, <2>1 DEF ForkChild, Forking, Live
<1>12. FreshSlots'
  <2>1. UNCHANGED <<pstate, tstate>>
    BY <1>8
  <2> QED BY <1>2, <1>3, <1>6, <1>7, <2>1 DEF FreshSlots
<1>13. InitLive'
  <2>1. UNCHANGED <<pstate, parent>>
    BY <1>8
  <2> QED BY <1>2, <1>3, <1>6, <1>7, Sizes, <2>1 DEF InitLive, Live
<1>14. OpsCounted'
  <2>1. InOps' \subseteq InOps
    BY <1>2, <1>3, <1>6, <1>7 DEF InOps
  <2>2. outstanding' = outstanding /\ outstanding \in Nat
    BY <1>8, Ranges
  <2> QED BY <2>1, <2>2, OpsShrink
<1>15. PtableHeld'
  <2>1. UNCHANGED <<ptlock, running, thidx>>
    BY <1>8
  <2> QED BY <1>1, <1>2, <1>3, <1>6, <1>7, Sizes, Ranges, <2>1
     DEF PtableHeld, HoldsPtable, OneThreadPerProcess
<1>16. NoLostJoin'
  <2>1. UNCHANGED <<pstate, tstate, arg, fresh>>
    BY <1>8
  <2> QED BY <1>1, <1>2, <1>3, <1>6, <1>7, <2>1 DEF NoLostJoin, Joining
<1>17. NoLostChildWakeup'
  <2>1. UNCHANGED <<pstate, tstate, parent>>
    BY <1>8
  <2> QED BY <1>1, <1>2, <1>3, <1>6, <1>7, <2>1
     DEF NoLostChildWakeup, InWait, Zombies, Children
<1> QED BY <1>9, <1>10, <1>11, <1>12, <1>13, <1>14, <1>15, <1>16, <1>17

(* exit() clears its table of open files.                                  *)
LEMMA Keeps_ExitClears ==
    ASSUME LwpInv, NEW c \in Cpu, NEW p \in Proc, ExitClears(c, p)
    PROVE  LwpInv'
<1> USE DEF LwpInv
<1>1. running[c] = p
  BY DEF ExitClears, At, On
<1>2. /\ pstate[p] = "RUNNING" /\ thidx[p] \in Thread
      /\ tstate[p][thidx[p]] = "RUNNING"
  BY <1>1, Runs
<1>3. pc[p][thidx[p]] = "exitclr"
  BY <1>1, <1>2 DEF ExitClears, At, On
<1>4. p # initproc
  BY <1>2, <1>3 DEF InitLive
<1>5. /\ pc' = [pc EXCEPT ![p][thidx[p]] = "exit2"]
      /\ ofile' = [ofile EXCEPT ![p] = FALSE]
  BY <1>1, <1>2, <1>3, <1>4 DEF ExitClears, Goto, TypeOK
<1>6. \A r \in Proc, i \in Thread : pc'[r][i] =
           IF r = p /\ i = thidx[p] THEN "exit2" ELSE pc[r][i]
  BY <1>1, <1>2, <1>3, <1>4, <1>5 DEF TypeOK
<1>7. UNCHANGED <<pstate, parent, killed, thidx, tstate, arg,
                  fresh, ref, outstanding, running, ptlock, fault>>
  BY DEF ExitClears, procVars, threadVars, fileVars
<1>8. TypeOK'
  BY <1>1, <1>2, <1>3, <1>4, <1>5, <1>7
     DEF TypeOK, States, Points, Preemptible, HoldsPtable
<1>9. OneThreadPerProcess'
  <2>1. UNCHANGED <<pstate, thidx, tstate, running>>
    BY <1>7
  <2> QED BY <1>1, <1>2, <1>3, <1>4, Sizes, Ranges, <2>1 DEF OneThreadPerProcess
<1>10. ForkChild'
  <2>1. UNCHANGED <<pstate, arg>>
    BY <1>7
  <2> QED BY <1>1, <1>2, <1>3, <1>4, <1>6, <2>1 DEF ForkChild, Forking, Live
<1>11. FreshSlots'
  <2>1. UNCHANGED <<pstate, tstate>>
    BY <1>7
  <2> QED BY <1>2, <1>3, <1>4, <1>6, <2>1 DEF FreshSlots
<1>12. InitLive'
  <2>1. UNCHANGED <<pstate, parent>>
    BY <1>7
  <2> QED BY <1>2, <1>3, <1>4, <1>6, Sizes, <2>1 DEF InitLive, Live
<1>13. OpsCounted'
  <2>1. InOps' \subseteq InOps
    BY <1>2, <1>3, <1>4, <1>6 DEF InOps
  <2>2. outstanding' = outstanding /\ outstanding \in Nat
    BY <1>7, Ranges
  <2> QED BY <2>1, <2>2, OpsShrink
<1>14. PtableHeld'
  <2>1. UNCHANGED <<ptlock, running, thidx>>
    BY <1>7
  <2> QED BY <1>1, <1>2, <1>3, <1>4, <1>6, Sizes, Ranges, <2>1
     DEF PtableHeld, HoldsPtable, OneThreadPerProcess
<1>15. NoLostJoin'
  <2>1. UNCHANGED <<pstate, tstate, arg, fresh>>
    BY <1>7
  <2> QED BY <1>1, <1>2, <1>3, <1>4, <1>6, <2>1 DEF NoLostJoin, Joining
<1>16. NoLostChildWakeup'
  <2>1. UNCHANGED <<pstate, tstate, parent>>
    BY <1>7
  <2> QED BY <1>1, <1>2, <1>3, <1>4, <1>6, <2>1
     DEF NoLostChildWakeup, InWait, Zombies, Children
<1> QED BY <1>8, <1>9, <1>10, <1>11, <1>12, <1>13, <1>14, <1>15, <1>16

(* exit() wakes the parent and ends.                                       *)
LEMMA Keeps_ExitZombie ==
    ASSUME LwpInv, NEW c \in Cpu, NEW p \in Proc, ExitZombie(c, p)
    PROVE  LwpInv'
<1> USE DEF LwpInv
<1>1. running[c] = p
  BY DEF ExitZombie, At, On
<1>2. /\ pstate[p] = "RUNNING" /\ thidx[p] \in Thread
      /\ tstate[p][thidx[p]] = "RUNNING"
  BY <1>1, Runs
<1>3. pc[p][thidx[p]] = "exit2" /\ ptlock = NoCpu /\ p # initproc
  BY <1>2 DEF ExitZombie, At, On, PtableFree, InitLive
<1>4. /\ parent' = [q \in Proc |-> IF parent[q] = p THEN initproc ELSE parent[q]]
      /\ pstate' = [pstate EXCEPT ![p] = "ZOMBIE"]
      /\ running' = [running EXCEPT ![c] = NoProc]
  BY DEF ExitZombie
<1>5. tstate' \in [Proc -> [Thread -> States]]
  <2>1. PICK sleepers : tstate' = wakeup1(tstate, sleepers)
    BY DEF ExitZombie, ExitWakes
  <2>2. tstate \in [Proc -> [Thread -> States]] /\ "RUNNABLE" \in States
    BY DEF TypeOK, States
  <2> QED BY <2>1, <2>2 DEF wakeup1
<1>6. \A r \in Proc : parent'[r] = IF parent[r] = p THEN initproc ELSE parent[r]
  BY <1>1, <1>2, <1>3, <1>4, <1>5 DEF TypeOK
<1>7. \A r \in Proc : pstate'[r] = IF r = p THEN "ZOMBIE" ELSE pstate[r]
  BY <1>1, <1>2, <1>3, <1>4, <1>5 DEF TypeOK
<1>8. \A d \in Cpu : running'[d] = IF d = c THEN NoProc ELSE running[d]
  BY <1>1, <1>2, <1>3, <1>4, <1>5 DEF TypeOK
<1>9. \A r \in Proc, i \in Thread :
      \/ tstate'[r][i] = tstate[r][i]
      \/ tstate[r][i] = "SLEEPING" /\ tstate'[r][i] = "RUNNABLE"
  BY DEF ExitZombie, ExitWakes, wakeup1
<1>10. \A r \in Proc, i \in Thread :
      /\ Live(r) /\ InWait(r, i)
      /\ \/ r = parent[p]
         \/ r = initproc /\ \E k \in Proc : parent[k] = p /\ pstate[k] = "ZOMBIE"
      => tstate'[r][i] # "SLEEPING"
  BY DEF ExitZombie, ExitWakes, wakeup1, Live
<1>11. UNCHANGED <<killed, thidx, pc, arg, fresh, ofile,
                  ref, outstanding, ptlock, fault>>
  BY DEF ExitZombie, procVars, threadVars, fileVars
<1>12. TypeOK'
  <2>1. parent' \in [Proc -> Proc \cup {NoProc}]
    BY <1>4, Sizes DEF TypeOK
  <2> QED BY <1>4, <1>5, <1>11, <2>1 DEF TypeOK, States
<1>13. OneThreadPerProcess'
  <2>1. UNCHANGED <<thidx>>
    BY <1>11
  <2> QED BY <1>1, <1>2, <1>3, <1>7, <1>9, <1>8, Sizes, Ranges, <2>1
     DEF OneThreadPerProcess
<1>14. ForkChild'
  <2>1. UNCHANGED <<pc, arg>>
    BY <1>11
  <2> QED BY <1>1, <1>2, <1>3, <1>7, <2>1 DEF ForkChild, Forking, Live
<1>15. FreshSlots'
  <2>1. UNCHANGED <<pc>>
    BY <1>11
  <2> QED BY <1>2, <1>3, <1>7, <1>9, <2>1 DEF FreshSlots
<1>16. InitLive'
  <2>1. UNCHANGED <<pc>>
    BY <1>11
  <2> QED BY <1>2, <1>3, <1>7, <1>6, Sizes, <2>1 DEF InitLive, Live
<1>17. OpsCounted'
  <2>1. InOps' \subseteq InOps
    BY <1>11 DEF InOps
  <2>2. outstanding' = outstanding /\ outstanding \in Nat
    BY <1>11, Ranges
  <2> QED BY <2>1, <2>2, OpsShrink
<1>18. PtableHeld'
  <2>1. UNCHANGED <<ptlock, pc, thidx>>
    BY <1>11
  <2> QED BY <1>1, <1>2, <1>3, <1>8, Sizes, Ranges, <2>1
     DEF PtableHeld, HoldsPtable, OneThreadPerProcess
<1>19. NoLostJoin'
  <2>1. UNCHANGED <<pc, arg, fresh>>
    BY <1>11
  <2> QED BY <1>1, <1>2, <1>3, <1>7, <1>9, <2>1 DEF NoLostJoin, Joining
<1>20. NoLostChildWakeup'
  <2>1. SUFFICES ASSUME NEW r \in Proc, NEW i \in Thread, NEW k \in Proc,
                        pstate'[r] \in {"RUNNABLE", "RUNNING"},
                        tstate'[r][i] = "SLEEPING", pc[r][i] = "wait",
                        parent'[k] = r, pstate'[k] = "ZOMBIE"
                 PROVE  FALSE
    BY <1>11 DEF NoLostChildWakeup, InWait, Zombies, Children
  <2>2. r # p /\ Live(r) /\ tstate[r][i] = "SLEEPING"
    BY <1>7, <1>9, <2>1 DEF Live
  <2>3. CASE k = p
    BY <1>2, <1>6, <1>10, <2>1, <2>2, <2>3 DEF InitLive, InWait
  <2>4. CASE k # p /\ parent[k] = p
    BY <1>6, <1>7, <1>10, <2>1, <2>2, <2>4 DEF InWait
  <2>5. CASE k # p /\ parent[k] # p
    BY <1>6, <1>7, <2>1, <2>2, <2>5
       DEF NoLostChildWakeup, InWait, Zombies, Children, Live
  <2> QED BY <2>3, <2>4, <2>5
<1> QED BY <1>12, <1>13, <1>14, <1>15, <1>16, <1>17, <1>18, <1>19, <1>20

(* wait() frees a ZOMBIE child.                                            *)
LEMMA Keeps_WaitReaps ==
    ASSUME LwpInv, NEW c \in Cpu, NEW p \in Proc, WaitReaps(c, p)
    PROVE  LwpInv'
<1> USE DEF LwpInv
<1>1. running[c] = p
  BY DEF WaitReaps, Waiting, Calling, At, On
<1>2. /\ pstate[p] = "RUNNING" /\ thidx[p] \in Thread
      /\ tstate[p][thidx[p]] = "RUNNING"
  BY <1>1, Runs
<1>3. pc[p][thidx[p]] \in {"sys", "wait"} /\ ptlock \in {c, NoCpu}
  BY <1>1, <1>2 DEF WaitReaps, Waiting, Calling, At, On, PtableFree
<1>4. PICK q \in Proc : q = First(Zombies(p)) /\ pstate[q] = "ZOMBIE" /\ q # p
  <2>1. Zombies(p) \subseteq Proc /\ Zombies(p) # {}
    BY DEF WaitReaps, Zombies, Children
  <2> QED BY <1>2, <2>1, Slots, FirstFound DEF Zombies
<1>5. /\ pstate' = [pstate EXCEPT ![q] = "UNUSED"]
      /\ parent' = [parent EXCEPT ![q] = NoProc]
      /\ killed' = [killed EXCEPT ![q] = FALSE]
      /\ ptlock' = NoCpu
      /\ tstate' = [tstate EXCEPT ![q] = [i \in Thread |-> "UNUSED"]]
      /\ arg' = [arg EXCEPT ![q] = [i \in Thread |-> 0]]
      /\ fresh' = [fresh EXCEPT ![q] = [i \in Thread |-> TRUE]]
      /\ pc' = [pc EXCEPT ![q] = [i \in Thread |-> "user"], ![p][thidx[p]] = "user"]
  BY <1>4 DEF WaitReaps
<1>6. \A r \in Proc : pstate'[r] = IF r = q THEN "UNUSED" ELSE pstate[r]
  BY <1>1, <1>2, <1>3, <1>4, <1>5 DEF TypeOK
<1>7. \A r \in Proc : parent'[r] = IF r = q THEN NoProc ELSE parent[r]
  BY <1>1, <1>2, <1>3, <1>4, <1>5 DEF TypeOK
<1>8. ptlock' = NoCpu
  BY <1>5
<1>9. \A r \in Proc, i \in Thread : tstate'[r][i] =
           IF r = q THEN "UNUSED" ELSE tstate[r][i]
  BY <1>1, <1>2, <1>3, <1>4, <1>5 DEF TypeOK
<1>10. \A r \in Proc, i \in Thread : arg'[r][i] =
           IF r = q THEN 0 ELSE arg[r][i]
  BY <1>1, <1>2, <1>3, <1>4, <1>5 DEF TypeOK
<1>11. \A r \in Proc, i \in Thread : pc'[r][i] =
           IF r = q \/ (r = p /\ i = thidx[p]) THEN "user" ELSE pc[r][i]
  BY <1>1, <1>2, <1>3, <1>4, <1>5 DEF TypeOK
<1>12. \A r \in Proc, i \in Thread : fresh'[r][i] => r = q \/ fresh[r][i]
  BY <1>4, <1>5 DEF TypeOK
<1>13. UNCHANGED <<thidx, ofile, ref, outstanding, running, fault>>
  BY DEF WaitReaps, procVars, threadVars, fileVars
<1>14. TypeOK'
  BY <1>1, <1>2, <1>3, <1>4, <1>5, <1>13
     DEF TypeOK, States, Points, Preemptible, HoldsPtable
<1>15. OneThreadPerProcess'
  <2>1. UNCHANGED <<thidx, running>>
    BY <1>13
  <2> QED BY <1>1, <1>2, <1>3, <1>4, <1>6, <1>9, Sizes, Ranges, <2>1
     DEF OneThreadPerProcess
<1>16. ForkChild'
  BY <1>1, <1>2, <1>3, <1>4, <1>6, <1>11, <1>10 DEF ForkChild, Forking, Live
<1>17. FreshSlots'
  BY <1>2, <1>3, <1>4, <1>6, <1>11, <1>9 DEF FreshSlots
<1>18. InitLive'
  BY <1>2, <1>3, <1>4, <1>6, <1>7, <1>11, Sizes DEF InitLive, Live
<1>19. OpsCounted'
  <2>1. InOps' \subseteq InOps
    BY <1>2, <1>3, <1>4, <1>11 DEF InOps
  <2>2. outstanding' = outstanding /\ outstanding \in Nat
    BY <1>13, Ranges
  <2> QED BY <2>1, <2>2, OpsShrink
<1>20. PtableHeld'
  <2>1. UNCHANGED <<running, thidx>>
    BY <1>13
  <2> QED BY <1>1, <1>2, <1>3, <1>4, <1>8, <1>11, Sizes, Ranges, <2>1
     DEF PtableHeld, HoldsPtable, OneThreadPerProcess
<1>21. NoLostJoin'
  BY <1>1, <1>2, <1>3, <1>4, <1>6, <1>9, <1>11, <1>10, <1>12 DEF NoLostJoin, Joining
<1>22. NoLostChildWakeup'
  <2>1. SUFFICES ASSUME NEW r \in Proc, NEW i \in Thread, NEW k \in Proc,
                        pstate'[r] \in {"RUNNABLE", "RUNNING"},
                        tstate'[r][i] = "SLEEPING", pc'[r][i] = "wait",
                        parent'[k] = r, pstate'[k] = "ZOMBIE"
                 PROVE  FALSE
    BY DEF NoLostChildWakeup, InWait, Zombies, Children
  <2>2. r # q /\ k # q /\ pstate[r] \in {"RUNNABLE", "RUNNING"} /\ pstate[k] = "ZOMBIE"
    BY <1>6, <2>1
  <2>3. tstate[r][i] = "SLEEPING" /\ pc[r][i] = "wait" /\ parent[k] = r
    BY <1>7, <1>9, <1>11, <2>1, <2>2
  <2> QED BY <2>2, <2>3 DEF NoLostChildWakeup, InWait, Zombies, Children
<1> QED BY <1>14, <1>15, <1>16, <1>17, <1>18, <1>19, <1>20, <1>21, <1>22

(* wait() sleeps.                                                          *)
LEMMA Keeps_WaitSleeps ==
    ASSUME LwpInv, NEW c \in Cpu, NEW p \in Proc, WaitSleeps(c, p)
    PROVE  LwpInv'
<1> USE DEF LwpInv
<1>1. running[c] = p
  BY DEF WaitSleeps, Waiting, Calling, At, On
<1>2. /\ pstate[p] = "RUNNING" /\ thidx[p] \in Thread
      /\ tstate[p][thidx[p]] = "RUNNING"
  BY <1>1, Runs
<1>3. /\ pc[p][thidx[p]] \in {"sys", "wait"} /\ ptlock \in {c, NoCpu}
      /\ Zombies(p) = {}
  BY <1>1, <1>2 DEF WaitSleeps, Waiting, Calling, At, On, PtableFree
<1>4. /\ pc' = [pc EXCEPT ![p][thidx[p]] = "wait"]
      /\ tstate' = [tstate EXCEPT ![p][thidx[p]] = "SLEEPING"]
      /\ pstate' = [pstate EXCEPT ![p] = "RUNNABLE"]
      /\ running' = [running EXCEPT ![c] = NoProc]
      /\ ptlock' = NoCpu
  BY <1>1, <1>2, <1>3 DEF WaitSleeps, Goto, Leave, TypeOK
<1>5. \A r \in Proc, i \in Thread : pc'[r][i] =
           IF r = p /\ i = thidx[p] THEN "wait" ELSE pc[r][i]
  BY <1>1, <1>2, <1>3, <1>4 DEF TypeOK
<1>6. \A r \in Proc, i \in Thread : tstate'[r][i] =
           IF r = p /\ i = thidx[p] THEN "SLEEPING" ELSE tstate[r][i]
  BY <1>1, <1>2, <1>3, <1>4 DEF TypeOK
<1>7. \A r \in Proc : pstate'[r] = IF r = p THEN "RUNNABLE" ELSE pstate[r]
  BY <1>1, <1>2, <1>3, <1>4 DEF TypeOK
<1>8. \A d \in Cpu : running'[d] = IF d = c THEN NoProc ELSE running[d]
  BY <1>1, <1>2, <1>3, <1>4 DEF TypeOK
<1>9. ptlock' = NoCpu
  BY <1>4
<1>10. UNCHANGED <<parent, killed, thidx, arg, fresh, ofile,
                  ref, outstanding, fault>>
  BY DEF WaitSleeps, procVars, threadVars, fileVars
<1>11. TypeOK'
  BY <1>1, <1>2, <1>3, <1>4, <1>10 DEF TypeOK, States, Points, Preemptible, HoldsPtable
<1>12. OneThreadPerProcess'
  <2>1. UNCHANGED <<thidx>>
    BY <1>10
  <2> QED BY <1>1, <1>2, <1>3, <1>7, <1>6, <1>8, Sizes, Ranges, <2>1
     DEF OneThreadPerProcess
<1>13. ForkChild'
  <2>1. UNCHANGED <<arg>>
    BY <1>10
  <2> QED BY <1>1, <1>2, <1>3, <1>7, <1>5, <2>1 DEF ForkChild, Forking, Live
<1>14. FreshSlots'
  BY <1>2, <1>3, <1>7, <1>5, <1>6 DEF FreshSlots
<1>15. InitLive'
  <2>1. UNCHANGED <<parent>>
    BY <1>10
  <2> QED BY <1>2, <1>3, <1>7, <1>5, Sizes, <2>1 DEF InitLive, Live
<1>16. OpsCounted'
  <2>1. InOps' \subseteq InOps
    BY <1>2, <1>3, <1>5 DEF InOps
  <2>2. outstanding' = outstanding /\ outstanding \in Nat
    BY <1>10, Ranges
  <2> QED BY <2>1, <2>2, OpsShrink
<1>17. PtableHeld'
  <2>1. UNCHANGED <<thidx>>
    BY <1>10
  <2> QED BY <1>1, <1>2, <1>3, <1>9, <1>8, <1>5, Sizes, Ranges, <2>1
     DEF PtableHeld, HoldsPtable, OneThreadPerProcess
<1>18. NoLostJoin'
  <2>1. UNCHANGED <<arg, fresh>>
    BY <1>10
  <2> QED BY <1>1, <1>2, <1>3, <1>7, <1>6, <1>5, <2>1 DEF NoLostJoin, Joining
<1>19. NoLostChildWakeup'
  <2>1. UNCHANGED <<parent>>
    BY <1>10
  <2> QED BY <1>1, <1>2, <1>3, <1>7, <1>6, <1>5, <2>1
     DEF NoLostChildWakeup, InWait, Zombies, Children
<1> QED BY <1>11, <1>12, <1>13, <1>14, <1>15, <1>16, <1>17, <1>18, <1>19

(* kill() marks a process and wakes one thread of it.                      *)
LEMMA Keeps_kill ==
    ASSUME LwpInv, NEW c \in Cpu, NEW p \in Proc, NEW q \in Proc, kill(c, p, q)
    PROVE  LwpInv'
<1> USE DEF LwpInv
<1>1. running[c] = p
  BY DEF kill, Calling, At, On
<1>2. /\ pstate[p] = "RUNNING" /\ thidx[p] \in Thread
      /\ tstate[p][thidx[p]] = "RUNNING"
  BY <1>1, Runs
<1>3. pc[p][thidx[p]] = "sys"
  BY <1>1, <1>2 DEF kill, Calling, At, On, PtableFree
<1>4. /\ killed' = [killed EXCEPT ![q] = TRUE]
      /\ pc' = [pc EXCEPT ![p][thidx[p]] = "user"]
      /\ tstate' = [tstate EXCEPT ![q][thidx[q]] = IF @ = "SLEEPING" THEN "RUNNABLE" ELSE @]
  BY DEF kill, Goto
<1>5. \A r \in Proc, i \in Thread : pc'[r][i] =
           IF r = p /\ i = thidx[p] THEN "user" ELSE pc[r][i]
  BY <1>1, <1>2, <1>3, <1>4 DEF TypeOK
<1>6. \A r \in Proc, i \in Thread :
      \/ tstate'[r][i] = tstate[r][i]
      \/ tstate[r][i] = "SLEEPING" /\ tstate'[r][i] = "RUNNABLE"
  BY <1>4 DEF TypeOK
<1>7. UNCHANGED <<pstate, parent, thidx, arg, fresh, ofile,
                  ref, outstanding, running, ptlock, fault>>
  BY DEF kill, procVars, threadVars, fileVars
<1>8. TypeOK'
  <2>1. "user" \in Points /\ "RUNNABLE" \in States
    BY DEF States, Points, Preemptible
  <2>2. pc' \in [Proc -> [Thread -> Points]]
    BY <1>4, <2>1 DEF TypeOK
  <2>3. tstate' \in [Proc -> [Thread -> States]]
    BY <1>4, <2>1 DEF TypeOK
  <2>4. killed' \in [Proc -> BOOLEAN]
    BY <1>4 DEF TypeOK
  <2> QED BY <1>7, <2>2, <2>3, <2>4 DEF TypeOK
<1>9. OneThreadPerProcess'
  <2>1. UNCHANGED <<pstate, thidx, running>>
    BY <1>7
  <2> QED BY <1>1, <1>2, <1>3, <1>6, Sizes, Ranges, <2>1 DEF OneThreadPerProcess
<1>10. ForkChild'
  <2>1. UNCHANGED <<pstate, arg>>
    BY <1>7
  <2> QED BY <1>1, <1>2, <1>3, <1>5, <2>1 DEF ForkChild, Forking, Live
<1>11. FreshSlots'
  <2>1. UNCHANGED <<pstate>>
    BY <1>7
  <2> QED BY <1>2, <1>3, <1>5, <1>6, <2>1 DEF FreshSlots
<1>12. InitLive'
  <2>1. UNCHANGED <<pstate, parent>>
    BY <1>7
  <2> QED BY <1>2, <1>3, <1>5, Sizes, <2>1 DEF InitLive, Live
<1>13. OpsCounted'
  <2>1. InOps' \subseteq InOps
    BY <1>2, <1>3, <1>5 DEF InOps
  <2>2. outstanding' = outstanding /\ outstanding \in Nat
    BY <1>7, Ranges
  <2> QED BY <2>1, <2>2, OpsShrink
<1>14. PtableHeld'
  <2>1. UNCHANGED <<ptlock, running, thidx>>
    BY <1>7
  <2> QED BY <1>1, <1>2, <1>3, <1>5, Sizes, Ranges, <2>1
     DEF PtableHeld, HoldsPtable, OneThreadPerProcess
<1>15. NoLostJoin'
  <2>1. UNCHANGED <<pstate, arg, fresh>>
    BY <1>7
  <2> QED BY <1>1, <1>2, <1>3, <1>6, <1>5, <2>1 DEF NoLostJoin, Joining
<1>16. NoLostChildWakeup'
  <2>1. UNCHANGED <<pstate, parent>>
    BY <1>7
  <2> QED BY <1>1, <1>2, <1>3, <1>6, <1>5, <2>1
     DEF NoLostChildWakeup, InWait, Zombies, Children
<1> QED BY <1>8, <1>9, <1>10, <1>11, <1>12, <1>13, <1>14, <1>15, <1>16

(* A read sleeps.                                                          *)
LEMMA Keeps_ReadSleeps ==
    ASSUME LwpInv, NEW c \in Cpu, NEW p \in Proc, ReadSleeps(c, p)
    PROVE  LwpInv'
<1> USE DEF LwpInv
<1>1. running[c] = p
  BY DEF ReadSleeps, At, On
<1>2. /\ pstate[p] = "RUNNING" /\ thidx[p] \in Thread
      /\ tstate[p][thidx[p]] = "RUNNING"
  BY <1>1, Runs
<1>3. pc[p][thidx[p]] = "rdsleep" /\ ptlock = NoCpu
  BY <1>1, <1>2 DEF ReadSleeps, At, On, PtableFree
<1>4. /\ pc' = [pc EXCEPT ![p][thidx[p]] = "read"]
      /\ tstate' = [tstate EXCEPT ![p][thidx[p]] = "SLEEPING"]
      /\ pstate' = [pstate EXCEPT ![p] = "RUNNABLE"]
      /\ running' = [running EXCEPT ![c] = NoProc]
      /\ ptlock' = NoCpu
  BY <1>1, <1>2, <1>3 DEF ReadSleeps, Goto, Leave, TypeOK
<1>5. \A r \in Proc, i \in Thread : pc'[r][i] =
           IF r = p /\ i = thidx[p] THEN "read" ELSE pc[r][i]
  BY <1>1, <1>2, <1>3, <1>4 DEF TypeOK
<1>6. \A r \in Proc, i \in Thread : tstate'[r][i] =
           IF r = p /\ i = thidx[p] THEN "SLEEPING" ELSE tstate[r][i]
  BY <1>1, <1>2, <1>3, <1>4 DEF TypeOK
<1>7. \A r \in Proc : pstate'[r] = IF r = p THEN "RUNNABLE" ELSE pstate[r]
  BY <1>1, <1>2, <1>3, <1>4 DEF TypeOK
<1>8. \A d \in Cpu : running'[d] = IF d = c THEN NoProc ELSE running[d]
  BY <1>1, <1>2, <1>3, <1>4 DEF TypeOK
<1>9. ptlock' = NoCpu
  BY <1>4
<1>10. UNCHANGED <<parent, killed, thidx, arg, fresh, ofile,
                  ref, outstanding, fault>>
  BY DEF ReadSleeps, procVars, threadVars, fileVars
<1>11. TypeOK'
  BY <1>1, <1>2, <1>3, <1>4, <1>10 DEF TypeOK, States, Points, Preemptible, HoldsPtable
<1>12. OneThreadPerProcess'
  <2>1. UNCHANGED <<thidx>>
    BY <1>10
  <2> QED BY <1>1, <1>2, <1>3, <1>7, <1>6, <1>8, Sizes, Ranges, <2>1
     DEF OneThreadPerProcess
<1>13. ForkChild'
  <2>1. UNCHANGED <<arg>>
    BY <1>10
  <2> QED BY <1>1, <1>2, <1>3, <1>7, <1>5, <2>1 DEF ForkChild, Forking, Live
<1>14. FreshSlots'
  BY <1>2, <1>3, <1>7, <1>5, <1>6 DEF FreshSlots
<1>15. InitLive'
  <2>1. UNCHANGED <<parent>>
    BY <1>10
  <2> QED BY <1>2, <1>3, <1>7, <1>5, Sizes, <2>1 DEF InitLive, Live
<1>16. OpsCounted'
  <2>1. InOps' \subseteq InOps
    BY <1>2, <1>3, <1>5 DEF InOps
  <2>2. outstanding' = outstanding /\ outstanding \in Nat
    BY <1>10, Ranges
  <2> QED BY <2>1, <2>2, OpsShrink
<1>17. PtableHeld'
  <2>1. UNCHANGED <<thidx>>
    BY <1>10
  <2> QED BY <1>1, <1>2, <1>3, <1>9, <1>8, <1>5, Sizes, Ranges, <2>1
     DEF PtableHeld, HoldsPtable, OneThreadPerProcess
<1>18. NoLostJoin'
  <2>1. UNCHANGED <<arg, fresh>>
    BY <1>10
  <2> QED BY <1>1, <1>2, <1>3, <1>7, <1>6, <1>5, <2>1 DEF NoLostJoin, Joining
<1>19. NoLostChildWakeup'
  <2>1. UNCHANGED <<parent>>
    BY <1>10
  <2> QED BY <1>1, <1>2, <1>3, <1>7, <1>6, <1>5, <2>1
     DEF NoLostChildWakeup, InWait, Zombies, Children
<1> QED BY <1>11, <1>12, <1>13, <1>14, <1>15, <1>16, <1>17, <1>18, <1>19

(* A device wakes its readers.                                             *)
LEMMA Keeps_DeviceWakes ==
    ASSUME LwpInv, DeviceWakes
    PROVE  LwpInv'
<1> USE DEF LwpInv
<1>1. tstate' \in [Proc -> [Thread -> States]]
  BY DEF DeviceWakes, wakeup1, TypeOK, States
<1>2. \A r \in Proc, i \in Thread :
      \/ tstate'[r][i] = tstate[r][i]
      \/ tstate[r][i] = "SLEEPING" /\ tstate'[r][i] = "RUNNABLE"
  BY DEF DeviceWakes, wakeup1
<1>3. UNCHANGED <<pstate, parent, killed, thidx, pc, arg,
                  fresh, ofile, ref, outstanding, running, ptlock, fault>>
  BY DEF DeviceWakes, procVars, threadVars, fileVars
<1>4. TypeOK'
  BY <1>1, <1>3 DEF TypeOK, States, Points, Preemptible, HoldsPtable
<1>5. OneThreadPerProcess'
  <2>1. UNCHANGED <<pstate, thidx, running>>
    BY <1>3
  <2> QED BY <1>2, Sizes, Ranges, <2>1 DEF OneThreadPerProcess
<1>6. ForkChild'
  <2>1. UNCHANGED <<pstate, pc, arg>>
    BY <1>3
  <2> QED BY <2>1 DEF ForkChild, Forking, Live
<1>7. FreshSlots'
  <2>1. UNCHANGED <<pstate, pc>>
    BY <1>3
  <2> QED BY <1>2, <2>1 DEF FreshSlots
<1>8. InitLive'
  <2>1. UNCHANGED <<pstate, parent, pc>>
    BY <1>3
  <2> QED BY Sizes, <2>1 DEF InitLive, Live
<1>9. OpsCounted'
  <2>1. InOps' \subseteq InOps
    BY <1>3 DEF InOps
  <2>2. outstanding' = outstanding /\ outstanding \in Nat
    BY <1>3, Ranges
  <2> QED BY <2>1, <2>2, OpsShrink
<1>10. PtableHeld'
  <2>1. UNCHANGED <<ptlock, running, pc, thidx>>
    BY <1>3
  <2> QED BY Sizes, Ranges, <2>1 DEF PtableHeld, HoldsPtable, OneThreadPerProcess
<1>11. NoLostJoin'
  <2>1. UNCHANGED <<pstate, pc, arg, fresh>>
    BY <1>3
  <2> QED BY <1>2, <2>1 DEF NoLostJoin, Joining
<1>12. NoLostChildWakeup'
  <2>1. UNCHANGED <<pstate, pc, parent>>
    BY <1>3
  <2> QED BY <1>2, <2>1 DEF NoLostChildWakeup, InWait, Zombies, Children
<1> QED BY <1>4, <1>5, <1>6, <1>7, <1>8, <1>9, <1>10, <1>11, <1>12

(* A file system operation begins.                                         *)
LEMMA Keeps_begin_op ==
    ASSUME LwpInv, NEW c \in Cpu, NEW p \in Proc, begin_op(c, p)
    PROVE  LwpInv'
<1> USE DEF LwpInv
<1>1. running[c] = p
  BY DEF begin_op, Calling, At, On
<1>2. /\ pstate[p] = "RUNNING" /\ thidx[p] \in Thread
      /\ tstate[p][thidx[p]] = "RUNNING"
  BY <1>1, Runs
<1>3. pc[p][thidx[p]] = "sys" /\ outstanding < MaxOps
  BY <1>1, <1>2 DEF begin_op, Calling, At, On
<1>4. /\ pc' = [pc EXCEPT ![p][thidx[p]] = "op"]
      /\ outstanding' = outstanding + 1
  BY <1>1, <1>2, <1>3 DEF begin_op, Goto, TypeOK
<1>5. \A r \in Proc, i \in Thread : pc'[r][i] =
           IF r = p /\ i = thidx[p] THEN "op" ELSE pc[r][i]
  BY <1>1, <1>2, <1>3, <1>4 DEF TypeOK
<1>6. outstanding' = outstanding + 1
  BY <1>4
<1>7. UNCHANGED <<pstate, parent, killed, thidx, tstate, arg,
                  fresh, ofile, ref, running, ptlock, fault>>
  BY DEF begin_op, procVars, threadVars, fileVars
<1>8. TypeOK'
  <2>1. outstanding' \in 0..MaxOps
    BY <1>3, <1>4, Ranges, Sizes
  <2> QED BY <1>2, <1>4, <1>7, <2>1 DEF TypeOK, States, Points, Preemptible, HoldsPtable
<1>9. OneThreadPerProcess'
  <2>1. UNCHANGED <<pstate, thidx, tstate, running>>
    BY <1>7
  <2> QED BY <1>1, <1>2, <1>3, Sizes, Ranges, <2>1 DEF OneThreadPerProcess
<1>10. ForkChild'
  <2>1. UNCHANGED <<pstate, arg>>
    BY <1>7
  <2> QED BY <1>1, <1>2, <1>3, <1>5, <2>1 DEF ForkChild, Forking, Live
<1>11. FreshSlots'
  <2>1. UNCHANGED <<pstate, tstate>>
    BY <1>7
  <2> QED BY <1>2, <1>3, <1>5, <2>1 DEF FreshSlots
<1>12. InitLive'
  <2>1. UNCHANGED <<pstate, parent>>
    BY <1>7
  <2> QED BY <1>2, <1>3, <1>5, Sizes, <2>1 DEF InitLive, Live
<1>13. OpsCounted'
  <2>1. InOps' = InOps \cup {<<p, thidx[p]>>}
    BY <1>2, <1>3, <1>5 DEF InOps
  <2>2. <<p, thidx[p]>> \notin InOps
    BY <1>3 DEF InOps
  <2>3. outstanding' = outstanding + 1 /\ outstanding \in Nat
    BY <1>4, Ranges
  <2>4. IsFiniteSet(InOps) /\ Cardinality(InOps) \in Nat
    BY FS_CardinalityType DEF OpsCounted
  <2>5. IsFiniteSet(InOps') /\ Cardinality(InOps') = Cardinality(InOps) + 1
    BY <2>1, <2>2, <2>4, FS_AddElement
  <2> QED BY <2>3, <2>4, <2>5 DEF OpsCounted
<1>14. PtableHeld'
  <2>1. UNCHANGED <<ptlock, running, thidx>>
    BY <1>7
  <2> QED BY <1>1, <1>2, <1>3, <1>5, Sizes, Ranges, <2>1
     DEF PtableHeld, HoldsPtable, OneThreadPerProcess
<1>15. NoLostJoin'
  <2>1. UNCHANGED <<pstate, tstate, arg, fresh>>
    BY <1>7
  <2> QED BY <1>1, <1>2, <1>3, <1>5, <2>1 DEF NoLostJoin, Joining
<1>16. NoLostChildWakeup'
  <2>1. UNCHANGED <<pstate, tstate, parent>>
    BY <1>7
  <2> QED BY <1>1, <1>2, <1>3, <1>5, <2>1
     DEF NoLostChildWakeup, InWait, Zombies, Children
<1> QED BY <1>8, <1>9, <1>10, <1>11, <1>12, <1>13, <1>14, <1>15, <1>16

(* A file system operation ends.                                           *)
LEMMA Keeps_end_op ==
    ASSUME LwpInv, NEW c \in Cpu, NEW p \in Proc, end_op(c, p)
    PROVE  LwpInv'
<1> USE DEF LwpInv
<1>1. running[c] = p
  BY DEF end_op, At, On
<1>2. /\ pstate[p] = "RUNNING" /\ thidx[p] \in Thread
      /\ tstate[p][thidx[p]] = "RUNNING"
  BY <1>1, Runs
<1>3. pc[p][thidx[p]] = "op" /\ <<p, thidx[p]>> \in InOps
  BY <1>2 DEF end_op, At, On, InOps
<1>4. outstanding \in 1..MaxOps
  <2>1. Cardinality(InOps) # 0 /\ Cardinality(InOps) \in Nat
    BY <1>3, FS_EmptySet, FS_CardinalityType DEF OpsCounted
  <2>2. Cardinality(InOps) <= outstanding /\ outstanding \in 0..MaxOps
    BY DEF OpsCounted, TypeOK
  <2> QED BY <2>1, <2>2
<1>5. /\ pc' = [pc EXCEPT ![p][thidx[p]] = "user"]
      /\ outstanding' = outstanding - 1
  BY <1>1, <1>2, <1>3, <1>4 DEF end_op, Goto, TypeOK
<1>6. \A r \in Proc, i \in Thread : pc'[r][i] =
           IF r = p /\ i = thidx[p] THEN "user" ELSE pc[r][i]
  BY <1>1, <1>2, <1>3, <1>4, <1>5 DEF TypeOK
<1>7. outstanding' = outstanding - 1
  BY <1>5
<1>8. UNCHANGED <<pstate, parent, killed, thidx, tstate, arg,
                  fresh, ofile, ref, running, ptlock, fault>>
  BY DEF end_op, procVars, threadVars, fileVars
<1>9. TypeOK'
  <2>1. outstanding' \in 0..MaxOps
    BY <1>4, <1>5, Sizes
  <2> QED BY <1>2, <1>5, <1>8, <2>1 DEF TypeOK, States, Points, Preemptible, HoldsPtable
<1>10. OneThreadPerProcess'
  <2>1. UNCHANGED <<pstate, thidx, tstate, running>>
    BY <1>8
  <2> QED BY <1>1, <1>2, <1>3, <1>4, Sizes, Ranges, <2>1 DEF OneThreadPerProcess
<1>11. ForkChild'
  <2>1. UNCHANGED <<pstate, arg>>
    BY <1>8
  <2> QED BY <1>1, <1>2, <1>3, <1>4, <1>6, <2>1 DEF ForkChild, Forking, Live
<1>12. FreshSlots'
  <2>1. UNCHANGED <<pstate, tstate>>
    BY <1>8
  <2> QED BY <1>2, <1>3, <1>4, <1>6, <2>1 DEF FreshSlots
<1>13. InitLive'
  <2>1. UNCHANGED <<pstate, parent>>
    BY <1>8
  <2> QED BY <1>2, <1>3, <1>4, <1>6, Sizes, <2>1 DEF InitLive, Live
<1>14. OpsCounted'
  <2>1. InOps' = InOps \ {<<p, thidx[p]>>}
    BY <1>2, <1>3, <1>4, <1>6 DEF InOps
  <2>2. outstanding' = outstanding - 1 /\ outstanding \in Nat
    BY <1>5, Ranges
  <2>3. /\ IsFiniteSet(InOps') /\ Cardinality(InOps') = Cardinality(InOps) - 1
        /\ Cardinality(InOps) \in Nat
    BY <1>3, <2>1, FS_RemoveElement, FS_CardinalityType DEF OpsCounted
  <2> QED BY <2>2, <2>3 DEF OpsCounted
<1>15. PtableHeld'
  <2>1. UNCHANGED <<ptlock, running, thidx>>
    BY <1>8
  <2> QED BY <1>1, <1>2, <1>3, <1>4, <1>6, Sizes, Ranges, <2>1
     DEF PtableHeld, HoldsPtable, OneThreadPerProcess
<1>16. NoLostJoin'
  <2>1. UNCHANGED <<pstate, tstate, arg, fresh>>
    BY <1>8
  <2> QED BY <1>1, <1>2, <1>3, <1>4, <1>6, <2>1 DEF NoLostJoin, Joining
<1>17. NoLostChildWakeup'
  <2>1. UNCHANGED <<pstate, tstate, parent>>
    BY <1>8
  <2> QED BY <1>1, <1>2, <1>3, <1>4, <1>6, <2>1
     DEF NoLostChildWakeup, InWait, Zombies, Children
<1> QED BY <1>9, <1>10, <1>11, <1>12, <1>13, <1>14, <1>15, <1>16, <1>17

(* A thread is made.                                                       *)
LEMMA Keeps_thread_create ==
    ASSUME LwpInv, NEW c \in Cpu, NEW p \in Proc, thread_create(c, p)
    PROVE  LwpInv'
<1> USE DEF LwpInv
<1>1. running[c] = p
  BY DEF thread_create, Calling, At, On
<1>2. /\ pstate[p] = "RUNNING" /\ thidx[p] \in Thread
      /\ tstate[p][thidx[p]] = "RUNNING"
  BY <1>1, Runs
<1>3. pc[p][thidx[p]] = "sys" /\ ptlock = NoCpu
  BY <1>1, <1>2 DEF thread_create, Calling, At, On, PtableFree
<1>4. PICK j \in Thread : j = First(UnusedThreads(p)) /\ tstate[p][j] = "UNUSED" /\ j # thidx[p]
  <2>1. UnusedThreads(p) \subseteq Nat /\ UnusedThreads(p) # {}
    BY Slots DEF thread_create, UnusedThreads
  <2> QED BY <1>2, <2>1, FirstFound DEF UnusedThreads
<1>5. /\ tstate' = [tstate EXCEPT ![p][j] = "RUNNABLE"]
      /\ pc' = [pc EXCEPT ![p][j] = "user", ![p][thidx[p]] = "user"]
  BY <1>4 DEF thread_create
<1>6. \A r \in Proc, i \in Thread : tstate'[r][i] =
           IF r = p /\ i = j THEN "RUNNABLE" ELSE tstate[r][i]
  BY <1>1, <1>2, <1>3, <1>4, <1>5 DEF TypeOK
<1>7. \A r \in Proc, i \in Thread : pc'[r][i] =
           IF r = p /\ i \in {j, thidx[p]} THEN "user" ELSE pc[r][i]
  BY <1>1, <1>2, <1>3, <1>4, <1>5 DEF TypeOK
<1>8. UNCHANGED <<pstate, parent, killed, thidx, arg, fresh,
                  ofile, ref, outstanding, running, ptlock, fault>>
  BY DEF thread_create, procVars, threadVars, fileVars
<1>9. TypeOK'
  BY <1>1, <1>2, <1>3, <1>4, <1>5, <1>8
     DEF TypeOK, States, Points, Preemptible, HoldsPtable
<1>10. OneThreadPerProcess'
  <2>1. UNCHANGED <<pstate, thidx, running>>
    BY <1>8
  <2> QED BY <1>1, <1>2, <1>3, <1>4, <1>6, Sizes, Ranges, <2>1 DEF OneThreadPerProcess
<1>11. ForkChild'
  <2>1. UNCHANGED <<pstate, arg>>
    BY <1>8
  <2> QED BY <1>1, <1>2, <1>3, <1>4, <1>7, <2>1 DEF ForkChild, Forking, Live
<1>12. FreshSlots'
  <2>1. UNCHANGED <<pstate>>
    BY <1>8
  <2> QED BY <1>2, <1>3, <1>4, <1>7, <1>6, <2>1 DEF FreshSlots
<1>13. InitLive'
  <2>1. UNCHANGED <<pstate, parent>>
    BY <1>8
  <2> QED BY <1>2, <1>3, <1>4, <1>7, Sizes, <2>1 DEF InitLive, Live
<1>14. OpsCounted'
  <2>1. InOps' \subseteq InOps
    BY <1>2, <1>3, <1>4, <1>7 DEF InOps
  <2>2. outstanding' = outstanding /\ outstanding \in Nat
    BY <1>8, Ranges
  <2> QED BY <2>1, <2>2, OpsShrink
<1>15. PtableHeld'
  <2>1. UNCHANGED <<ptlock, running, thidx>>
    BY <1>8
  <2> QED BY <1>1, <1>2, <1>3, <1>4, <1>7, Sizes, Ranges, <2>1
     DEF PtableHeld, HoldsPtable, OneThreadPerProcess
<1>16. NoLostJoin'
  <2>1. UNCHANGED <<pstate, arg, fresh>>
    BY <1>8
  <2> QED BY <1>1, <1>2, <1>3, <1>4, <1>6, <1>7, <2>1 DEF NoLostJoin, Joining
<1>17. NoLostChildWakeup'
  <2>1. UNCHANGED <<pstate, parent>>
    BY <1>8
  <2> QED BY <1>1, <1>2, <1>3, <1>4, <1>6, <1>7, <2>1
     DEF NoLostChildWakeup, InWait, Zombies, Children
<1> QED BY <1>9, <1>10, <1>11, <1>12, <1>13, <1>14, <1>15, <1>16, <1>17

(* thread_create fails with ptable.lock in hand.                           *)
LEMMA Keeps_CreateFails ==
    ASSUME LwpInv, NEW c \in Cpu, NEW p \in Proc, CreateFails(c, p)
    PROVE  LwpInv'
<1> USE DEF LwpInv
<1>1. running[c] = p
  BY DEF CreateFails, Calling, At, On
<1>2. /\ pstate[p] = "RUNNING" /\ thidx[p] \in Thread
      /\ tstate[p][thidx[p]] = "RUNNING"
  BY <1>1, Runs
<1>3. pc[p][thidx[p]] = "sys" /\ ptlock = NoCpu
  BY <1>1, <1>2 DEF CreateFails, Calling, At, On, PtableFree
<1>4. /\ pc' = [pc EXCEPT ![p][thidx[p]] = "user"]
      /\ ptlock' = c
  BY <1>1, <1>2, <1>3 DEF CreateFails, Goto, TypeOK
<1>5. \/ tstate' = tstate
      \/ \E x \in Thread : /\ tstate[p][x] = "UNUSED"
                          /\ tstate' = [tstate EXCEPT ![p][x] = "EMBRYO"]
  <2>1. CASE tstate' = tstate
    BY <2>1
  <2>2. CASE /\ UnusedThreads(p) # {}
             /\ tstate' = [tstate EXCEPT ![p][First(UnusedThreads(p))] = "EMBRYO"]
    <3>1. First(UnusedThreads(p)) \in UnusedThreads(p)
      BY <2>2, Slots, FirstFound DEF UnusedThreads
    <3> QED BY <2>2, <3>1 DEF UnusedThreads
  <2> QED BY <2>1, <2>2 DEF CreateFails
<1>6. /\ tstate' \in [Proc -> [Thread -> States]]
      /\ \A r \in Proc, i \in Thread :
           \/ tstate'[r][i] = tstate[r][i]
           \/ tstate[r][i] = "UNUSED" /\ tstate'[r][i] = "EMBRYO" /\ r = p
  <2>1. tstate \in [Proc -> [Thread -> States]]
    BY DEF TypeOK
  <2>2. CASE tstate' = tstate
    BY <2>1, <2>2
  <2>3. CASE \E x \in Thread : /\ tstate[p][x] = "UNUSED"
                              /\ tstate' = [tstate EXCEPT ![p][x] = "EMBRYO"]
    BY <2>1, <2>3 DEF States
  <2> QED BY <1>5, <2>2, <2>3
<1>7. tstate' \in [Proc -> [Thread -> States]]
  BY <1>6
<1>8. \A r \in Proc, i \in Thread : pc'[r][i] =
           IF r = p /\ i = thidx[p] THEN "user" ELSE pc[r][i]
  BY <1>1, <1>2, <1>3, <1>4, <1>7 DEF TypeOK
<1>9. ptlock' = c
  BY <1>4, <1>7
<1>10. \A r \in Proc, i \in Thread :
      \/ tstate'[r][i] = tstate[r][i]
      \/ tstate[r][i] = "UNUSED" /\ tstate'[r][i] = "EMBRYO" /\ r = p
  BY <1>6
<1>11. UNCHANGED <<pstate, parent, killed, thidx, arg, fresh,
                  ofile, ref, outstanding, running, fault>>
  BY DEF CreateFails, procVars, threadVars, fileVars
<1>12. TypeOK'
  BY <1>1, <1>2, <1>3, <1>4, <1>7, <1>11
     DEF TypeOK, States, Points, Preemptible, HoldsPtable
<1>13. OneThreadPerProcess'
  <2>1. UNCHANGED <<pstate, thidx, running>>
    BY <1>11
  <2> QED BY <1>1, <1>2, <1>3, <1>10, Sizes, Ranges, <2>1 DEF OneThreadPerProcess
<1>14. ForkChild'
  <2>1. UNCHANGED <<pstate, arg>>
    BY <1>11
  <2> QED BY <1>1, <1>2, <1>3, <1>8, <2>1 DEF ForkChild, Forking, Live
<1>15. FreshSlots'
  <2>1. UNCHANGED <<pstate>>
    BY <1>11
  <2> QED BY <1>2, <1>3, <1>8, <1>10, <2>1 DEF FreshSlots
<1>16. InitLive'
  <2>1. UNCHANGED <<pstate, parent>>
    BY <1>11
  <2> QED BY <1>2, <1>3, <1>8, Sizes, <2>1 DEF InitLive, Live
<1>17. OpsCounted'
  <2>1. InOps' \subseteq InOps
    BY <1>2, <1>3, <1>8 DEF InOps
  <2>2. outstanding' = outstanding /\ outstanding \in Nat
    BY <1>11, Ranges
  <2> QED BY <2>1, <2>2, OpsShrink
<1>18. PtableHeld'
  <2>1. UNCHANGED <<running, thidx>>
    BY <1>11
  <2> QED BY <1>1, <1>2, <1>3, <1>9, <1>8, Sizes, Ranges, <2>1
     DEF PtableHeld, HoldsPtable, OneThreadPerProcess
<1>19. NoLostJoin'
  <2>1. UNCHANGED <<pstate, arg, fresh>>
    BY <1>11
  <2> QED BY <1>1, <1>2, <1>3, <1>10, <1>8, <2>1 DEF NoLostJoin, Joining
<1>20. NoLostChildWakeup'
  <2>1. UNCHANGED <<pstate, parent>>
    BY <1>11
  <2> QED BY <1>1, <1>2, <1>3, <1>10, <1>8, <2>1
     DEF NoLostChildWakeup, InWait, Zombies, Children
<1> QED BY <1>12, <1>13, <1>14, <1>15, <1>16, <1>17, <1>18, <1>19, <1>20

(* A thread ends and wakes its joiners.                                    *)
LEMMA Keeps_thread_exit ==
    ASSUME LwpInv, NEW c \in Cpu, NEW p \in Proc, thread_exit(c, p)
    PROVE  LwpInv'
<1> USE DEF LwpInv
<1>1. running[c] = p
  BY DEF thread_exit, Calling, At, On
<1>2. /\ pstate[p] = "RUNNING" /\ thidx[p] \in Thread
      /\ tstate[p][thidx[p]] = "RUNNING"
  BY <1>1, Runs
<1>3. pc[p][thidx[p]] = "sys" /\ ptlock = NoCpu
  BY <1>1, <1>2 DEF thread_exit, Calling, At, On, PtableFree
<1>4. /\ pc' = [pc EXCEPT ![p][thidx[p]] = "texit"]
      /\ pstate' = [pstate EXCEPT ![p] = "RUNNABLE"]
      /\ running' = [running EXCEPT ![c] = NoProc]
      /\ ptlock' = NoCpu
      /\ killed' \in [Proc -> BOOLEAN]
  <2>1. killed' \in [Proc -> BOOLEAN]
    BY DEF thread_exit, TypeOK
  <2> QED BY <2>1 DEF thread_exit, Goto, Leave
<1>5. PICK x \in {"RUNNABLE", "ZOMBIE"} :
      tstate' = [JoinersWoken(p, thidx[p], [tstate EXCEPT ![p][thidx[p]] = x])
                   EXCEPT ![p][thidx[p]] = IF @ = "RUNNING" THEN "RUNNABLE" ELSE @]
  BY DEF thread_exit, Leave
<1>6. /\ tstate' \in [Proc -> [Thread -> States]]
      /\ tstate'[p][thidx[p]] \in {"RUNNABLE", "ZOMBIE"}
      /\ \A r \in Proc, i \in Thread : ~(r = p /\ i = thidx[p]) =>
           tstate'[r][i] = IF r = p /\ tstate[r][i] = "SLEEPING" /\ Joining(p, i, thidx[p])
                           THEN "RUNNABLE" ELSE tstate[r][i]
  <2> DEFINE ts == [tstate EXCEPT ![p][thidx[p]] = x]
             woken == JoinersWoken(p, thidx[p], ts)
  <2>1. /\ ts \in [Proc -> [Thread -> States]]
        /\ \A r \in Proc, i \in Thread :
             ts[r][i] = IF r = p /\ i = thidx[p] THEN x ELSE tstate[r][i]
    BY <1>2 DEF TypeOK, States
  <2> HIDE DEF ts
  <2>2. \A r \in Proc, i \in Thread : woken[r][i] =
           IF r = p /\ ts[r][i] = "SLEEPING" /\ Joining(p, i, thidx[p])
           THEN "RUNNABLE" ELSE ts[r][i]
    BY <1>2 DEF JoinersWoken, wakeup1
  <2>3. woken \in [Proc -> [Thread -> States]]
    BY <2>1 DEF JoinersWoken, wakeup1, States
  <2>4. tstate' = [woken EXCEPT ![p][thidx[p]] = IF @ = "RUNNING" THEN "RUNNABLE" ELSE @]
    BY <1>5 DEF ts
  <2> HIDE DEF woken
  <2>5. tstate' \in [Proc -> [Thread -> States]]
    BY <2>3, <2>4 DEF States
  <2>6. \A r \in Proc, i \in Thread : tstate'[r][i] =
          IF r = p /\ i = thidx[p] /\ woken[r][i] = "RUNNING" THEN "RUNNABLE" ELSE woken[r][i]
    BY <1>2, <2>3, <2>4
  <2> QED BY <1>2, <2>1, <2>2, <2>5, <2>6
<1>7. tstate' \in [Proc -> [Thread -> States]]
  BY <1>6
<1>8. \A r \in Proc, i \in Thread : pc'[r][i] =
           IF r = p /\ i = thidx[p] THEN "texit" ELSE pc[r][i]
  BY <1>1, <1>2, <1>3, <1>4, <1>7 DEF TypeOK
<1>9. \A r \in Proc : pstate'[r] = IF r = p THEN "RUNNABLE" ELSE pstate[r]
  BY <1>1, <1>2, <1>3, <1>4, <1>7 DEF TypeOK
<1>10. \A d \in Cpu : running'[d] = IF d = c THEN NoProc ELSE running[d]
  BY <1>1, <1>2, <1>3, <1>4, <1>7 DEF TypeOK
<1>11. ptlock' = NoCpu
  BY <1>4, <1>7
<1>12. /\ tstate'[p][thidx[p]] \in {"RUNNABLE", "ZOMBIE"}
      /\ \A r \in Proc, i \in Thread : ~(r = p /\ i = thidx[p]) =>
           tstate'[r][i] = IF r = p /\ tstate[r][i] = "SLEEPING" /\ Joining(p, i, thidx[p])
                           THEN "RUNNABLE" ELSE tstate[r][i]
  BY <1>6
<1>13. UNCHANGED <<parent, thidx, arg, fresh, ofile, ref,
                  outstanding, fault>>
  BY DEF thread_exit, procVars, threadVars, fileVars
<1>14. TypeOK'
  BY <1>1, <1>2, <1>3, <1>4, <1>7, <1>13
     DEF TypeOK, States, Points, Preemptible, HoldsPtable
<1>15. OneThreadPerProcess'
  <2>1. UNCHANGED <<thidx>>
    BY <1>13
  <2> QED BY <1>1, <1>2, <1>3, <1>9, <1>12, <1>10, Sizes, Ranges, <2>1
     DEF OneThreadPerProcess
<1>16. ForkChild'
  <2>1. UNCHANGED <<arg>>
    BY <1>13
  <2> QED BY <1>1, <1>2, <1>3, <1>9, <1>8, <2>1 DEF ForkChild, Forking, Live
<1>17. FreshSlots'
  BY <1>2, <1>3, <1>9, <1>8, <1>12 DEF FreshSlots
<1>18. InitLive'
  <2>1. UNCHANGED <<parent>>
    BY <1>13
  <2> QED BY <1>2, <1>3, <1>9, <1>8, Sizes, <2>1 DEF InitLive, Live
<1>19. OpsCounted'
  <2>1. InOps' \subseteq InOps
    BY <1>2, <1>3, <1>8 DEF InOps
  <2>2. outstanding' = outstanding /\ outstanding \in Nat
    BY <1>13, Ranges
  <2> QED BY <2>1, <2>2, OpsShrink
<1>20. PtableHeld'
  <2>1. UNCHANGED <<thidx>>
    BY <1>13
  <2> QED BY <1>1, <1>2, <1>3, <1>11, <1>10, <1>8, Sizes, Ranges, <2>1
     DEF PtableHeld, HoldsPtable, OneThreadPerProcess
<1>21. NoLostJoin'
  <2>1. UNCHANGED <<arg, fresh>>
    BY <1>13
  <2> QED BY <1>1, <1>2, <1>3, <1>9, <1>12, <1>8, <2>1 DEF NoLostJoin, Joining
<1>22. NoLostChildWakeup'
  <2>1. UNCHANGED <<parent>>
    BY <1>13
  <2> QED BY <1>1, <1>2, <1>3, <1>9, <1>12, <1>8, <2>1
     DEF NoLostChildWakeup, InWait, Zombies, Children
<1> QED BY <1>14, <1>15, <1>16, <1>17, <1>18, <1>19, <1>20, <1>21, <1>22

(* thread_join frees the thread.                                           *)
LEMMA Keeps_JoinReaps ==
    ASSUME LwpInv, NEW c \in Cpu, NEW p \in Proc, JoinReaps(c, p)
    PROVE  LwpInv'
<1> USE DEF LwpInv
<1>1. running[c] = p
  BY DEF JoinReaps, JoinTargets, Calling, At, On
<1>2. /\ pstate[p] = "RUNNING" /\ thidx[p] \in Thread
      /\ tstate[p][thidx[p]] = "RUNNING"
  BY <1>1, Runs
<1>3. PICK j \in JoinTargets(c, p) :
      /\ tstate[p][j] = "ZOMBIE"
      /\ tstate' = [tstate EXCEPT ![p][j] = "UNUSED"]
      /\ pc' = [pc EXCEPT ![p][j] = "user", ![p][thidx[p]] = "user"]
      /\ arg' = [arg EXCEPT ![p][thidx[p]] = 0]
      /\ fresh' = [fresh EXCEPT ![p] = [k \in Thread |->
                      IF k = thidx[p] THEN TRUE ELSE @[k] /\ ~Joining(p, k, j)]]
      /\ ptlock' = NoCpu
      /\ UNCHANGED <<procVars, thidx, fileVars, running, fault>>
  BY DEF JoinReaps
<1>4. j \in Thread /\ ptlock \in {c, NoCpu} /\ pc[p][thidx[p]] \in {"sys", "join"}
  BY <1>3 DEF JoinTargets, Calling, At, PtableFree
<1>5. tstate[p][j] = "ZOMBIE" /\ j # thidx[p]
  BY <1>2, <1>3
<1>6. /\ tstate' = [tstate EXCEPT ![p][j] = "UNUSED"]
      /\ arg' = [arg EXCEPT ![p][thidx[p]] = 0]
      /\ ptlock' = NoCpu
      /\ pc' = [pc EXCEPT ![p][j] = "user", ![p][thidx[p]] = "user"]
  BY <1>3
<1>7. fresh' \in [Proc -> [Thread -> BOOLEAN]]
  BY <1>3 DEF TypeOK
<1>8. \A r \in Proc, i \in Thread : fresh'[r][i] =>
      (r = p /\ i = thidx[p]) \/ fresh[r][i]
  BY <1>2, <1>3 DEF TypeOK, Joining
<1>9. \A r \in Proc, i \in Thread : tstate'[r][i] =
           IF r = p /\ i = j THEN "UNUSED" ELSE tstate[r][i]
  BY <1>1, <1>2, <1>4, <1>5, <1>6, <1>7 DEF TypeOK
<1>10. \A r \in Proc, i \in Thread : arg'[r][i] =
           IF r = p /\ i = thidx[p] THEN 0 ELSE arg[r][i]
  BY <1>1, <1>2, <1>4, <1>5, <1>6, <1>7 DEF TypeOK
<1>11. ptlock' = NoCpu
  BY <1>6, <1>7
<1>12. \A r \in Proc, i \in Thread : pc'[r][i] =
           IF r = p /\ i \in {j, thidx[p]} THEN "user" ELSE pc[r][i]
  BY <1>1, <1>2, <1>4, <1>5, <1>6, <1>7 DEF TypeOK
<1>13. UNCHANGED <<pstate, parent, killed, thidx, ofile, ref,
                  outstanding, running, fault>>
  BY <1>3 DEF fileVars, procVars
<1>14. TypeOK'
  BY <1>1, <1>2, <1>4, <1>5, <1>6, <1>7, <1>13
     DEF TypeOK, States, Points, Preemptible, HoldsPtable
<1>15. OneThreadPerProcess'
  <2>1. UNCHANGED <<pstate, thidx, running>>
    BY <1>13
  <2> QED BY <1>1, <1>2, <1>4, <1>5, <1>9, Sizes, Ranges, <2>1 DEF OneThreadPerProcess
<1>16. ForkChild'
  <2>1. UNCHANGED <<pstate>>
    BY <1>13
  <2> QED BY <1>1, <1>2, <1>4, <1>5, <1>12, <1>10, <2>1 DEF ForkChild, Forking, Live
<1>17. FreshSlots'
  <2>1. UNCHANGED <<pstate>>
    BY <1>13
  <2> QED BY <1>2, <1>4, <1>5, <1>12, <1>9, <2>1 DEF FreshSlots
<1>18. InitLive'
  <2>1. UNCHANGED <<pstate, parent>>
    BY <1>13
  <2> QED BY <1>2, <1>4, <1>5, <1>12, Sizes, <2>1 DEF InitLive, Live
<1>19. OpsCounted'
  <2>1. InOps' \subseteq InOps
    BY <1>2, <1>4, <1>5, <1>12 DEF InOps
  <2>2. outstanding' = outstanding /\ outstanding \in Nat
    BY <1>13, Ranges
  <2> QED BY <2>1, <2>2, OpsShrink
<1>20. PtableHeld'
  <2>1. UNCHANGED <<running, thidx>>
    BY <1>13
  <2> QED BY <1>1, <1>2, <1>4, <1>5, <1>11, <1>12, Sizes, Ranges, <2>1
     DEF PtableHeld, HoldsPtable, OneThreadPerProcess
<1>21. NoLostJoin'
  <2>1. UNCHANGED <<pstate>>
    BY <1>13
  <2> QED BY <1>1, <1>2, <1>4, <1>5, <1>9, <1>12, <1>10, <1>8, <2>1
     DEF NoLostJoin, Joining
<1>22. NoLostChildWakeup'
  <2>1. UNCHANGED <<pstate, parent>>
    BY <1>13
  <2> QED BY <1>1, <1>2, <1>4, <1>5, <1>9, <1>12, <2>1
     DEF NoLostChildWakeup, InWait, Zombies, Children
<1> QED BY <1>14, <1>15, <1>16, <1>17, <1>18, <1>19, <1>20, <1>21, <1>22

(* thread_join gives up.                                                   *)
LEMMA Keeps_JoinKilled ==
    ASSUME LwpInv, NEW c \in Cpu, NEW p \in Proc, JoinKilled(c, p)
    PROVE  LwpInv'
<1> USE DEF LwpInv
<1>1. running[c] = p
  BY DEF JoinKilled, JoinTargets, Calling, At, On
<1>2. /\ pstate[p] = "RUNNING" /\ thidx[p] \in Thread
      /\ tstate[p][thidx[p]] = "RUNNING"
  BY <1>1, Runs
<1>3. PICK j \in JoinTargets(c, p) :
      /\ Goto(p, "user")
      /\ arg' = [arg EXCEPT ![p][thidx[p]] = 0]
      /\ fresh' = [fresh EXCEPT ![p][thidx[p]] = TRUE] /\ ptlock' = NoCpu
      /\ UNCHANGED <<procVars, thidx, tstate, fileVars, running, fault>>
  BY DEF JoinKilled
<1>4. j \in Thread /\ ptlock \in {c, NoCpu} /\ pc[p][thidx[p]] \in {"sys", "join"}
  BY <1>3 DEF JoinTargets, Calling, At, PtableFree
<1>5. /\ pc' = [pc EXCEPT ![p][thidx[p]] = "user"]
      /\ arg' = [arg EXCEPT ![p][thidx[p]] = 0]
      /\ fresh' = [fresh EXCEPT ![p][thidx[p]] = TRUE]
      /\ ptlock' = NoCpu
  BY <1>3 DEF Goto
<1>6. \A r \in Proc, i \in Thread : pc'[r][i] =
           IF r = p /\ i = thidx[p] THEN "user" ELSE pc[r][i]
  BY <1>1, <1>2, <1>4, <1>5 DEF TypeOK
<1>7. \A r \in Proc, i \in Thread : arg'[r][i] =
           IF r = p /\ i = thidx[p] THEN 0 ELSE arg[r][i]
  BY <1>1, <1>2, <1>4, <1>5 DEF TypeOK
<1>8. ptlock' = NoCpu
  BY <1>5
<1>9. \A r \in Proc, i \in Thread : fresh'[r][i] =>
      (r = p /\ i = thidx[p]) \/ fresh[r][i]
  BY <1>2, <1>3 DEF TypeOK
<1>10. UNCHANGED <<pstate, parent, killed, thidx, tstate, ofile,
                  ref, outstanding, running, fault>>
  BY <1>3 DEF fileVars, procVars
<1>11. TypeOK'
  BY <1>1, <1>2, <1>4, <1>5, <1>10 DEF TypeOK, States, Points, Preemptible, HoldsPtable
<1>12. OneThreadPerProcess'
  <2>1. UNCHANGED <<pstate, thidx, tstate, running>>
    BY <1>10
  <2> QED BY <1>1, <1>2, <1>4, Sizes, Ranges, <2>1 DEF OneThreadPerProcess
<1>13. ForkChild'
  <2>1. UNCHANGED <<pstate>>
    BY <1>10
  <2> QED BY <1>1, <1>2, <1>4, <1>6, <1>7, <2>1 DEF ForkChild, Forking, Live
<1>14. FreshSlots'
  <2>1. UNCHANGED <<pstate, tstate>>
    BY <1>10
  <2> QED BY <1>2, <1>4, <1>6, <2>1 DEF FreshSlots
<1>15. InitLive'
  <2>1. UNCHANGED <<pstate, parent>>
    BY <1>10
  <2> QED BY <1>2, <1>4, <1>6, Sizes, <2>1 DEF InitLive, Live
<1>16. OpsCounted'
  <2>1. InOps' \subseteq InOps
    BY <1>2, <1>4, <1>6 DEF InOps
  <2>2. outstanding' = outstanding /\ outstanding \in Nat
    BY <1>10, Ranges
  <2> QED BY <2>1, <2>2, OpsShrink
<1>17. PtableHeld'
  <2>1. UNCHANGED <<running, thidx>>
    BY <1>10
  <2> QED BY <1>1, <1>2, <1>4, <1>8, <1>6, Sizes, Ranges, <2>1
     DEF PtableHeld, HoldsPtable, OneThreadPerProcess
<1>18. NoLostJoin'
  <2>1. UNCHANGED <<pstate, tstate>>
    BY <1>10
  <2> QED BY <1>1, <1>2, <1>4, <1>6, <1>7, <1>9, <2>1 DEF NoLostJoin, Joining
<1>19. NoLostChildWakeup'
  <2>1. UNCHANGED <<pstate, tstate, parent>>
    BY <1>10
  <2> QED BY <1>1, <1>2, <1>4, <1>6, <2>1
     DEF NoLostChildWakeup, InWait, Zombies, Children
<1> QED BY <1>11, <1>12, <1>13, <1>14, <1>15, <1>16, <1>17, <1>18, <1>19

(* thread_join sleeps.                                                     *)
LEMMA Keeps_JoinSleeps ==
    ASSUME LwpInv, NEW c \in Cpu, NEW p \in Proc, JoinSleeps(c, p)
    PROVE  LwpInv'
<1> USE DEF LwpInv
<1>1. running[c] = p
  BY DEF JoinSleeps, JoinTargets, Calling, At, On
<1>2. /\ pstate[p] = "RUNNING" /\ thidx[p] \in Thread
      /\ tstate[p][thidx[p]] = "RUNNING"
  BY <1>1, Runs
<1>3. PICK j \in JoinTargets(c, p) :
      /\ tstate[p][j] # "ZOMBIE"
      /\ Leave(c, p, [tstate EXCEPT ![p][thidx[p]] = "SLEEPING"]) /\ Goto(p, "join")
      /\ arg' = [arg EXCEPT ![p][thidx[p]] = j]
      /\ UNCHANGED <<parent, killed, thidx, fresh, fileVars, fault>>
  BY DEF JoinSleeps
<1>4. j \in Thread /\ ptlock \in {c, NoCpu} /\ pc[p][thidx[p]] \in {"sys", "join"}
  BY <1>3 DEF JoinTargets, Calling, At, PtableFree
<1>5. tstate[p][j] # "ZOMBIE"
  BY <1>3
<1>6. /\ arg' = [arg EXCEPT ![p][thidx[p]] = j]
      /\ pc' = [pc EXCEPT ![p][thidx[p]] = "join"]
      /\ tstate' = [tstate EXCEPT ![p][thidx[p]] = "SLEEPING"]
      /\ pstate' = [pstate EXCEPT ![p] = "RUNNABLE"]
      /\ running' = [running EXCEPT ![c] = NoProc]
      /\ ptlock' = NoCpu
  BY <1>1, <1>2, <1>3 DEF Leave, Goto, TypeOK
<1>7. \A r \in Proc, i \in Thread : arg'[r][i] =
           IF r = p /\ i = thidx[p] THEN j ELSE arg[r][i]
  BY <1>1, <1>2, <1>4, <1>5, <1>6 DEF TypeOK
<1>8. \A r \in Proc, i \in Thread : pc'[r][i] =
           IF r = p /\ i = thidx[p] THEN "join" ELSE pc[r][i]
  BY <1>1, <1>2, <1>4, <1>5, <1>6 DEF TypeOK
<1>9. \A r \in Proc, i \in Thread : tstate'[r][i] =
           IF r = p /\ i = thidx[p] THEN "SLEEPING" ELSE tstate[r][i]
  BY <1>1, <1>2, <1>4, <1>5, <1>6 DEF TypeOK
<1>10. \A r \in Proc : pstate'[r] = IF r = p THEN "RUNNABLE" ELSE pstate[r]
  BY <1>1, <1>2, <1>4, <1>5, <1>6 DEF TypeOK
<1>11. \A d \in Cpu : running'[d] = IF d = c THEN NoProc ELSE running[d]
  BY <1>1, <1>2, <1>4, <1>5, <1>6 DEF TypeOK
<1>12. ptlock' = NoCpu
  BY <1>6
<1>13. UNCHANGED <<parent, killed, thidx, fresh, ofile, ref,
                  outstanding, fault>>
  BY <1>3 DEF fileVars
<1>14. TypeOK'
  <2>1. j \in Nat
    BY <1>4, Slots
  <2> QED BY <1>2, <1>6, <1>13, <2>1
     DEF TypeOK, States, Points, Preemptible, HoldsPtable
<1>15. OneThreadPerProcess'
  <2>1. UNCHANGED <<thidx>>
    BY <1>13
  <2> QED BY <1>1, <1>2, <1>4, <1>5, <1>10, <1>9, <1>11, Sizes, Ranges, <2>1
     DEF OneThreadPerProcess
<1>16. ForkChild'
  BY <1>1, <1>2, <1>4, <1>5, <1>10, <1>8, <1>7 DEF ForkChild, Forking, Live
<1>17. FreshSlots'
  BY <1>2, <1>4, <1>5, <1>10, <1>8, <1>9 DEF FreshSlots
<1>18. InitLive'
  <2>1. UNCHANGED <<parent>>
    BY <1>13
  <2> QED BY <1>2, <1>4, <1>5, <1>10, <1>8, Sizes, <2>1 DEF InitLive, Live
<1>19. OpsCounted'
  <2>1. InOps' \subseteq InOps
    BY <1>2, <1>4, <1>5, <1>8 DEF InOps
  <2>2. outstanding' = outstanding /\ outstanding \in Nat
    BY <1>13, Ranges
  <2> QED BY <2>1, <2>2, OpsShrink
<1>20. PtableHeld'
  <2>1. UNCHANGED <<thidx>>
    BY <1>13
  <2> QED BY <1>1, <1>2, <1>4, <1>5, <1>12, <1>11, <1>8, Sizes, Ranges, <2>1
     DEF PtableHeld, HoldsPtable, OneThreadPerProcess
<1>21. NoLostJoin'
  <2>1. UNCHANGED <<fresh>>
    BY <1>13
  <2> QED BY <1>1, <1>2, <1>4, <1>5, <1>10, <1>9, <1>8, <1>7, <2>1
     DEF NoLostJoin, Joining
<1>22. NoLostChildWakeup'
  <2>1. UNCHANGED <<parent>>
    BY <1>13
  <2> QED BY <1>1, <1>2, <1>4, <1>5, <1>10, <1>9, <1>8, <2>1
     DEF NoLostChildWakeup, InWait, Zombies, Children
<1> QED BY <1>14, <1>15, <1>16, <1>17, <1>18, <1>19, <1>20, <1>21, <1>22

(* exec() frees a thread slot.                                             *)
LEMMA Keeps_ExecFrees ==
    ASSUME LwpInv, NEW c \in Cpu, NEW p \in Proc, ExecFrees(c, p)
    PROVE  LwpInv'
<1> USE DEF LwpInv
<1>1. running[c] = p
  BY DEF ExecFrees, At, On
<1>2. /\ pstate[p] = "RUNNING" /\ thidx[p] \in Thread
      /\ tstate[p][thidx[p]] = "RUNNING"
  BY <1>1, Runs
<1>3. pc[p][thidx[p]] = "exec"
  BY <1>1, <1>2 DEF ExecFrees, At, On
<1>4. PICK j \in Thread : j = arg[p][thidx[p]]
  <2>1. arg[p][thidx[p]] \in Nat /\ arg[p][thidx[p]] < NTHREAD
    BY <1>2 DEF ExecFrees, TypeOK
  <2> QED BY <2>1, Slots DEF Thread
<1>5. /\ tstate' = IF j = thidx[p] THEN tstate ELSE [tstate EXCEPT ![p][j] = "UNUSED"]
      /\ pc' = IF j = thidx[p] THEN pc ELSE [pc EXCEPT ![p][j] = "user"]
      /\ fresh' = IF j = thidx[p] THEN fresh ELSE [fresh EXCEPT ![p][j] = TRUE]
      /\ arg' = [arg EXCEPT ![p][j] = 0, ![p][thidx[p]] = j + 1]
  BY <1>4 DEF ExecFrees
<1>6. \A r \in Proc, i \in Thread :
      IF r = p /\ i = j /\ i # thidx[p]
      THEN tstate'[r][i] = "UNUSED" /\ pc'[r][i] = "user"
      ELSE /\ tstate'[r][i] = tstate[r][i] /\ pc'[r][i] = pc[r][i]
           /\ fresh'[r][i] = fresh[r][i]
           /\ ~(r = p /\ i = thidx[p]) => arg'[r][i] = arg[r][i]
  BY <1>2, <1>4, <1>5 DEF TypeOK
<1>7. UNCHANGED <<pstate, parent, killed, thidx, ofile, ref,
                  outstanding, running, ptlock, fault>>
  BY DEF ExecFrees, procVars, threadVars, fileVars
<1>8. TypeOK'
  <2>1. j + 1 \in Nat
    BY Slots
  <2>2. arg' \in [Proc -> [Thread -> Nat]]
    BY <1>2, <1>5, <2>1 DEF TypeOK
  <2>3. tstate' \in [Proc -> [Thread -> States]] /\ pc' \in [Proc -> [Thread -> Points]]
    BY <1>5 DEF TypeOK, States, Points, Preemptible
  <2>4. fresh' \in [Proc -> [Thread -> BOOLEAN]]
    BY <1>5 DEF TypeOK
  <2> QED BY <1>7, <2>2, <2>3, <2>4 DEF TypeOK
<1>9. OneThreadPerProcess'
  <2>1. UNCHANGED <<pstate, thidx, running>>
    BY <1>7
  <2> QED BY <1>1, <1>2, <1>3, <1>4, <1>6, Sizes, Ranges, <2>1 DEF OneThreadPerProcess
<1>10. ForkChild'
  <2>1. UNCHANGED <<pstate>>
    BY <1>7
  <2> QED BY <1>1, <1>2, <1>3, <1>4, <1>6, <2>1 DEF ForkChild, Forking, Live
<1>11. FreshSlots'
  <2>1. UNCHANGED <<pstate>>
    BY <1>7
  <2> QED BY <1>2, <1>3, <1>4, <1>6, <2>1 DEF FreshSlots
<1>12. InitLive'
  <2>1. UNCHANGED <<pstate, parent>>
    BY <1>7
  <2> QED BY <1>2, <1>3, <1>4, <1>6, Sizes, <2>1 DEF InitLive, Live
<1>13. OpsCounted'
  <2>1. InOps' \subseteq InOps
    BY <1>2, <1>3, <1>4, <1>6 DEF InOps
  <2>2. outstanding' = outstanding /\ outstanding \in Nat
    BY <1>7, Ranges
  <2> QED BY <2>1, <2>2, OpsShrink
<1>14. PtableHeld'
  <2>1. UNCHANGED <<ptlock, running, thidx>>
    BY <1>7
  <2> QED BY <1>1, <1>2, <1>3, <1>4, <1>6, Sizes, Ranges, <2>1
     DEF PtableHeld, HoldsPtable, OneThreadPerProcess
<1>15. NoLostJoin'
  <2>1. UNCHANGED <<pstate>>
    BY <1>7
  <2> QED BY <1>1, <1>2, <1>3, <1>4, <1>6, <2>1 DEF NoLostJoin, Joining
<1>16. NoLostChildWakeup'
  <2>1. UNCHANGED <<pstate, parent>>
    BY <1>7
  <2> QED BY <1>1, <1>2, <1>3, <1>4, <1>6, <2>1
     DEF NoLostChildWakeup, InWait, Zombies, Children
<1> QED BY <1>8, <1>9, <1>10, <1>11, <1>12, <1>13, <1>14, <1>15, <1>16

-----------------------------------------------------------------------------
(* userinit establishes the invariant.                                     *)
LEMMA InitHolds == Init => LwpInv
<1> SUFFICES ASSUME Init PROVE LwpInv
  OBVIOUS
<1>1. TypeOK
  BY Sizes DEF Init, TypeOK, States, Points, Preemptible
<1>2. OneThreadPerProcess
  BY Sizes DEF Init, OneThreadPerProcess
<1>3. ForkChild
  BY DEF Init, ForkChild, Forking
<1>4. FreshSlots
  BY DEF Init, FreshSlots
<1>5. InitLive
  BY Sizes DEF Init, InitLive, Live
<1>6. OpsCounted
  <2>1. InOps = {}
    BY DEF Init, InOps
  <2> QED BY <2>1, FS_EmptySet DEF Init, OpsCounted
<1>7. PtableHeld
  BY Sizes DEF Init, PtableHeld
<1>8. NoLostJoin
  BY DEF Init, NoLostJoin, Joining
<1>9. NoLostChildWakeup
  BY DEF Init, NoLostChildWakeup, InWait
<1> QED BY <1>1, <1>2, <1>3, <1>4, <1>5, <1>6, <1>7, <1>8, <1>9 DEF LwpInv

(* A step of the kernel for the thread that runs keeps the invariant.      *)
LEMMA Keeps_KernelStep ==
    ASSUME LwpInv, NEW c \in Cpu, NEW p \in Proc, KernelStep(c, p)
    PROVE  LwpInv'
  BY Keeps_KilledExit, Keeps_acquire_Again, Keeps_allocproc,
     Keeps_ForkNoSlot, Keeps_ForkNoMemory, Keeps_ForkCopy,
     Keeps_ForkDone, Keeps_sys_exit, Keeps_InitExiting,
     Keeps_ExitCloses, Keeps_ExitClears, Keeps_ExitZombie,
     Keeps_WaitReaps, Keeps_WaitReturns, Keeps_WaitSleeps, Keeps_kill,
     Keeps_ReadReturns, Keeps_ReadWaits, Keeps_ReadSleeps,
     Keeps_begin_op, Keeps_end_op, Keeps_thread_create,
     Keeps_CreateFails, Keeps_thread_exit, Keeps_OnlyThreadReturns,
     Keeps_JoinNoThread, Keeps_JoinReaps, Keeps_JoinKilled,
     Keeps_JoinSleeps, Keeps_sys_exec, Keeps_ExecFrees,
     Keeps_ExecReturns DEF KernelStep

(* Every step keeps the invariant.                                         *)
LEMMA NextKeeps == LwpInv /\ [Next]_vars => LwpInv'
<1> SUFFICES ASSUME LwpInv, [Next]_vars PROVE LwpInv'
  OBVIOUS
<1>1. CASE UNCHANGED vars
  <2>1. UNCHANGED <<pstate, parent, killed, thidx, tstate, pc, arg, fresh,
                    ofile, ref, outstanding, running, ptlock, fault>>
    BY <1>1 DEF vars, procVars, threadVars, fileVars
  <2> QED BY <2>1, StutterKeeps
<1>2. ASSUME NEW c \in Cpu, NEW p \in Proc,
             scheduler(c, p) \/ yield(c, p) \/ SyscallEntry(c, p) \/ KernelStep(c, p)
      PROVE  LwpInv'
  BY <1>2, Keeps_scheduler, Keeps_yield, Keeps_SyscallEntry, Keeps_KernelStep
<1>3. CASE DeviceWakes
  BY <1>3, Keeps_DeviceWakes
<1> QED BY <1>1, <1>2, <1>3 DEF Next

(* The inductive invariant holds in every reachable state.                 *)
THEOREM LwpCorrect == Spec => []LwpInv
  BY InitHolds, NextKeeps, PTL DEF Spec

(* The tables, the scheduler's choices and the counters stay in range: in  *)
(* particular log.outstanding never goes below zero, though exec and       *)
(* wait() free threads that are between begin_op and end_op.               *)
THEOREM TypeCorrect == Spec => []TypeOK
<1>1. LwpInv => TypeOK
  BY DEF LwpInv
<1> QED BY <1>1, LwpCorrect, PTL

(* scheduler(), sched() and exit() agree on who runs: no process is on two *)
(* CPUs and no two threads of a process run at once.                       *)
THEOREM OneThreadCorrect == Spec => []OneThreadPerProcess
<1>1. LwpInv => OneThreadPerProcess
  BY DEF LwpInv
<1> QED BY <1>1, LwpCorrect, PTL

(* thread_exit's wakeup reaches every joiner of the thread.                *)
THEOREM JoinWakeupCorrect == Spec => []NoLostJoin
<1>1. LwpInv => NoLostJoin
  BY DEF LwpInv
<1> QED BY <1>1, LwpCorrect, PTL

(* exit()'s wakeups reach every thread that waits for a child, through a   *)
(* change of parents as well.                                              *)
THEOREM ChildWakeupCorrect == Spec => []NoLostChildWakeup
<1>1. LwpInv => NoLostChildWakeup
  BY DEF LwpInv
<1> QED BY <1>1, LwpCorrect, PTL

(* A thread that came back from sched() in wait, thread_join or            *)
(* thread_exit runs on the CPU that holds ptable.lock, and the holder of   *)
(* ptable.lock runs a process, even after thread_create failed to release  *)
(* it.                                                                     *)
THEOREM PtableLockCorrect == Spec => []PtableHeld
<1>1. LwpInv => PtableHeld
  BY DEF LwpInv
<1> QED BY <1>1, LwpCorrect, PTL
=============================================================================
