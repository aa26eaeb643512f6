-------------------------------- MODULE Mlfq --------------------------------
(***************************************************************************)
(* The multi-level feedback queue scheduler of src/project1_scheduler:     *)
(* the process table and its run queues (proc.c), the scheduler loop of    *)
(* every CPU, the timer interrupt (trap.c), the scheduler lock, and the    *)
(* system calls that change any of them (sysproc.c).                       *)
(*                                                                         *)
(* One action is one critical section of ptable.lock or tickslock, or one  *)
(* stretch of code outside both.  A lock that stays held from one action   *)
(* to the next is the variable ptlock (a CPU owns it; swtch hands it from  *)
(* the scheduler to the process and back) or, for tickslock, the program   *)
(* counter "tsleep" (see TickslockFree).  The run queues are sequences:    *)
(* module ProcQueue shows that the linked lists of queue.c implement them. *)
(***************************************************************************)
EXTENDS Integers, Sequences, Functions

CONSTANTS
    NPROC,           \* slots of ptable.proc (param.h: 64)
    NCPU,            \* CPUs running scheduler()
    NQUEUE,          \* run queues (param.h: 3)
    MaxPriority,     \* best-to-worst priorities are 0..MaxPriority (3)
    QuantumBase,     \* getTimeQuantum(i) = QuantumStep * i + QuantumBase
    QuantumStep,
    BoostTicks,      \* ticks between two priority boosts (100)
    TickMod,         \* ticks is an unsigned int: 2^32 in the code
    Calls,           \* the system calls the processes of this instance make
    KillPids,        \* arguments of kill
    SleepTimes,      \* arguments of sleep
    SetLevels,       \* arguments of setLevel
    Priorities,      \* arguments of setPriority
    TickInScheduler, \* may the timer interrupt a busy scheduler loop?
    MaxPid,          \* bound: pids handed out
    MaxTicks,        \* bound: value of ticks
    MaxTq,           \* bound: value of tq
    MaxLockCalls     \* bound: times the scheduler is locked

ASSUME SizeAssumption ==
    /\ NPROC \in Nat \ {0} /\ NCPU \in Nat \ {0} /\ NQUEUE \in Nat \ {0}
    /\ MaxPriority \in Nat /\ BoostTicks \in Nat /\ TickMod \in Nat \ {0}
    /\ MaxPid \in Nat /\ MaxTicks \in Nat /\ MaxTq \in Nat
    /\ MaxLockCalls \in Nat
ASSUME QuantumAssumption ==
    QuantumBase \in Nat \ {0} /\ QuantumStep \in Nat
ASSUME CallAssumption ==
    /\ KillPids \subseteq Nat /\ SleepTimes \subseteq Nat
    /\ SetLevels \subseteq Nat /\ Priorities \subseteq 0..MaxPriority
    /\ TickInScheduler \in BOOLEAN

Proc == 1..NPROC        \* a slot of ptable.proc, in table order
Cpu == 0..(NCPU - 1)
Level == 0..(NQUEUE - 1)
NoProc == 0
NoCpu == -1
NoQueue == -1           \* p->queue == NULL
InitProc == 1           \* initproc: userinit takes the first slot
BootCpu == 0            \* the CPU whose timer interrupt counts ticks
NoChan == 0
TicksChan == NPROC + 1  \* &ticks; the channel of wait() is the process

States == {"UNUSED", "EMBRYO", "SLEEPING", "RUNNABLE", "RUNNING", "ZOMBIE"}

SchedulerPoints ==
    {"pick", "unlock", "repick", "run", "ticks",
     "boost0", "boost1", "boostun", "boost2"}

KernelPoints ==
    {"user", "fork", "exit", "exitun", "exit2", "wait",
     "tsleep", "tcheck", "lockticks"}

Faults == {"none", "pushqueue", "init exiting", "wild"}

VARIABLES
    state, pid, parent, chan, killed,       \* struct proc
    priority, tq, level, queue,             \* and its place in the queues
    lockpid, nextpid, ticks,
    pc, child, ticks0, nap,                 \* a process inside the kernel
    running, spc, irq, bround, bptr,        \* a CPU inside scheduler()
    ptlock,                                 \* the CPU that holds ptable.lock
    lockCalls,                              \* times the scheduler was locked
    fault                                   \* a panic, a wild write, or "none"

tableVars == <<state, pid, parent, chan, killed>>
queueVars == <<priority, tq, level, queue>>
kernelVars == <<pc, child, ticks0, nap>>
cpuVars == <<running, spc, irq, bround, bptr>>
vars == <<tableVars, queueVars, kernelVars, cpuVars,
          lockpid, nextpid, ticks, ptlock, lockCalls, fault>>

----------------------------------------------------------------------------
(* State after boot: userinit has made the init process RUNNABLE in L0,    *)
(* every CPU is about to enter scheduler().                                *)

Init ==
    /\ state = [p \in Proc |-> IF p = InitProc THEN "RUNNABLE" ELSE "UNUSED"]
    /\ pid = [p \in Proc |-> IF p = InitProc THEN 1 ELSE 0]
    /\ parent = [p \in Proc |-> NoProc]
    /\ chan = [p \in Proc |-> NoChan]
    /\ killed = [p \in Proc |-> FALSE]
    /\ priority = [p \in Proc |-> IF p = InitProc THEN MaxPriority ELSE 0]
    /\ tq = [p \in Proc |-> 0]
    /\ level = [p \in Proc |-> IF p = InitProc THEN 0 ELSE NoQueue]
    /\ queue = [l \in Level |-> IF l = 0 THEN <<InitProc>> ELSE <<>>]
    /\ lockpid = 0 /\ nextpid = 2 /\ ticks = 0
    /\ pc = [p \in Proc |-> "user"]
    /\ child = [p \in Proc |-> NoProc]
    /\ ticks0 = [p \in Proc |-> 0] /\ nap = [p \in Proc |-> 0]
    /\ running = [c \in Cpu |-> NoProc]
    /\ spc = [c \in Cpu |-> "pick"]
    /\ irq = [c \in Cpu |-> FALSE]
    /\ bround = [c \in Cpu |-> 1] /\ bptr = [c \in Cpu |-> 1]
    /\ ptlock = NoCpu /\ lockCalls = 0 /\ fault = "none"

----------------------------------------------------------------------------
(* Locks.                                                                  *)

PtableFree == ptlock = NoCpu

(* sys_sleep holds tickslock from its test of ticks until sleep() has the  *)
(* ptable lock.                                                            *)
TickslockFree ==
    \A c \in Cpu : running[c] # NoProc => pc[running[c]] # "tsleep"

(* acquire() disables interrupts on its CPU, and so does the timer's gate. *)
InterruptsOn(c) ==
    /\ ptlock # c /\ ~irq[c]
    /\ running[c] # NoProc => pc[running[c]] # "tsleep"

----------------------------------------------------------------------------
(* The operations of queue.c, on one queue.                                *)

Erase_TakesNeighbour(s, p) ==
    LET i == CHOOSE i \in 1..Len(s) : s[i] = p
    IN  SubSeq(s, 1, i - 1) \o SubSeq(s, i + 2, Len(s))

Erase(s, p) ==
    LET i == CHOOSE i \in 1..Len(s) : s[i] = p
    IN  SubSeq(s, 1, i - 1) \o SubSeq(s, i + 1, Len(s))

(* erasequeue(p->queue, p) followed by pushqueue(queue + l, p).            *)
MoveToBack(p, l) ==
    LET rest == [queue EXCEPT ![level[p]] = Erase(@, p)]
    IN  /\ queue' = [rest EXCEPT ![l] = Append(@, p)]
        /\ level' = [level EXCEPT ![p] = l]

(* erasequeue(p->queue, p) followed by pushfrontqueue(queue, p).           *)
MoveToFront(p) ==
    LET rest == [queue EXCEPT ![level[p]] = Erase(@, p)]
    IN  /\ queue' = [rest EXCEPT ![0] = <<p>> \o @]
        /\ level' = [level EXCEPT ![p] = 0]

----------------------------------------------------------------------------
(* Helpers of proc.c.                                                      *)

getTimeQuantum(i) == QuantumStep * i + QuantumBase

(* getProc(n) returns p: the first slot in use that has the pid.           *)
IsGetProc(n, p) ==
    /\ pid[p] = n /\ state[p] # "UNUSED"
    /\ \A q \in 1..(p - 1) : ~(pid[q] = n /\ state[q] # "UNUSED")

(* wakeup1(ch).                                                            *)
Woken(ch) ==
    [q \in Proc |-> IF state[q] = "SLEEPING" /\ chan[q] = ch
                    THEN "RUNNABLE" ELSE state[q]]

(* The end of sched(): swtch to the scheduler of c, which sets c->proc = 0 *)
(* and releases ptable.lock.                                               *)
BackToScheduler(c) ==
    /\ running' = [running EXCEPT ![c] = NoProc]
    /\ spc' = [spc EXCEPT ![c] = "ticks"]
    /\ ptlock' = NoCpu
    /\ UNCHANGED <<bround, bptr>>

----------------------------------------------------------------------------
(* scheduler(): getProcessToRun, expireTimeQuantum, the dispatch.          *)

RunnableAt_Running(l, i) ==
    i \in 1..Len(queue[l]) /\ state[queue[l][i]] \in {"RUNNABLE", "RUNNING"}

RunnableAt(l, i) == i \in 1..Len(queue[l]) /\ state[queue[l][i]] = "RUNNABLE"

(* L0 .. L(NQUEUE-2): the first runnable process.                          *)
FirstRunnable(l, i) ==
    RunnableAt(l, i) /\ \A j \in 1..(i - 1) : ~RunnableAt(l, j)

(* The last queue: the first among those of the smallest priority.         *)
BestPriority(l, i) ==
    /\ RunnableAt(l, i)
    /\ \A j \in 1..Len(queue[l]) :
         RunnableAt(l, j) =>
           \/ priority[queue[l][i]] < priority[queue[l][j]]
           \/ priority[queue[l][i]] = priority[queue[l][j]] /\ i <= j

FromQueues(p) ==
    \E l \in Level : \E i \in 1..Len(queue[l]) :
      /\ queue[l][i] = p
      /\ \A k \in 0..(l - 1) : \A j \in 1..Len(queue[k]) : ~RunnableAt(k, j)
      /\ IF l < NQUEUE - 1 THEN FirstRunnable(l, i) ELSE BestPriority(l, i)

getProcessToRun_IgnoresLock(c, p) == FromQueues(p)

(* getProcessToRun returns p.  At "repick" it has given up a scheduler     *)
(* lock and goes on to the queues without looking at lockpid again.        *)
getProcessToRun(c, p) ==
    \/ /\ spc[c] = "pick" /\ lockpid # 0
       /\ IsGetProc(lockpid, p) /\ state[p] = "RUNNABLE"
    \/ /\ spc[c] = "repick" \/ lockpid = 0
       /\ FromQueues(p)

InPickLoop(c) ==
    /\ fault = "none" /\ spc[c] \in {"pick", "repick"} /\ ptlock \in {NoCpu, c}

(* The chosen process has used its quantum up: expireTimeQuantum, and      *)
(* round the loop again with ptable.lock held.                             *)
ExpireTimeQuantum(c, p) ==
    /\ InPickLoop(c) /\ getProcessToRun(c, p)
    /\ tq[p] = getTimeQuantum(level[p])
    /\ tq' = [tq EXCEPT ![p] = 0]
    /\ IF level[p] < NQUEUE - 1
       THEN MoveToBack(p, level[p] + 1) /\ UNCHANGED priority
       ELSE /\ priority' = [priority EXCEPT ![p] = IF @ = 0 THEN 0 ELSE @ - 1]
            /\ UNCHANGED <<queue, level>>
    /\ spc' = [spc EXCEPT ![c] = "pick"]
    /\ ptlock' = c
    /\ UNCHANGED <<tableVars, kernelVars, running, irq, bround, bptr,
                   lockpid, nextpid, ticks, lockCalls, fault>>

(* ++tq, round robin, swtch.  The process continues where it called        *)
(* sched(): yield and forkret release ptable.lock, sleep clears p->chan,   *)
(* and the sleep of wait() returns with the lock still held.               *)
Dispatch(c, p) ==
    /\ InPickLoop(c) /\ getProcessToRun(c, p)
    /\ tq[p] # getTimeQuantum(level[p]) /\ tq[p] < MaxTq
    /\ tq' = [tq EXCEPT ![p] = @ + 1]
    /\ IF level[p] < NQUEUE - 1
       THEN MoveToBack(p, level[p]) ELSE UNCHANGED <<queue, level>>
    /\ running' = [running EXCEPT ![c] = p]
    /\ state' = [state EXCEPT ![p] = "RUNNING"]
    /\ chan' = [chan EXCEPT ![p] = NoChan]
    /\ spc' = [spc EXCEPT ![c] = "run"]
    /\ ptlock' = IF pc[p] = "wait" THEN c ELSE NoCpu
    /\ UNCHANGED <<pid, parent, killed, priority, kernelVars, irq, bround, bptr,
                   lockpid, nextpid, ticks, lockCalls, fault>>

(* The scheduler is locked by a process that is not RUNNABLE: getProcess-  *)
(* ToRun releases ptable.lock to call schedulerUnlock.  (A lockpid that    *)
(* names no process would be a null dereference here: LockHolderLive.)     *)
GiveUpLock(c) ==
    /\ InPickLoop(c) /\ spc[c] = "pick" /\ lockpid # 0
    /\ \E p \in Proc : IsGetProc(lockpid, p) /\ state[p] # "RUNNABLE"
    /\ spc' = [spc EXCEPT ![c] = "unlock"]
    /\ ptlock' = NoCpu
    /\ UNCHANGED <<tableVars, queueVars, kernelVars, running, irq, bround, bptr,
                   lockpid, nextpid, ticks, lockCalls, fault>>

(* schedulerUnlock(PASSWORD) called by the scheduler, myproc() == 0.       *)
SchedulerSideUnlock(c) ==
    /\ fault = "none" /\ spc[c] \in {"unlock", "boostun"} /\ PtableFree
    /\ lockpid' = 0
    /\ spc' = [spc EXCEPT ![c] = IF @ = "unlock" THEN "repick" ELSE "boost2"]
    /\ UNCHANGED <<tableVars, queueVars, kernelVars, running, irq, bround, bptr,
                   nextpid, ticks, ptlock, lockCalls, fault>>

(* getProcessToRun returns NULL.                                           *)
NothingToRun(c) ==
    /\ InPickLoop(c) /\ (spc[c] = "repick" \/ lockpid = 0)
    /\ \A l \in Level : \A i \in 1..Len(queue[l]) : ~RunnableAt(l, i)
    /\ spc' = [spc EXCEPT ![c] = "ticks"]
    /\ ptlock' = NoCpu
    /\ UNCHANGED <<tableVars, queueVars, kernelVars, running, irq, bround, bptr,
                   lockpid, nextpid, ticks, lockCalls, fault>>

----------------------------------------------------------------------------
(* scheduler(): the test of ticks, and boostPriority().                    *)

ReadTicks(c) ==
    /\ fault = "none" /\ spc[c] = "ticks" /\ TickslockFree
    /\ spc' = [spc EXCEPT ![c] = IF ticks >= BoostTicks THEN "boost0" ELSE "pick"]
    /\ UNCHANGED <<tableVars, queueVars, kernelVars, running, irq, bround, bptr,
                   lockpid, nextpid, ticks, ptlock, lockCalls, fault>>

BoostResetTicks(c) ==
    /\ fault = "none" /\ spc[c] = "boost0" /\ TickslockFree
    /\ ticks' = 0
    /\ spc' = [spc EXCEPT ![c] = "boost1"]
    /\ UNCHANGED <<tableVars, queueVars, kernelVars, running, irq, bround, bptr,
                   lockpid, nextpid, ptlock, lockCalls, fault>>

BoostTakeLock_KeepsSchedulerLock(c) ==
    /\ fault = "none" /\ spc[c] = "boost1" /\ PtableFree
    /\ spc' = [spc EXCEPT ![c] = "boost2"] /\ ptlock' = c
    /\ UNCHANGED <<tableVars, queueVars, kernelVars, running, irq, bround, bptr,
                   lockpid, nextpid, ticks, lockCalls, fault>>

(* If the scheduler is locked, ptable.lock is released for the unlock;     *)
(* otherwise it is kept for the loop.                                      *)
BoostTakeLock(c) ==
    /\ fault = "none" /\ spc[c] = "boost1" /\ PtableFree
    /\ IF lockpid # 0
       THEN spc' = [spc EXCEPT ![c] = "boostun"] /\ UNCHANGED ptlock
       ELSE spc' = [spc EXCEPT ![c] = "boost2"] /\ ptlock' = c
    /\ UNCHANGED <<tableVars, queueVars, kernelVars, running, irq, bround, bptr,
                   lockpid, nextpid, ticks, lockCalls, fault>>

clearProc_KeepsTicks(p) ==
    IF state[p] = "UNUSED"
    THEN UNCHANGED queueVars
    ELSE priority' = [priority EXCEPT ![p] = MaxPriority] /\ MoveToBack(p, 0)
         /\ UNCHANGED tq

clearProc_Nothing(p) == UNCHANGED queueVars

(* clearProc(p): an UNUSED slot is left alone, wherever it is.             *)
clearProc(p) ==
    IF state[p] = "UNUSED"
    THEN UNCHANGED queueVars
    ELSE /\ priority' = [priority EXCEPT ![p] = MaxPriority]
         /\ tq' = [tq EXCEPT ![p] = 0]
         /\ MoveToBack(p, 0)

NextSlot_PastEnd(i) == i + 1

(* ++p, and back to ptable.proc for the next round.                        *)
NextSlot(i) == IF i = NPROC THEN 1 ELSE i + 1

(* One iteration of the two nested loops: NPROC rounds over the table.     *)
BoostStep(c) ==
    /\ fault = "none" /\ spc[c] = "boost2" /\ ptlock \in {NoCpu, c}
    /\ clearProc(bptr[c])
    /\ bptr' = [bptr EXCEPT ![c] = NextSlot(@)]
    /\ bround' = [bround EXCEPT ![c] =
                    IF bptr[c] < NPROC THEN @ ELSE NextSlot(@)]
    /\ IF bptr[c] = NPROC /\ bround[c] = NPROC
       THEN ptlock' = NoCpu /\ spc' = [spc EXCEPT ![c] = "pick"]
       ELSE ptlock' = c /\ UNCHANGED spc
    /\ UNCHANGED <<tableVars, kernelVars, running, irq,
                   lockpid, nextpid, ticks, lockCalls, fault>>

SchedulerStep(c) ==
    \/ \E p \in Proc : ExpireTimeQuantum(c, p) \/ Dispatch(c, p)
    \/ GiveUpLock(c) \/ SchedulerSideUnlock(c) \/ NothingToRun(c)
    \/ ReadTicks(c) \/ BoostResetTicks(c) \/ BoostTakeLock(c) \/ BoostStep(c)

----------------------------------------------------------------------------
(* The timer interrupt (trap.c).  The first half counts the tick on the    *)
(* boot CPU and wakes the sleepers; the second half makes a process that   *)
(* was interrupted exit or yield.                                          *)

Timer(c) ==
    /\ fault = "none" /\ InterruptsOn(c)
    /\ \/ TickInScheduler \/ running[c] # NoProc
       \/ \A p \in Proc : state[p] # "RUNNABLE"
    /\ IF c = BootCpu
       THEN /\ TickslockFree /\ PtableFree /\ ticks < MaxTicks
            /\ ticks' = (ticks + 1) % TickMod
            /\ state' = Woken(TicksChan)
       ELSE running[c] # NoProc /\ UNCHANGED <<ticks, state>>
    /\ irq' = [irq EXCEPT ![c] = running[c] # NoProc]
    /\ UNCHANGED <<pid, parent, chan, killed, queueVars, kernelVars, running,
                   spc, bround, bptr, lockpid, nextpid, ptlock, lockCalls, fault>>

(* Killed in user space: exit().  Otherwise yield().                       *)
TimerReturn(c, p) ==
    /\ fault = "none" /\ irq[c] /\ running[c] = p
    /\ irq' = [irq EXCEPT ![c] = FALSE]
    /\ IF killed[p] /\ pc[p] = "user"
       THEN /\ pc' = [pc EXCEPT ![p] = "exit"]
            /\ UNCHANGED <<state, running, spc, bround, bptr, ptlock>>
       ELSE /\ PtableFree
            /\ state' = [state EXCEPT ![p] = "RUNNABLE"]
            /\ BackToScheduler(c) /\ UNCHANGED pc
    /\ UNCHANGED <<pid, parent, chan, killed, queueVars, child, ticks0, nap,
                   lockpid, nextpid, ticks, lockCalls, fault>>

----------------------------------------------------------------------------
(* System calls.                                                           *)

On(c, p) == fault = "none" /\ running[c] = p /\ ~irq[c]

(* syscall() is entered from user space by a process not yet killed.  The  *)
(* init program (init.c) only forks shells and waits.                      *)
Calling(c, p, call) ==
    /\ On(c, p) /\ pc[p] = "user" /\ ~killed[p] /\ call \in Calls
    /\ p = InitProc => call \in {"fork", "wait"}

(* Any trap of a killed process in user space ends in exit().              *)
KilledExit(c, p) ==
    /\ On(c, p) /\ pc[p] = "user" /\ killed[p]
    /\ pc' = [pc EXCEPT ![p] = "exit"]
    /\ UNCHANGED <<tableVars, queueVars, child, ticks0, nap, cpuVars, lockpid,
                   nextpid, ticks, ptlock, lockCalls, fault>>

sys_yield(c, p) ==
    /\ Calling(c, p, "yield") /\ PtableFree
    /\ state' = [state EXCEPT ![p] = "RUNNABLE"]
    /\ BackToScheduler(c)
    /\ UNCHANGED <<pid, parent, chan, killed, queueVars, kernelVars, irq,
                   lockpid, nextpid, ticks, lockCalls, fault>>

(* fork(), first half: allocproc() takes the first UNUSED slot and pushes  *)
(* it to L0.  pushqueue panics if the slot is still in a queue.            *)
FirstUnused(q) ==
    state[q] = "UNUSED" /\ \A r \in 1..(q - 1) : state[r] # "UNUSED"

allocproc(c, p) ==
    /\ Calling(c, p, "fork") /\ PtableFree /\ nextpid <= MaxPid
    /\ \E q \in Proc :
         /\ FirstUnused(q)
         /\ state' = [state EXCEPT ![q] = "EMBRYO"]
         /\ pid' = [pid EXCEPT ![q] = nextpid]
         /\ nextpid' = nextpid + 1
         /\ priority' = [priority EXCEPT ![q] = MaxPriority]
         /\ tq' = [tq EXCEPT ![q] = 0]
         /\ IF level[q] # NoQueue
            THEN fault' = "pushqueue" /\ UNCHANGED <<queue, level, pc, child>>
            ELSE /\ queue' = [queue EXCEPT ![0] = Append(@, q)]
                 /\ level' = [level EXCEPT ![q] = 0]
                 /\ pc' = [pc EXCEPT ![p] = "fork", ![q] = "user"]
                 /\ child' = [child EXCEPT ![p] = q]
                 /\ UNCHANGED fault
    /\ UNCHANGED <<parent, chan, killed, ticks0, nap, cpuVars, lockpid, ticks,
                   ptlock, lockCalls>>

(* fork() with a full table returns -1, which the init program answers by  *)
(* exiting; to any other caller nothing has happened.                      *)
ForkNoSlot(c, p) ==
    /\ Calling(c, p, "fork") /\ PtableFree
    /\ \A q \in Proc : state[q] # "UNUSED"
    /\ pc' = [pc EXCEPT ![p] = IF p = InitProc THEN "exit" ELSE "user"]
    /\ UNCHANGED <<tableVars, queueVars, child, ticks0, nap, cpuVars, lockpid,
                   nextpid, ticks, ptlock, lockCalls, fault>>

(* fork(), second half: the child becomes RUNNABLE.                        *)
ForkDone(c, p) ==
    /\ On(c, p) /\ pc[p] = "fork" /\ PtableFree
    /\ parent' = [parent EXCEPT ![child[p]] = p]
    /\ state' = [state EXCEPT ![child[p]] = "RUNNABLE"]
    /\ pc' = [pc EXCEPT ![p] = "user"]
    /\ child' = [child EXCEPT ![p] = NoProc]
    /\ UNCHANGED <<pid, chan, killed, queueVars, ticks0, nap, cpuVars,
                   lockpid, nextpid, ticks, ptlock, lockCalls, fault>>

(* kalloc() or copyuvm() is out of memory: the slot becomes UNUSED without *)
(* the lock, and stays in its queue.  init.c exits when its fork fails.    *)
ForkFail(c, p) ==
    /\ On(c, p) /\ pc[p] = "fork" /\ "forkfail" \in Calls
    /\ state' = [state EXCEPT ![child[p]] = "UNUSED"]
    /\ pc' = [pc EXCEPT ![p] = IF p = InitProc THEN "exit" ELSE "user"]
    /\ child' = [child EXCEPT ![p] = NoProc]
    /\ UNCHANGED <<pid, parent, chan, killed, queueVars, ticks0, nap, cpuVars,
                   lockpid, nextpid, ticks, ptlock, lockCalls, fault>>

(* exit().  If init gets here (killed, or its fork failed) it panics.      *)
sys_exit(c, p) ==
    /\ Calling(c, p, "exit")
    /\ pc' = [pc EXCEPT ![p] = "exit"]
    /\ UNCHANGED <<tableVars, queueVars, child, ticks0, nap, cpuVars, lockpid,
                   nextpid, ticks, ptlock, lockCalls, fault>>

InitExiting(c, p) ==
    /\ On(c, p) /\ pc[p] = "exit" /\ p = InitProc
    /\ fault' = "init exiting"
    /\ UNCHANGED <<tableVars, queueVars, kernelVars, cpuVars, lockpid, nextpid,
                   ticks, ptlock, lockCalls>>

HoldsLock_Never(p) == FALSE

HoldsLock(p) == lockpid = pid[p]

(* The scheduler lock is ours: release ptable.lock to call schedulerUnlock *)
ExitHoldsLock(c, p) ==
    /\ On(c, p) /\ pc[p] = "exit" /\ p # InitProc /\ PtableFree
    /\ HoldsLock(p)
    /\ pc' = [pc EXCEPT ![p] = "exitun"]
    /\ UNCHANGED <<tableVars, queueVars, child, ticks0, nap, cpuVars, lockpid,
                   nextpid, ticks, ptlock, lockCalls, fault>>

(* Wake the parent, hand the children to init, become a ZOMBIE, sched().   *)
Reparented(p) == [q \in Proc |-> IF parent[q] = p THEN InitProc ELSE parent[q]]

ExitWakes_NotParent(p, q) ==
    /\ state[q] = "SLEEPING" /\ chan[q] = InitProc
    /\ \E r \in Proc : parent[r] = p /\ state[r] = "ZOMBIE"

ExitWakes(p, q) ==
    /\ state[q] = "SLEEPING"
    /\ \/ chan[q] = parent[p]
       \/ chan[q] = InitProc
          /\ \E r \in Proc : parent[r] = p /\ state[r] = "ZOMBIE"

ExitFinish(c, p) ==
    /\ On(c, p) /\ p # InitProc /\ PtableFree
    /\ pc[p] = "exit2" \/ (pc[p] = "exit" /\ ~HoldsLock(p))
    /\ state' = [q \in Proc |-> IF q = p THEN "ZOMBIE"
                                ELSE IF ExitWakes(p, q) THEN "RUNNABLE"
                                ELSE state[q]]
    /\ parent' = Reparented(p)
    /\ pc' = [pc EXCEPT ![p] = "user"]
    /\ BackToScheduler(c)
    /\ UNCHANGED <<pid, chan, killed, queueVars, child, ticks0, nap, irq,
                   lockpid, nextpid, ticks, lockCalls, fault>>

(* wait(): one pass over the table, with ptable.lock held on entry (after  *)
(* its sleep) or taken by the call.                                        *)
Children(p) == {q \in Proc : parent[q] = p}

FirstZombieChild(p, q) ==
    /\ q \in Children(p) /\ state[q] = "ZOMBIE"
    /\ \A r \in Children(p) : r < q => state[r] # "ZOMBIE"

LeaveQueue(q) ==
    /\ queue' = [queue EXCEPT ![level[q]] = Erase(@, q)]
    /\ level' = [level EXCEPT ![q] = NoQueue]

Reap(c, p, q) ==
    /\ FirstZombieChild(p, q)
    /\ LeaveQueue(q)
    /\ priority' = [priority EXCEPT ![q] = -1]
    /\ tq' = [tq EXCEPT ![q] = -1]
    /\ pid' = [pid EXCEPT ![q] = 0]
    /\ parent' = [parent EXCEPT ![q] = NoProc]
    /\ killed' = [killed EXCEPT ![q] = FALSE]
    /\ state' = [state EXCEPT ![q] = "UNUSED"]
    /\ pc' = [pc EXCEPT ![p] = "user"]
    /\ ptlock' = NoCpu
    /\ UNCHANGED <<chan, cpuVars>>

NoZombieChild(p) == \A q \in Children(p) : state[q] # "ZOMBIE"

WaitFails(p) ==
    /\ NoZombieChild(p) /\ (Children(p) = {} \/ killed[p])
    /\ pc' = [pc EXCEPT ![p] = "user"]
    /\ ptlock' = NoCpu
    /\ UNCHANGED <<tableVars, queueVars, cpuVars>>

WaitSleeps(c, p) ==
    /\ NoZombieChild(p) /\ Children(p) # {} /\ ~killed[p]
    /\ chan' = [chan EXCEPT ![p] = p]
    /\ state' = [state EXCEPT ![p] = "SLEEPING"]
    /\ pc' = [pc EXCEPT ![p] = "wait"]
    /\ BackToScheduler(c)
    /\ UNCHANGED <<pid, parent, killed, queueVars, irq>>

wait(c, p) ==
    /\ \/ Calling(c, p, "wait") /\ PtableFree
       \/ On(c, p) /\ pc[p] = "wait" /\ ptlock = c
    /\ \/ \E q \in Proc : Reap(c, p, q)
       \/ WaitFails(p)
       \/ WaitSleeps(c, p)
    /\ UNCHANGED <<child, ticks0, nap, lockpid, nextpid, ticks, lockCalls, fault>>

(* kill(n): the first slot with that pid, whatever its state.              *)
kill(c, p) ==
    /\ Calling(c, p, "kill") /\ PtableFree
    /\ \E n \in KillPids, q \in Proc :
         /\ pid[q] = n /\ \A r \in 1..(q - 1) : pid[r] # n
         /\ killed' = [killed EXCEPT ![q] = TRUE]
         /\ state' = [state EXCEPT ![q] = IF @ = "SLEEPING" THEN "RUNNABLE" ELSE @]
    /\ UNCHANGED <<pid, parent, chan, queueVars, kernelVars, cpuVars, lockpid,
                   nextpid, ticks, ptlock, lockCalls, fault>>

(* sys_sleep(n): unsigned arithmetic on a tick count that may be reset.    *)
Elapsed(p) == (ticks - ticks0[p] + TickMod) % TickMod

sys_sleep(c, p) ==
    /\ Calling(c, p, "sleep") /\ TickslockFree
    /\ \E n \in SleepTimes :
         /\ ticks0' = [ticks0 EXCEPT ![p] = ticks]
         /\ nap' = [nap EXCEPT ![p] = n]
         /\ pc' = [pc EXCEPT ![p] = IF n = 0 THEN "user" ELSE "tsleep"]
    /\ UNCHANGED <<tableVars, queueVars, child, cpuVars, lockpid, nextpid,
                   ticks, ptlock, lockCalls, fault>>

(* sleep(&ticks, &tickslock): takes ptable.lock, releases tickslock.       *)
SleepOnTicks(c, p) ==
    /\ On(c, p) /\ pc[p] = "tsleep" /\ PtableFree
    /\ chan' = [chan EXCEPT ![p] = TicksChan]
    /\ state' = [state EXCEPT ![p] = "SLEEPING"]
    /\ pc' = [pc EXCEPT ![p] = "tcheck"]
    /\ BackToScheduler(c)
    /\ UNCHANGED <<pid, parent, killed, queueVars, child, ticks0, nap, irq,
                   lockpid, nextpid, ticks, lockCalls, fault>>

StillAsleep_Killed(p) == Elapsed(p) < nap[p]

StillAsleep(p) == Elapsed(p) < nap[p] /\ ~killed[p]

(* The while condition, tested again under tickslock.                      *)
SleepTest(c, p) ==
    /\ On(c, p) /\ pc[p] = "tcheck" /\ TickslockFree
    /\ pc' = [pc EXCEPT ![p] = IF StillAsleep(p)
                               THEN "tsleep" ELSE "user"]
    /\ UNCHANGED <<tableVars, queueVars, child, ticks0, nap, cpuVars, lockpid,
                   nextpid, ticks, ptlock, lockCalls, fault>>

----------------------------------------------------------------------------
(* The scheduler's own system calls.                                       *)

(* A wrong password, or a lock that another process holds, kills.          *)
LockRefused(c, p) ==
    /\ PtableFree
    /\ \/ Calling(c, p, "badlock")
       \/ Calling(c, p, "lock") /\ lockpid \notin {0, pid[p]}
    /\ killed' = [killed EXCEPT ![p] = TRUE]
    /\ UNCHANGED <<state, pid, parent, chan, queueVars, kernelVars, cpuVars,
                   lockpid, nextpid, ticks, ptlock, lockCalls, fault>>

schedulerLock(c, p) ==
    /\ Calling(c, p, "lock") /\ PtableFree
    /\ lockpid \in {0, pid[p]} /\ (lockpid = 0 => lockCalls < MaxLockCalls)
    /\ lockpid' = pid[p]
    /\ lockCalls' = IF lockpid = 0 THEN lockCalls + 1 ELSE lockCalls
    /\ pc' = [pc EXCEPT ![p] = "lockticks"]
    /\ UNCHANGED <<tableVars, queueVars, child, ticks0, nap, cpuVars, nextpid,
                   ticks, ptlock, fault>>

(* The tail of schedulerLock: the holder gets a full period.               *)
LockResetsTicks(c, p) ==
    /\ On(c, p) /\ pc[p] = "lockticks" /\ TickslockFree
    /\ ticks' = 0
    /\ pc' = [pc EXCEPT ![p] = "user"]
    /\ UNCHANGED <<tableVars, queueVars, child, ticks0, nap, cpuVars, lockpid,
                   nextpid, ptlock, lockCalls, fault>>

(* The body of schedulerUnlock(PASSWORD) called by process p: only the     *)
(* holder unlocks, and goes to the front of L0.                            *)
UnlockBy(p) ==
    IF lockpid = pid[p]
    THEN /\ MoveToFront(p)
         /\ priority' = [priority EXCEPT ![p] = MaxPriority]
         /\ tq' = [tq EXCEPT ![p] = 0]
         /\ lockpid' = 0
    ELSE UNCHANGED <<queueVars, lockpid>>

schedulerUnlock(c, p) ==
    /\ Calling(c, p, "unlock") /\ PtableFree
    /\ UnlockBy(p)
    /\ UNCHANGED <<tableVars, kernelVars, cpuVars, nextpid, ticks, ptlock,
                   lockCalls, fault>>

ExitUnlocks(c, p) ==
    /\ On(c, p) /\ pc[p] = "exitun" /\ PtableFree
    /\ UnlockBy(p)
    /\ pc' = [pc EXCEPT ![p] = "exit2"]
    /\ UNCHANGED <<tableVars, child, ticks0, nap, cpuVars, nextpid, ticks,
                   ptlock, lockCalls, fault>>

setPriority(c, p) ==
    /\ Calling(c, p, "setPriority") /\ PtableFree
    /\ \E q \in Proc, n \in Priorities :
         /\ state[q] # "UNUSED"
         /\ priority' = [priority EXCEPT ![q] = n]
    /\ UNCHANGED <<tableVars, tq, level, queue, kernelVars, cpuVars, lockpid,
                   nextpid, ticks, ptlock, lockCalls, fault>>

(* The range check lets level 3 through: ptable.queue + 3 is past the end. *)
(* The move keeps tq.                                                      *)
setLevel(c, p) ==
    /\ Calling(c, p, "setLevel") /\ PtableFree
    /\ \E q \in Proc, l \in SetLevels :
         /\ l <= NQUEUE /\ state[q] # "UNUSED"
         /\ IF l < NQUEUE
            THEN MoveToBack(q, l) /\ UNCHANGED fault
            ELSE fault' = "wild" /\ UNCHANGED <<queue, level>>
    /\ UNCHANGED <<tableVars, priority, tq, kernelVars, cpuVars, lockpid,
                   nextpid, ticks, ptlock, lockCalls>>

----------------------------------------------------------------------------

(* What a process does inside the kernel on its own.                       *)
KernelStep(c, p) ==
    \/ KilledExit(c, p) \/ ForkDone(c, p) \/ InitExiting(c, p)
    \/ ExitHoldsLock(c, p) \/ ExitUnlocks(c, p)
    \/ ExitFinish(c, p) \/ SleepOnTicks(c, p) \/ SleepTest(c, p)
    \/ LockResetsTicks(c, p) \/ (pc[p] = "wait" /\ wait(c, p))

(* What it chooses to do, or the memory allocator chooses for it.          *)
UserStep(c, p) ==
    \/ sys_yield(c, p) \/ allocproc(c, p) \/ ForkNoSlot(c, p) \/ ForkFail(c, p)
    \/ sys_exit(c, p) \/ (pc[p] = "user" /\ wait(c, p)) \/ kill(c, p) \/ sys_sleep(c, p)
    \/ LockRefused(c, p) \/ schedulerLock(c, p) \/ schedulerUnlock(c, p)
    \/ setPriority(c, p) \/ setLevel(c, p)

Next ==
    \E c \in Cpu :
      \/ SchedulerStep(c)
      \/ Timer(c)
      \/ \E p \in Proc : TimerReturn(c, p) \/ KernelStep(c, p) \/ UserStep(c, p)

Spec == Init /\ [][Next]_vars

(* A CPU in scheduler() or in the timer interrupt goes on.  The local APIC *)
(* keeps interrupting, and a pending interrupt is taken when interrupts    *)
(* are next enabled.  A process inside a system call that is dispatched    *)
(* again and again executes instructions each time, so it ends the call    *)
(* however often it is preempted.  A user program owes nothing.            *)
Fairness ==
    /\ \A c \in Cpu : /\ WF_vars(SchedulerStep(c))
                      /\ SF_vars(Timer(c))
                      /\ WF_vars(\E p \in Proc : TimerReturn(c, p))
    /\ \A p \in Proc : SF_vars(\E c \in Cpu : KernelStep(c, p))

FairSpec == Spec /\ Fairness

----------------------------------------------------------------------------
(* Properties.                                                             *)

(* Every field of struct proc, struct queue and struct cpu holds a value   *)
(* of its kind: a queue is a list of slots, a level an index of a queue or *)
(* none, an elected CPU owns ptable.lock.                                  *)
TypeOK ==
    /\ state \in [Proc -> States]
    /\ pid \in [Proc -> Nat]
    /\ parent \in [Proc -> Proc \cup {NoProc}]
    /\ chan \in [Proc -> Proc \cup {NoChan, TicksChan}]
    /\ killed \in [Proc -> BOOLEAN]
    /\ priority \in [Proc -> -1..MaxPriority]
    /\ tq \in [Proc -> Nat \cup {-1}]
    /\ level \in [Proc -> Level \cup {NoQueue}]
    /\ queue \in [Level -> Seq(Proc)]
    /\ lockpid \in Nat /\ nextpid \in Nat /\ ticks \in Nat
    /\ pc \in [Proc -> KernelPoints]
    /\ child \in [Proc -> Proc \cup {NoProc}]
    /\ ticks0 \in [Proc -> Nat] /\ nap \in [Proc -> Nat]
    /\ running \in [Cpu -> Proc \cup {NoProc}]
    /\ spc \in [Cpu -> SchedulerPoints]
    /\ irq \in [Cpu -> BOOLEAN]
    /\ bround \in [Cpu -> Proc] /\ bptr \in [Cpu -> Proc]
    /\ ptlock \in Cpu \cup {NoCpu}
    /\ lockCalls \in Nat
    /\ fault \in Faults

(* The run queues and the back pointers p->queue agree, nobody is queued   *)
(* twice, and no process of any state but UNUSED is ever outside the       *)
(* queues: erasequeue never panics, and a RUNNABLE process can be found.   *)
QueuesExact ==
    /\ \A l \in Level : IsInjective(queue[l])
    /\ \A l \in Level, p \in Proc : p \in Range(queue[l]) <=> level[p] = l
    /\ \A p \in Proc : state[p] # "UNUSED" => level[p] # NoQueue

(* A CPU runs the process it says it runs, and no other CPU runs it too:   *)
(* scheduler() marks a process RUNNING before anyone else can pick it.     *)
OneCpuPerProcess ==
    /\ \A c \in Cpu : running[c] # NoProc => state[running[c]] = "RUNNING"
    /\ \A p \in Proc : state[p] = "RUNNING" => \E c \in Cpu : running[c] = p
    /\ \A c, d \in Cpu : running[c] = running[d] /\ running[c] # NoProc => c = d

(* The pid that locks the scheduler is the pid of a process that can still *)
(* unlock it: exit() has given the lock up before it can become a ZOMBIE,  *)
(* and getProcessToRun never dereferences a null pointer.                  *)
LockHolderLive ==
    lockpid # 0 =>
      \E p \in Proc : /\ pid[p] = lockpid
                      /\ state[p] \in {"SLEEPING", "RUNNABLE", "RUNNING"}

(* While a process holds the scheduler lock, no other process runs.        *)
SchedulerLockExclusive ==
    lockpid # 0 =>
      \A c \in Cpu : running[c] # NoProc => pid[running[c]] = lockpid

(* No process has used more ticks than the quantum of its queue: the test  *)
(* for an expired quantum is an equality, which a larger tq would escape.  *)
TqWithinQuantum ==
    \A p \in Proc : level[p] # NoQueue => tq[p] <= getTimeQuantum(level[p])

(* A parent asleep in wait() has no ZOMBIE child: between its scan of the  *)
(* table and its sleep no exit is lost, nor is an orphan's.                *)
NoLostChildWakeup ==
    \A p, q \in Proc :
      ~ (state[p] = "SLEEPING" /\ chan[p] = p /\ parent[q] = p /\ state[q] = "ZOMBIE")

(* A process is inside schedulerLock, which is about to set ticks to 0.  A *)
(* holder that calls it again and again puts off every boost.              *)
Relocking == \E p \in Proc : pc[p] = "lockticks"

(* MLFQ starves nobody: priority boosts bring every RUNNABLE process back  *)
(* to L0 before the others can use the CPU up, unless the holder of the    *)
(* scheduler lock takes it again for ever.                                 *)
NoStarvation ==
    \/ []<>Relocking
    \/ \A p \in Proc : state[p] = "RUNNABLE" ~> state[p] = "RUNNING"

(* A scheduler lock does not last: the next boost, an exit or a sleep of   *)
(* its holder ends it, unless the holder calls schedulerLock again.        *)
LockReleased == lockpid # 0 /\ ~Relocking ~> lockpid = 0 \/ Relocking

(* A killed process leaves the table of the living, unless the holder of   *)
(* the scheduler lock keeps the CPU for ever.                              *)
KilledDies ==
    \/ []<>Relocking
    \/ \A p \in Proc : (killed[p] /\ state[p] # "UNUSED" /\ p # InitProc)
                        ~> state[p] \in {"ZOMBIE", "UNUSED"}

----------------------------------------------------------------------------
(* What the repository says of the program and the code does not do (the   *)
(* README lists where).  No passing run checks these.                      *)

(* pushqueue never meets a process that is still in a queue.               *)
NoQueuePanic == fault # "pushqueue"

(* No queue outside ptable.queue is ever written.                          *)
QueueInBounds == fault # "wild"

(* A killed slot is a process somebody named: kill() reaches no free slot, *)
(* whose next owner would be born killed.                                  *)
KillOnlyProcesses == \A p \in Proc : killed[p] => state[p] # "UNUSED"

(* The tick count only grows.                                              *)
UptimeMonotonic == [][ticks' >= ticks]_ticks

(* sleep(n) returns.                                                       *)
SleepReturns ==
    \A p \in Proc : pc[p] \in {"tsleep", "tcheck"} ~> pc[p] = "user"
=============================================================================
