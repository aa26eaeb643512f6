-------------------------------- MODULE Lwp --------------------------------
(***************************************************************************)
(* Light-weight processes: the process and thread tables of the second     *)
(* kernel (project2_LWP/proc.c, exec.c, trap.c).                           *)
(*                                                                         *)
(* A process has NTHREAD thread slots that share its memory, files and     *)
(* parent.  The scheduler picks a RUNNABLE process, then one of its        *)
(* RUNNABLE threads in round-robin order, so at most one thread of a       *)
(* process runs at a time; p->thidx is the index of the thread that runs   *)
(* or ran last.  A sleeping thread leaves its process RUNNABLE.            *)
(*                                                                         *)
(* A critical section of ptable.lock is one step.  Between two of them the *)
(* kernel can be preempted by the timer, so fork, exit and exec are        *)
(* several steps.  ptlock is the CPU that holds ptable.lock between steps: *)
(* a thread that comes back from sleep() holds it until it releases it.    *)
(* The channel a thread sleeps on follows from where it sleeps (pc, arg):  *)
(* its own process in wait, the joined thread in thread_join, a device in  *)
(* a read.                                                                 *)
(***************************************************************************)
EXTENDS Naturals, FiniteSets

CONSTANTS
    NPROC,      \* slots of the process table
    NTHREAD,    \* thread slots of a process
    NCPU,       \* CPUs
    Calls,      \* the system calls the program in each slot makes
    NoMemory,   \* whether kalloc and copyuvm may fail
    MaxOps      \* bound: file system operations under way

AllCalls == {"fork", "exit", "wait", "kill", "read", "create", "texit", "join",
             "exec", "op"}

ASSUME SizeAssumption ==
    /\ NPROC \in Nat \ {0} /\ NTHREAD \in Nat \ {0} /\ NCPU \in Nat \ {0}
    /\ Calls \in [1..NPROC -> SUBSET AllCalls] /\ NoMemory \in BOOLEAN /\ MaxOps \in Nat

Proc == 1..NPROC
Thread == 0..(NTHREAD - 1)
Cpu == 0..(NCPU - 1)
NoProc == 0
NoCpu == NCPU
initproc == 1

VARIABLES
    pstate,       \* p->state
    parent,       \* p->parent
    killed,       \* p->killed
    thidx,        \* p->thidx
    tstate,       \* p->thread[i].state
    pc,           \* where the thread is in the kernel
    arg,          \* the child of a fork, the thread joined, the next slot exec clears
    fresh,        \* the thread that is joined is still the one that was asked for
    ofile,        \* the process has the shared file open
    ref,          \* the reference count of that file
    outstanding,  \* log.outstanding
    running,      \* c->proc
    ptlock,       \* the CPU that holds ptable.lock
    fault         \* the panic that stopped the machine

procVars == <<pstate, parent, killed>>
threadVars == <<tstate, pc, arg, fresh>>
fileVars == <<ofile, ref, outstanding>>
vars == <<procVars, thidx, threadVars, fileVars, running, ptlock, fault>>

States == {"UNUSED", "EMBRYO", "SLEEPING", "RUNNABLE", "RUNNING", "ZOMBIE"}

\* Points where the timer may preempt the kernel: interrupts are on.
Preemptible == {"user", "sys", "fork", "fork2", "exit", "exitclr", "exit2",
                "exec", "op", "read"}

\* Points where a thread sleeps, or left the CPU, with ptable.lock in hand.
HoldsPtable == {"wait", "join", "texit"}

Points == Preemptible \cup HoldsPtable \cup {"rdsleep"}

TypeOK ==
    /\ pstate \in [Proc -> States] /\ parent \in [Proc -> Proc \cup {NoProc}]
    /\ killed \in [Proc -> BOOLEAN] /\ thidx \in [Proc -> Thread]
    /\ tstate \in [Proc -> [Thread -> States]]
    /\ pc \in [Proc -> [Thread -> Points]]
    /\ arg \in [Proc -> [Thread -> Nat]]
    /\ fresh \in [Proc -> [Thread -> BOOLEAN]]
    /\ ofile \in [Proc -> BOOLEAN] /\ ref \in Nat /\ outstanding \in 0..MaxOps
    /\ running \in [Cpu -> Proc \cup {NoProc}] /\ ptlock \in Cpu \cup {NoCpu}
    /\ fault \in {"none", "acquire", "fileclose", "init exiting"}

\* userinit: the first process, made by allocproc in slot 1, thread 0.
Init ==
    /\ pstate = [p \in Proc |-> IF p = initproc THEN "RUNNABLE" ELSE "UNUSED"]
    /\ parent = [p \in Proc |-> NoProc] /\ killed = [p \in Proc |-> FALSE]
    /\ thidx = [p \in Proc |-> 0]
    /\ tstate = [p \in Proc |-> [i \in Thread |->
                    IF p = initproc /\ i = 0 THEN "RUNNABLE" ELSE "UNUSED"]]
    /\ pc = [p \in Proc |-> [i \in Thread |-> "user"]]
    /\ arg = [p \in Proc |-> [i \in Thread |-> 0]]
    /\ fresh = [p \in Proc |-> [i \in Thread |-> TRUE]]
    /\ ofile = [p \in Proc |-> p = initproc] /\ ref = 1 /\ outstanding = 0
    /\ running = [c \in Cpu |-> NoProc] /\ ptlock = NoCpu /\ fault = "none"

-----------------------------------------------------------------------------
(* Helpers.                                                                *)

\* The lowest element of a nonempty set of slots: every table scan of the
\* kernel goes up from the first slot.
First(S) == CHOOSE x \in S : \A y \in S : x <= y
Last(S) == CHOOSE x \in S : \A y \in S : y <= x

\* The thread of the running process p is p->thread[p->thidx].
On(c, p) == fault = "none" /\ running[c] = p
At(c, p, point) == On(c, p) /\ pc[p][thidx[p]] = point
PtableFree == ptlock = NoCpu

\* In a system call, before its body: trap() has seen p->killed clear.
Calling(c, p, call) == At(c, p, "sys") /\ call \in Calls[p]

Goto(p, point) == pc' = [pc EXCEPT ![p][thidx[p]] = point]

\* sched(): the thread and its process change state and the CPU is free.
Leave(c, p, ts) ==
    /\ tstate' = [ts EXCEPT ![p][thidx[p]] = IF @ = "RUNNING" THEN "RUNNABLE" ELSE @]
    /\ pstate' = [pstate EXCEPT ![p] = "RUNNABLE"]
    /\ running' = [running EXCEPT ![c] = NoProc]
    /\ ptlock' = NoCpu

UnusedProcs == {p \in Proc : pstate[p] = "UNUSED"}
UnusedThreads(p) == {i \in Thread : tstate[p][i] = "UNUSED"}

\* countth
countth(p, ts) == Cardinality({i \in Thread : ts[p][i] \notin {"UNUSED", "ZOMBIE"}})

\* wakeup1: the threads among sleepers, those at a sleep on the channel,
\* that are asleep in ts.
wakeup1(ts, sleepers) ==
    [p \in Proc |-> [i \in Thread |->
        IF /\ pstate[p] \in {"RUNNABLE", "RUNNING"} /\ ts[p][i] = "SLEEPING"
           /\ <<p, i>> \in sleepers
        THEN "RUNNABLE" ELSE ts[p][i]]]

InWait(p, i) == pc[p][i] = "wait"
Joining(p, i, j) == pc[p][i] = "join" /\ arg[p][i] = j

-----------------------------------------------------------------------------
(* scheduler() and the timer.                                              *)

thidxtorun_FromZero(p) == First({i \in Thread : tstate[p][i] = "RUNNABLE"})

\* The next RUNNABLE thread after p->thidx, round the table; p->thidx itself
\* when there is no other.
thidxtorun(p) ==
    LET distance(i) == (i + NTHREAD - thidx[p]) % NTHREAD
        others == {i \in Thread : i # thidx[p] /\ tstate[p][i] = "RUNNABLE"}
    IN  IF others = {} THEN thidx[p]
        ELSE CHOOSE i \in others : \A j \in others : distance(i) <= distance(j)

existrunnable(p) == \E i \in Thread : tstate[p][i] = "RUNNABLE"

scheduler_LeavesRunnable(c, p) ==
    /\ fault = "none" /\ running[c] = NoProc /\ PtableFree
    /\ pstate[p] = "RUNNABLE" /\ existrunnable(p)
    /\ LET i == thidxtorun(p) IN
       /\ thidx' = [thidx EXCEPT ![p] = i]
       /\ tstate' = [tstate EXCEPT ![p][i] = "RUNNING"]
       /\ running' = [running EXCEPT ![c] = p]
       /\ ptlock' = IF pc[p][i] \in HoldsPtable THEN c ELSE NoCpu
    /\ UNCHANGED <<procVars, pc, arg, fresh, fileVars, fault>>

scheduler(c, p) ==
    /\ fault = "none" /\ running[c] = NoProc /\ PtableFree
    /\ pstate[p] = "RUNNABLE" /\ existrunnable(p)
    /\ LET i == thidxtorun(p) IN
       /\ thidx' = [thidx EXCEPT ![p] = i]
       /\ tstate' = [tstate EXCEPT ![p][i] = "RUNNING"]
       /\ pstate' = [pstate EXCEPT ![p] = "RUNNING"]
       /\ running' = [running EXCEPT ![c] = p]
       /\ ptlock' = IF pc[p][i] \in HoldsPtable THEN c ELSE NoCpu
    /\ UNCHANGED <<parent, killed, pc, arg, fresh, fileVars, fault>>

\* A timer interrupt: yield(), unless the interrupted user code is killed.
yield(c, p) ==
    /\ On(c, p) /\ PtableFree
    /\ pc[p][thidx[p]] \in Preemptible
    /\ pc[p][thidx[p]] = "user" => ~killed[p]
    /\ Leave(c, p, tstate)
    /\ UNCHANGED <<parent, killed, thidx, pc, arg, fresh, fileVars, fault>>

\* trap(): a system call begins when p->killed is clear; a killed process
\* exits at the entry, at the return and at a timer interrupt in user mode.
SyscallEntry(c, p) ==
    /\ At(c, p, "user") /\ ~killed[p] /\ PtableFree
    /\ Goto(p, "sys")
    /\ UNCHANGED <<procVars, thidx, tstate, arg, fresh, fileVars, running, ptlock, fault>>

KilledExit(c, p) ==
    /\ At(c, p, "user") /\ killed[p] /\ PtableFree
    /\ Goto(p, "exit")
    /\ UNCHANGED <<procVars, thidx, tstate, arg, fresh, fileVars, running, ptlock, fault>>

\* A system call or the next interrupt takes ptable.lock on the CPU that
\* never released it.
acquire_Again(c, p) ==
    /\ On(c, p) /\ ptlock = c /\ pc[p][thidx[p]] \notin HoldsPtable
    /\ fault' = "acquire"
    /\ UNCHANGED <<procVars, thidx, threadVars, fileVars, running, ptlock>>

-----------------------------------------------------------------------------
(* fork().                                                                 *)

\* allocproc: the first UNUSED slot, its first UNUSED thread.  p->thidx of
\* the slot is whatever the slot's last process left there.
allocproc(c, p) ==
    /\ Calling(c, p, "fork") /\ PtableFree /\ UnusedProcs # {}
    /\ LET q == First(UnusedProcs) IN
       /\ pstate' = [pstate EXCEPT ![q] = "EMBRYO"]
       /\ tstate' = [tstate EXCEPT ![q][First(UnusedThreads(q))] = "EMBRYO"]
       /\ arg' = [arg EXCEPT ![p][thidx[p]] = q]
    /\ Goto(p, "fork")
    /\ UNCHANGED <<parent, killed, thidx, fresh, fileVars, running, ptlock, fault>>

ForkNoSlot(c, p) ==
    /\ Calling(c, p, "fork") /\ PtableFree /\ UnusedProcs = {}
    /\ Goto(p, IF p = initproc THEN "exit" ELSE "user")
    /\ UNCHANGED <<procVars, thidx, tstate, arg, fresh, fileVars, running, ptlock, fault>>

\* kalloc fails: the thread that allocth chose, the last EMBRYO one, is
\* released.  copyuvm fails: the thread at p->thidx is.
ForkNoMemory(c, p) ==
    /\ At(c, p, "fork") /\ NoMemory
    /\ LET q == arg[p][thidx[p]] IN
       /\ pstate' = [pstate EXCEPT ![q] = "UNUSED"]
       /\ \E i \in {thidx[q], Last({j \in Thread : tstate[q][j] = "EMBRYO"})} :
             tstate' = [tstate EXCEPT ![q][i] = "UNUSED"]
    /\ Goto(p, IF p = initproc THEN "exit" ELSE "user")
    /\ arg' = [arg EXCEPT ![p][thidx[p]] = 0]
    /\ UNCHANGED <<parent, killed, thidx, fresh, fileVars, running, ptlock, fault>>

\* The copies: parent, open files.
ForkCopy(c, p) ==
    /\ At(c, p, "fork")
    /\ LET q == arg[p][thidx[p]] IN
       /\ parent' = [parent EXCEPT ![q] = p]
       /\ ofile' = [ofile EXCEPT ![q] = ofile[p]]
    /\ ref' = IF ofile[p] THEN ref + 1 ELSE ref
    /\ Goto(p, "fork2")
    /\ UNCHANGED <<pstate, killed, thidx, tstate, arg, fresh, outstanding, running, ptlock, fault>>

ForkDone(c, p) ==
    /\ At(c, p, "fork2") /\ PtableFree
    /\ LET q == arg[p][thidx[p]] IN
       /\ pstate' = [pstate EXCEPT ![q] = "RUNNABLE"]
       /\ tstate' = [tstate EXCEPT ![q][thidx[q]] = "RUNNABLE"]
       /\ pc' = [pc EXCEPT ![q][thidx[q]] = "user", ![p][thidx[p]] = "user"]
    /\ arg' = [arg EXCEPT ![p][thidx[p]] = 0]
    /\ UNCHANGED <<parent, killed, thidx, fresh, fileVars, running, ptlock, fault>>

-----------------------------------------------------------------------------
(* exit() and wait().                                                      *)

sys_exit(c, p) ==
    /\ Calling(c, p, "exit")
    /\ Goto(p, "exit")
    /\ UNCHANGED <<procVars, thidx, tstate, arg, fresh, fileVars, running, ptlock, fault>>

InitExiting(c, p) ==
    /\ At(c, p, "exit") /\ PtableFree /\ p = initproc
    /\ fault' = "init exiting"
    /\ UNCHANGED <<procVars, thidx, threadVars, fileVars, running, ptlock>>

\* fileclose(curproc->ofile[fd]), then curproc->ofile[fd] = 0.
ExitCloses(c, p) ==
    /\ At(c, p, "exit") /\ PtableFree /\ p # initproc
    /\ IF ~ofile[p] THEN Goto(p, "exit2") /\ UNCHANGED <<ref, fault>>
       ELSE IF ref < 1 THEN fault' = "fileclose" /\ UNCHANGED <<ref, pc>>
       ELSE ref' = ref - 1 /\ Goto(p, "exitclr") /\ UNCHANGED fault
    /\ UNCHANGED <<procVars, thidx, tstate, arg, fresh, ofile, outstanding, running, ptlock>>

ExitClears(c, p) ==
    /\ At(c, p, "exitclr")
    /\ ofile' = [ofile EXCEPT ![p] = FALSE]
    /\ Goto(p, "exit2")
    /\ UNCHANGED <<procVars, thidx, tstate, arg, fresh, ref, outstanding, running, ptlock, fault>>

ExitWakes_Nobody(p) == tstate

\* Wakes the parent's waiters, and init's when a ZOMBIE child is handed to it.
ExitWakes(p) ==
    wakeup1(tstate, {t \in Proc \X Thread :
        /\ InWait(t[1], t[2])
        /\ \/ t[1] = parent[p]
           \/ t[1] = initproc /\ \E k \in Proc : parent[k] = p /\ pstate[k] = "ZOMBIE"})

ExitZombie(c, p) ==
    /\ At(c, p, "exit2") /\ PtableFree
    /\ tstate' = ExitWakes(p)
    /\ parent' = [q \in Proc |-> IF parent[q] = p THEN initproc ELSE parent[q]]
    /\ pstate' = [pstate EXCEPT ![p] = "ZOMBIE"]
    /\ running' = [running EXCEPT ![c] = NoProc]
    /\ UNCHANGED <<killed, thidx, pc, arg, fresh, fileVars, ptlock, fault>>

Children(p) == {q \in Proc : parent[q] = p}
Zombies(p) == {q \in Children(p) : pstate[q] = "ZOMBIE"}

\* In wait() with ptable.lock: just called, or back from sleep().
Waiting(c, p) ==
    \/ Calling(c, p, "wait") /\ PtableFree
    \/ At(c, p, "wait") /\ ptlock = c

\* The first ZOMBIE child is freed, with every thread it has.
WaitReaps(c, p) ==
    /\ Waiting(c, p) /\ Zombies(p) # {}
    /\ LET q == First(Zombies(p)) IN
       /\ pstate' = [pstate EXCEPT ![q] = "UNUSED"]
       /\ parent' = [parent EXCEPT ![q] = NoProc]
       /\ killed' = [killed EXCEPT ![q] = FALSE]
       /\ tstate' = [tstate EXCEPT ![q] = [i \in Thread |-> "UNUSED"]]
       /\ pc' = [pc EXCEPT ![q] = [i \in Thread |-> "user"], ![p][thidx[p]] = "user"]
       /\ arg' = [arg EXCEPT ![q] = [i \in Thread |-> 0]]
       /\ fresh' = [fresh EXCEPT ![q] = [i \in Thread |-> TRUE]]
    /\ ptlock' = NoCpu
    /\ UNCHANGED <<thidx, fileVars, running, fault>>

WaitReturns(c, p) ==
    /\ Waiting(c, p) /\ Zombies(p) = {} /\ (Children(p) = {} \/ killed[p])
    /\ Goto(p, "user")
    /\ ptlock' = NoCpu
    /\ UNCHANGED <<procVars, thidx, tstate, arg, fresh, fileVars, running, fault>>

WaitSleeps(c, p) ==
    /\ Waiting(c, p) /\ Zombies(p) = {} /\ Children(p) # {} /\ ~killed[p]
    /\ Leave(c, p, [tstate EXCEPT ![p][thidx[p]] = "SLEEPING"])
    /\ Goto(p, "wait")
    /\ UNCHANGED <<parent, killed, thidx, arg, fresh, fileVars, fault>>

-----------------------------------------------------------------------------
(* kill(), and a system call that sleeps for a device (consoleread,        *)
(* piperead, sys_sleep): it tests p->killed before each sleep.             *)

\* Only the thread at q->thidx is woken.
kill(c, p, q) ==
    /\ Calling(c, p, "kill") /\ PtableFree /\ pstate[q] # "UNUSED"
    /\ killed' = [killed EXCEPT ![q] = TRUE]
    /\ tstate' = [tstate EXCEPT ![q][thidx[q]] = IF @ = "SLEEPING" THEN "RUNNABLE" ELSE @]
    /\ Goto(p, "user")
    /\ UNCHANGED <<pstate, parent, thidx, arg, fresh, fileVars, running, ptlock, fault>>

Reading(c, p) == Calling(c, p, "read") \/ At(c, p, "read")

ReadReturns(c, p) ==
    /\ Reading(c, p)
    /\ Goto(p, "user")
    /\ UNCHANGED <<procVars, thidx, tstate, arg, fresh, fileVars, running, ptlock, fault>>

\* Nothing to read: the device's lock is kept until the thread sleeps.
ReadWaits(c, p) ==
    /\ Reading(c, p) /\ ~killed[p]
    /\ Goto(p, "rdsleep")
    /\ UNCHANGED <<procVars, thidx, tstate, arg, fresh, fileVars, running, ptlock, fault>>

ReadSleeps(c, p) ==
    /\ At(c, p, "rdsleep") /\ PtableFree
    /\ Leave(c, p, [tstate EXCEPT ![p][thidx[p]] = "SLEEPING"])
    /\ Goto(p, "read")
    /\ UNCHANGED <<parent, killed, thidx, arg, fresh, fileVars, fault>>

\* The device's interrupt: wakeup(chan).
DeviceWakes ==
    /\ fault = "none" /\ PtableFree
    /\ \E p \in Proc, i \in Thread : pc[p][i] = "read" /\ tstate[p][i] = "SLEEPING"
    /\ tstate' = wakeup1(tstate, {t \in Proc \X Thread : pc[t[1]][t[2]] = "read"})
    /\ UNCHANGED <<procVars, thidx, pc, arg, fresh, fileVars, running, ptlock, fault>>

\* A file system call between begin_op and end_op.
begin_op(c, p) ==
    /\ Calling(c, p, "op") /\ outstanding < MaxOps
    /\ outstanding' = outstanding + 1
    /\ Goto(p, "op")
    /\ UNCHANGED <<procVars, thidx, tstate, arg, fresh, ofile, ref, running, ptlock, fault>>

end_op(c, p) ==
    /\ At(c, p, "op")
    /\ outstanding' = outstanding - 1
    /\ Goto(p, "user")
    /\ UNCHANGED <<procVars, thidx, tstate, arg, fresh, ofile, ref, running, ptlock, fault>>

-----------------------------------------------------------------------------
(* thread_create, thread_exit, thread_join.                                *)

thread_create(c, p) ==
    /\ Calling(c, p, "create") /\ PtableFree /\ UnusedThreads(p) # {}
    /\ LET j == First(UnusedThreads(p)) IN
       /\ tstate' = [tstate EXCEPT ![p][j] = "RUNNABLE"]
       /\ pc' = [pc EXCEPT ![p][j] = "user", ![p][thidx[p]] = "user"]
    /\ UNCHANGED <<procVars, thidx, arg, fresh, fileVars, running, ptlock, fault>>

\* The three failures return -1 without releasing ptable.lock: no slot; no
\* kernel stack; no user stack, which leaves the slot EMBRYO.
CreateFails(c, p) ==
    /\ Calling(c, p, "create") /\ PtableFree
    /\ \/ UnusedThreads(p) = {} /\ UNCHANGED tstate
       \/ NoMemory /\ UnusedThreads(p) # {} /\ UNCHANGED tstate
       \/ /\ NoMemory /\ UnusedThreads(p) # {}
          /\ tstate' = [tstate EXCEPT ![p][First(UnusedThreads(p))] = "EMBRYO"]
    /\ ptlock' = c
    /\ Goto(p, "user")
    /\ UNCHANGED <<procVars, thidx, arg, fresh, fileVars, running, fault>>

JoinersWoken_None(p, i, ts) == ts

\* wakeup1(curth)
JoinersWoken(p, i, ts) ==
    wakeup1(ts, {p} \X {k \in Thread : Joining(p, k, i)})

\* The thread is a ZOMBIE, unless it is the only one: then it goes on, to
\* exit() when it is next scheduled.
thread_exit(c, p) ==
    /\ Calling(c, p, "texit") /\ PtableFree
    /\ LET i == thidx[p]
           ended == [tstate EXCEPT ![p][i] = "ZOMBIE"]
           only == countth(p, ended) = 0
       IN  /\ killed' = [killed EXCEPT ![p] = @ \/ only]
           /\ Leave(c, p, JoinersWoken(p, i,
                  IF only THEN [tstate EXCEPT ![p][i] = "RUNNABLE"] ELSE ended))
    /\ Goto(p, "texit")
    /\ UNCHANGED <<parent, thidx, arg, fresh, fileVars, fault>>

\* sched() returned to the only thread: thread_exit returns, ptable.lock in
\* hand, and trap() sees p->killed.
OnlyThreadReturns(c, p) ==
    /\ At(c, p, "texit") /\ ptlock = c
    /\ Goto(p, "exit")
    /\ UNCHANGED <<procVars, thidx, tstate, arg, fresh, fileVars, running, ptlock, fault>>

\* In thread_join(tid of thread j) with ptable.lock: just called, when j is
\* in use, or back from sleep().
JoinTargets(c, p) ==
    {j \in Thread :
        \/ Calling(c, p, "join") /\ PtableFree /\ tstate[p][j] # "UNUSED"
        \/ At(c, p, "join") /\ ptlock = c /\ arg[p][thidx[p]] = j}

\* The tid is not found.
JoinNoThread(c, p) ==
    /\ Calling(c, p, "join") /\ PtableFree
    /\ Goto(p, "user")
    /\ UNCHANGED <<procVars, thidx, tstate, arg, fresh, fileVars, running, ptlock, fault>>

JoinReaps(c, p) ==
    \E j \in JoinTargets(c, p) :
      /\ tstate[p][j] = "ZOMBIE"
      /\ tstate' = [tstate EXCEPT ![p][j] = "UNUSED"]
      /\ pc' = [pc EXCEPT ![p][j] = "user", ![p][thidx[p]] = "user"]
      /\ arg' = [arg EXCEPT ![p][thidx[p]] = 0]
      /\ fresh' = [fresh EXCEPT ![p] = [k \in Thread |->
                      IF k = thidx[p] THEN TRUE ELSE @[k] /\ ~Joining(p, k, j)]]
      /\ ptlock' = NoCpu
      /\ UNCHANGED <<procVars, thidx, fileVars, running, fault>>

JoinKilled(c, p) ==
    \E j \in JoinTargets(c, p) :
      /\ tstate[p][j] # "ZOMBIE" /\ killed[p]
      /\ Goto(p, "user")
      /\ arg' = [arg EXCEPT ![p][thidx[p]] = 0]
      /\ fresh' = [fresh EXCEPT ![p][thidx[p]] = TRUE]
      /\ ptlock' = NoCpu
      /\ UNCHANGED <<procVars, thidx, tstate, fileVars, running, fault>>

JoinSleeps(c, p) ==
    \E j \in JoinTargets(c, p) :
      /\ tstate[p][j] # "ZOMBIE" /\ ~killed[p]
      /\ Leave(c, p, [tstate EXCEPT ![p][thidx[p]] = "SLEEPING"])
      /\ Goto(p, "join")
      /\ arg' = [arg EXCEPT ![p][thidx[p]] = j]
      /\ UNCHANGED <<parent, killed, thidx, fresh, fileVars, fault>>

-----------------------------------------------------------------------------
(* exec(): frees the other threads one by one, without ptable.lock, before *)
(* it looks the file up; success and failure both go back to user mode.    *)

sys_exec(c, p) ==
    /\ Calling(c, p, "exec")
    /\ Goto(p, "exec")
    /\ arg' = [arg EXCEPT ![p][thidx[p]] = 0]
    /\ UNCHANGED <<procVars, thidx, tstate, fresh, fileVars, running, ptlock, fault>>

ExecFrees(c, p) ==
    LET i == thidx[p]
        j == arg[p][i]
    IN  /\ At(c, p, "exec") /\ j < NTHREAD
        /\ tstate' = IF j = i THEN tstate ELSE [tstate EXCEPT ![p][j] = "UNUSED"]
        /\ pc' = IF j = i THEN pc ELSE [pc EXCEPT ![p][j] = "user"]
        /\ fresh' = IF j = i THEN fresh ELSE [fresh EXCEPT ![p][j] = TRUE]
        /\ arg' = [arg EXCEPT ![p][j] = 0, ![p][i] = j + 1]
        /\ UNCHANGED <<procVars, thidx, fileVars, running, ptlock, fault>>

ExecReturns(c, p) ==
    /\ At(c, p, "exec") /\ arg[p][thidx[p]] = NTHREAD
    /\ Goto(p, "user")
    /\ arg' = [arg EXCEPT ![p][thidx[p]] = 0]
    /\ UNCHANGED <<procVars, thidx, tstate, fresh, fileVars, running, ptlock, fault>>

-----------------------------------------------------------------------------
\* A step of the kernel for the thread that process p runs on CPU c.
KernelStep(c, p) ==
    \/ KilledExit(c, p) \/ acquire_Again(c, p)
    \/ allocproc(c, p) \/ ForkNoSlot(c, p) \/ ForkNoMemory(c, p)
    \/ ForkCopy(c, p) \/ ForkDone(c, p)
    \/ sys_exit(c, p) \/ InitExiting(c, p) \/ ExitCloses(c, p) \/ ExitClears(c, p)
    \/ ExitZombie(c, p)
    \/ WaitReaps(c, p) \/ WaitReturns(c, p) \/ WaitSleeps(c, p)
    \/ (\E q \in Proc : kill(c, p, q))
    \/ ReadReturns(c, p) \/ ReadWaits(c, p) \/ ReadSleeps(c, p)
    \/ begin_op(c, p) \/ end_op(c, p)
    \/ thread_create(c, p) \/ CreateFails(c, p)
    \/ thread_exit(c, p) \/ OnlyThreadReturns(c, p)
    \/ JoinNoThread(c, p) \/ JoinReaps(c, p) \/ JoinKilled(c, p) \/ JoinSleeps(c, p)
    \/ sys_exec(c, p) \/ ExecFrees(c, p) \/ ExecReturns(c, p)

Next ==
    \/ \E c \in Cpu, p \in Proc :
         scheduler(c, p) \/ yield(c, p) \/ SyscallEntry(c, p) \/ KernelStep(c, p)
    \/ DeviceWakes

Spec == Init /\ [][Next]_vars

\* The scheduler's loop visits every process of the table in turn, so one
\* that stays RUNNABLE is reached; the timer keeps ticking; and between two
\* ticks the kernel code of the thread that runs goes on, so a thread that
\* runs again and again finishes its call.  Devices and programs promise
\* nothing.
LiveSpec ==
    /\ Spec
    /\ \A p \in Proc : SF_vars(\E c \in Cpu : scheduler(c, p))
    /\ \A c \in Cpu : WF_vars(\E p \in Proc : yield(c, p))
    /\ \A p \in Proc, i \in Thread :
         SF_vars(\E c \in Cpu : thidx[p] = i /\ KernelStep(c, p))

-----------------------------------------------------------------------------
(* Properties.                                                             *)

\* A CPU runs a process exactly when the table says RUNNING, no process is
\* on two CPUs, and the thread it runs is the only one of the process that
\* is RUNNING: the threads of a process never use its page table at once.
OneThreadPerProcess ==
    /\ \A c, d \in Cpu : running[c] = running[d] /\ running[c] # NoProc => c = d
    /\ \A p \in Proc :
         /\ pstate[p] = "RUNNING" <=> \E c \in Cpu : running[c] = p
         /\ pstate[p] = "RUNNING" => tstate[p][thidx[p]] = "RUNNING"
         /\ pstate[p] \in {"RUNNABLE", "RUNNING"} =>
              \A i \in Thread : tstate[p][i] = "RUNNING" =>
                                 pstate[p] = "RUNNING" /\ i = thidx[p]

\* thread_exit wakes the joiner: nobody sleeps in thread_join for a thread
\* that has ended and that nobody else reaped.
NoLostJoin ==
    \A p \in Proc, i, j \in Thread :
        /\ pstate[p] \in {"RUNNABLE", "RUNNING"}
        /\ tstate[p][i] = "SLEEPING" /\ Joining(p, i, j) /\ fresh[p][i]
        => tstate[p][j] # "ZOMBIE"

\* exit wakes every thread of the parent that waits, and init's when it
\* inherits a ZOMBIE: nobody sleeps in wait() with a ZOMBIE child.
NoLostChildWakeup ==
    \A p \in Proc, i \in Thread :
        /\ pstate[p] \in {"RUNNABLE", "RUNNING"}
        /\ tstate[p][i] = "SLEEPING" /\ InWait(p, i)
        => Zombies(p) = {}

Ended(p) == pstate[p] \in {"ZOMBIE", "UNUSED"}

\* Round robin among the threads: one that can run does, unless its process
\* ends or the thread is freed by exec.
ThreadsRun ==
    \A p \in Proc, i \in Thread :
        tstate[p][i] = "RUNNABLE" ~>
            fault # "none" \/ Ended(p) \/ tstate[p][i] # "RUNNABLE"

\* kill wakes a thread and none goes back to sleep: a killed process has a
\* thread that will run and exit.  (On one CPU: there a test of p->killed
\* and the sleep after it are not separated.)
KilledCanRun ==
    \A p \in Proc : killed[p] /\ pstate[p] = "RUNNABLE" => existrunnable(p)

----------------------------------------------------------------------------
(* What the repository says of the program and the code does not do (the   *)
(* README lists where).  No passing run checks these.                      *)

\* thread_exit of the only thread kills the process: while a process is in
\* the table and not a ZOMBIE it has a thread that runs or can run again.
SomeThreadAlive ==
    \A p \in Proc : pstate[p] \in {"RUNNABLE", "RUNNING"} =>
        \E i \in Thread : tstate[p][i] \in {"RUNNABLE", "RUNNING", "SLEEPING"}

\* Every acquire of ptable.lock is released before the next on that CPU.
NoDoubleAcquire == fault # "acquire"

\* thread_join waits only for the thread it was asked for.
JoinWaitsForTarget ==
    \A p \in Proc, i, j \in Thread :
        /\ pstate[p] \in {"RUNNABLE", "RUNNING"}
        /\ tstate[p][i] = "SLEEPING" /\ Joining(p, i, j)
        => fresh[p][i]

\* The reference count of an open file counts the table entries that point
\* to it, up to a close under way.
Closing(p) == \E i \in Thread : pc[p][i] = "exitclr" /\ tstate[p][i] # "UNUSED"
RefCountsFiles == ref >= Cardinality({p \in Proc : ofile[p] /\ ~Closing(p)})

\* Every file system operation the log counts has a thread that will end it.
OpsHaveThreads ==
    outstanding = Cardinality({t \in Proc \X Thread :
        /\ pstate[t[1]] \in {"RUNNABLE", "RUNNING"} /\ pc[t[1]][t[2]] = "op"
        /\ tstate[t[1]][t[2]] \in {"RUNNABLE", "RUNNING"}})
=============================================================================
