-------------------------------- MODULE Smp --------------------------------
(***************************************************************************)
(* Spin locks, interrupts and the context switch of project 3: the plain   *)
(* proc.c, trap.c, sysproc.c and spinlock.c of src/project3_filesystem.    *)
(*                                                                         *)
(* Where Mlfq and Lwp take a critical section under ptable.lock as a step, *)
(* this module goes below it. A CPU executes one kernel thread at a time,  *)
(* its own scheduler or the process in cpu->proc; a thread is the sequence *)
(* of the operations it still has to execute, so that a lock may be taken  *)
(* by one thread and released by another after swtch(), and an interrupt   *)
(* may push its handler on top of any thread that runs with IF set.        *)
(*                                                                         *)
(* File and memory work of fork() and exit() is left out (Inode, Pipe,     *)
(* Vm).                                                                    *)
(***************************************************************************)
EXTENDS Integers, Sequences, FiniteSets, SequencesExt

CONSTANTS NPROC,       \* slots of the process table; slot 1 is initproc
          NCPU,        \* processors
          SysCalls,    \* what user code does: "fork", "wait", "uptime",
                       \* "sleep", "kill", "exit", "fault"
          SleepArgs,   \* arguments of sys_sleep
          W,           \* ticks counts modulo W (2^32 in the code)
          Interrupts   \* the interrupts that arrive: "timer", "device"

SmpAssumption ==
  /\ NPROC \in Nat \ {0} /\ NCPU \in Nat \ {0} /\ W \in Nat \ {0}
  /\ SleepArgs \subseteq Nat /\ Interrupts \subseteq {"timer", "device"}

VARIABLES cpu,     \* cpu[c]: struct cpu and its IF flag (ie) of processor c
          lock,    \* lock[l]: the processor that holds spin lock l, or 0
          proc,    \* ptable.proc
          code,    \* code[x]: what kernel thread x still has to execute
          ticks,
          panic    \* "" or the message of the panic that stopped the machine

vars == <<cpu, lock, proc, code, ticks, panic>>

None == 0
Procs == 1 .. NPROC
CPUs == NPROC + 1 .. NPROC + NCPU      \* also the names of the schedulers
BootCPU == NPROC + 1                   \* cpuid() == 0
Locks == {"ptable", "ticks"}
Ticks == -1                            \* the sleep channel &ticks
Device == -2                           \* the channel a device interrupt wakes
States == {"UNUSED", "EMBRYO", "SLEEPING", "RUNNABLE", "RUNNING", "ZOMBIE"}

-----------------------------------------------------------------------------
(* The kernel's code, as sequences of operations *)

Acquire(l) == <<"acquire", l>>
Release(l) == <<"release", l>>

wakeup(chan) == << Acquire("ptable"), <<"wakeup1", chan>>, Release("ptable") >>

yield == << Acquire("ptable"), <<"runnable">>, <<"sched">>, Release("ptable") >>

exit == << Acquire("ptable"), <<"exit">>, <<"sched">> >>

\* sleep(chan, lk): ptable.lock is taken before lk is released.
Sleep_Unlocked(chan, lk) ==
  IF lk = "ptable"
  THEN << <<"sleep", chan>>, <<"sched">>, <<"tidy">> >>
  ELSE << Release(lk), Acquire("ptable"), <<"sleep", chan>>, <<"sched">>,
          <<"tidy">>, Release("ptable"), Acquire(lk) >>

Sleep(chan, lk) ==
  IF lk = "ptable"
  THEN << <<"sleep", chan>>, <<"sched">>, <<"tidy">> >>
  ELSE << Acquire("ptable"), Release(lk), <<"sleep", chan>>, <<"sched">>,
          <<"tidy">>, Release("ptable"), Acquire(lk) >>

wait == << Acquire("ptable"), <<"waitscan">> >>

fork == << Acquire("ptable"), <<"allocproc">> >>

kill(p) == << Acquire("ptable"), <<"kill", p>>, Release("ptable") >>

sys_sleep(n) == << Acquire("ticks"), <<"ticks0", n>>, <<"sleeploop">> >>

sys_uptime == << Acquire("ticks"), Release("ticks") >>

\* The scheduler's loop body, from its sti() on.
Round == << <<"sti">>, Acquire("ptable"), <<"scan", 1>> >>

\* forkret() releases the lock the scheduler took, trapret leaves the kernel.
forkret == << Release("ptable"), <<"iret">> >>

\* trap() for an interrupt; user says whether user code was interrupted.
Handler(c, kind, user) ==
  (CASE kind = "timer" /\ c = BootCPU ->
          <<Acquire("ticks"), <<"tick">>>> \o wakeup(Ticks) \o <<Release("ticks")>>
     [] kind = "timer" /\ c # BootCPU -> <<>>
     [] OTHER -> wakeup(Device))
  \o << <<"killcheck", user>>, <<"preempt", kind>>, <<"killcheck", user>>, <<"iret">> >>

-----------------------------------------------------------------------------
(* Processors and the threads they execute *)

FreeProc == [st |-> "UNUSED", chan |-> None, killed |-> FALSE, parent |-> None,
             n |-> 0, t0 |-> 0]

Init ==
  /\ cpu = [c \in CPUs |-> [proc |-> None, ncli |-> 0, intena |-> FALSE, ie |-> FALSE]]
  /\ lock = [l \in Locks |-> None]
  /\ proc = [p \in Procs |-> IF p = 1 THEN [FreeProc EXCEPT !.st = "RUNNABLE"]
                                      ELSE FreeProc]
  /\ code = [x \in Procs \cup CPUs |->
               IF x \in CPUs THEN Round ELSE IF x = 1 THEN forkret ELSE <<>>]
  /\ ticks = 0
  /\ panic = ""

\* The kernel thread processor c executes, and its next operation.
Thread(c) == IF cpu[c].proc = None THEN c ELSE cpu[c].proc
Executes(c, op) == /\ panic = ""
                   /\ code[Thread(c)] # <<>>
                   /\ Head(code[Thread(c)])[1] = op
Arg(c) == Head(code[Thread(c)])[2]

\* The thread of c has executed its operation and goes on with ops.
GoesOn(c, ops) == code' = [code EXCEPT ![Thread(c)] = ops \o Tail(@)]

Panic(msg) == panic' = msg /\ UNCHANGED <<cpu, lock, proc, code, ticks>>

pushcli(k) == [k EXCEPT !.intena = IF k.ncli = 0 THEN k.ie ELSE k.intena,
                        !.ncli = @ + 1, !.ie = FALSE]
popcli(k) == [k EXCEPT !.ncli = @ - 1, !.ie = (k.ncli = 1 /\ k.intena)]

Holding(c, l) == lock[l] = c

\* acquire(): interrupts go off, then the lock is taken or the processor spins.
acquire(c) ==
  /\ Executes(c, "acquire")
  /\ \/ Holding(c, Arg(c)) /\ Panic("acquire")
     \/ /\ lock[Arg(c)] # c
        /\ cpu' = [cpu EXCEPT ![c] = pushcli(@)]
        /\ IF lock[Arg(c)] = None
           THEN lock' = [lock EXCEPT ![Arg(c)] = c] /\ GoesOn(c, <<>>)
           ELSE GoesOn(c, << <<"xchg", Arg(c)>> >>) /\ UNCHANGED lock
        /\ UNCHANGED <<proc, ticks, panic>>

xchg(c) ==
  /\ Executes(c, "xchg")
  /\ lock[Arg(c)] = None
  /\ lock' = [lock EXCEPT ![Arg(c)] = c]
  /\ GoesOn(c, <<>>)
  /\ UNCHANGED <<cpu, proc, ticks, panic>>

\* The check release() or popcli() fails, if one does.
ReleasePanic(c, l) == IF ~Holding(c, l) THEN "release"
                      ELSE IF cpu[c].ie THEN "popcli - interruptible"
                      ELSE IF cpu[c].ncli = 0 THEN "popcli" ELSE ""

release(c) ==
  /\ Executes(c, "release")
  /\ \/ /\ ReleasePanic(c, Arg(c)) # ""
        /\ Panic(ReleasePanic(c, Arg(c)))
     \/ /\ ReleasePanic(c, Arg(c)) = ""
        /\ lock' = [lock EXCEPT ![Arg(c)] = None]
        /\ cpu' = [cpu EXCEPT ![c] = popcli(@)]
        /\ GoesOn(c, <<>>)
        /\ UNCHANGED <<proc, ticks, panic>>

-----------------------------------------------------------------------------
(* The context switch *)

\* scheduler(): the next RUNNABLE process at or after slot i gets the
\* processor, and with it ptable.lock and the processor's ncli.
scan(c) ==
  /\ Executes(c, "scan")
  /\ LET ready == { p \in Procs : p >= Arg(c) /\ proc[p].st = "RUNNABLE" }
         p == CHOOSE q \in ready : \A r \in ready : q <= r
     IN IF ready = {}
        THEN GoesOn(c, << Release("ptable") >> \o Round) /\ UNCHANGED <<cpu, proc>>
        ELSE /\ GoesOn(c, << <<"scan", p + 1>> >>)
             /\ cpu' = [cpu EXCEPT ![c].proc = p]
             /\ proc' = [proc EXCEPT ![p].st = "RUNNING"]
  /\ UNCHANGED <<lock, ticks, panic>>

sti(c) ==
  /\ Executes(c, "sti")
  /\ cpu' = [cpu EXCEPT ![c].ie = TRUE]
  /\ GoesOn(c, <<>>)
  /\ UNCHANGED <<lock, proc, ticks, panic>>

\* What a thread does first when the scheduler switches back to it: sched()
\* puts the thread's own intena into the processor it now runs on.
AfterSwitch_Nothing(c) == <<>>
AfterSwitch(c) == << <<"intena", cpu[c].intena>> >>

SchedPanic(c) == IF ~Holding(c, "ptable") THEN "sched ptable.lock"
                 ELSE IF cpu[c].ncli # 1 THEN "sched locks"
                 ELSE IF proc[Thread(c)].st = "RUNNING" THEN "sched running"
                 ELSE IF cpu[c].ie THEN "sched interruptible" ELSE ""

\* sched(): back to the scheduler of this processor, which then clears
\* cpu->proc; nobody can look at it before (interrupts off, lock held).
sched(c) ==
  /\ Executes(c, "sched")
  /\ \/ SchedPanic(c) # "" /\ Panic(SchedPanic(c))
     \/ /\ SchedPanic(c) = ""
        /\ GoesOn(c, AfterSwitch(c))
        /\ cpu' = [cpu EXCEPT ![c].proc = None]
        /\ UNCHANGED <<lock, proc, ticks, panic>>

intena(c) ==
  /\ Executes(c, "intena")
  /\ cpu' = [cpu EXCEPT ![c].intena = Arg(c)]
  /\ GoesOn(c, <<>>)
  /\ UNCHANGED <<lock, proc, ticks, panic>>

-----------------------------------------------------------------------------
(* What the threads do between taking and releasing locks *)

\* An operation of process Thread(c) that touches only the table.
Locally(c, op, newproc, ops) ==
  /\ Executes(c, op)
  /\ proc' = newproc
  /\ GoesOn(c, ops)
  /\ UNCHANGED <<cpu, lock, ticks, panic>>

Woken(chan) == { p \in Procs : proc[p].st = "SLEEPING" /\ proc[p].chan = chan }
Wake(t, ps) == [p \in Procs |-> IF p \in ps THEN [t[p] EXCEPT !.st = "RUNNABLE"] ELSE t[p]]

wakeup1(c) == Executes(c, "wakeup1") /\ Locally(c, "wakeup1", Wake(proc, Woken(Arg(c))), <<>>)

runnable(c) == Locally(c, "runnable", [proc EXCEPT ![Thread(c)].st = "RUNNABLE"], <<>>)

sleep(c) ==
  /\ Executes(c, "sleep")
  /\ Locally(c, "sleep", [proc EXCEPT ![Thread(c)].chan = Arg(c),
                                      ![Thread(c)].st = "SLEEPING"], <<>>)

tidy(c) == Locally(c, "tidy", [proc EXCEPT ![Thread(c)].chan = None], <<>>)

\* exit(): the parent is woken and the children go to initproc.
Orphans(p) == { q \in Procs : proc[q].parent = p }
ExitWakes(p) ==
  Woken(proc[p].parent) \cup
  (IF \E q \in Orphans(p) : proc[q].st = "ZOMBIE" THEN Woken(1) ELSE {})
exitstep(c) ==
  LET p == Thread(c)
      adopted == [q \in Procs |-> IF q \in Orphans(p) THEN [proc[q] EXCEPT !.parent = 1]
                                                      ELSE proc[q]]
  IN Locally(c, "exit", [Wake(adopted, ExitWakes(p)) EXCEPT ![p].st = "ZOMBIE"], <<>>)

\* wait(): one pass over the table, under ptable.lock.
waitscan(c) ==
  LET p == Thread(c)
      kids == { q \in Procs : proc[q].parent = p }
      dead == { q \in kids : proc[q].st = "ZOMBIE" }
      first == CHOOSE q \in dead : \A r \in dead : q <= r
  IN IF dead # {}
     THEN Locally(c, "waitscan", [proc EXCEPT ![first] = FreeProc],
                  << Release("ptable") >>)
     ELSE Locally(c, "waitscan", proc,
                  IF kids = {} \/ proc[p].killed THEN << Release("ptable") >>
                  ELSE Sleep(p, "ptable") \o << <<"waitscan">> >>)

\* fork(): allocproc's scan, the allocations that may fail, and the rest.
allocproc(c) ==
  LET free == { q \in Procs : proc[q].st = "UNUSED" }
      np == CHOOSE q \in free : \A r \in free : q <= r
  IN IF free = {}
     THEN Locally(c, "allocproc", proc, << Release("ptable") >>)
     ELSE Locally(c, "allocproc", [proc EXCEPT ![np].st = "EMBRYO"],
                  << Release("ptable"), <<"copy", np>> >>)

\* kalloc() or copyuvm() fails: the slot is given back without the lock.
forkfails(c) ==
  /\ Executes(c, "copy")
  /\ Locally(c, "copy", [proc EXCEPT ![Arg(c)].st = "UNUSED"], <<>>)

forkcopies(c) ==
  /\ Executes(c, "copy")
  /\ proc' = [proc EXCEPT ![Arg(c)].parent = Thread(c)]
  /\ code' = [code EXCEPT ![Thread(c)] =
                << Acquire("ptable"), <<"start", Arg(c)>>, Release("ptable") >> \o Tail(@),
                          ![Arg(c)] = forkret]
  /\ UNCHANGED <<cpu, lock, ticks, panic>>

start(c) ==
  /\ Executes(c, "start")
  /\ Locally(c, "start", [proc EXCEPT ![Arg(c)].st = "RUNNABLE"], <<>>)

\* kill() looks at the pid only: it also marks a free slot, which keeps the pid
\* of a fork that failed, or has pid 0.
killstep(c) ==
  /\ Executes(c, "kill")
  /\ LET q == Arg(c)
     IN Locally(c, "kill",
                [proc EXCEPT ![q].killed = TRUE,
                             ![q].st = IF @ = "SLEEPING" THEN "RUNNABLE" ELSE @], <<>>)

\* sys_sleep(): ticks - ticks0 < n, in unsigned arithmetic.
Elapsed(p) == (ticks - proc[p].t0) % W
ticks0(c) ==
  /\ Executes(c, "ticks0")
  /\ Locally(c, "ticks0", [proc EXCEPT ![Thread(c)].t0 = ticks,
                                       ![Thread(c)].n = Arg(c)], <<>>)

sleeploop(c) ==
  LET p == Thread(c)
  IN /\ Executes(c, "sleeploop")
     /\ IF Elapsed(p) >= proc[p].n \/ proc[p].killed
        THEN Locally(c, "sleeploop", [proc EXCEPT ![p].t0 = 0, ![p].n = 0],
                     << Release("ticks") >>)
        ELSE Locally(c, "sleeploop", proc, Sleep(Ticks, "ticks") \o << <<"sleeploop">> >>)

tick(c) ==
  /\ Executes(c, "tick")
  /\ ticks' = (ticks + 1) % W
  /\ GoesOn(c, <<>>)
  /\ UNCHANGED <<cpu, lock, proc, panic>>

-----------------------------------------------------------------------------
(* Traps *)

InUser(c) == cpu[c].proc # None /\ code[Thread(c)] = <<>> /\ panic = ""

\* The thread of c never returns from exit().
Ends(c) ==
  IF Thread(c) = 1 THEN Panic("init exiting")
  ELSE /\ code' = [code EXCEPT ![Thread(c)] = exit]
       /\ UNCHANGED <<cpu, lock, proc, ticks, panic>>

Killed(c) == cpu[c].proc # None /\ proc[Thread(c)].killed

\* The bodies of the system calls; a call starts through a trap gate, so that
\* IF stays set.
Body(call) ==
  CASE call = "fork" -> {fork}
    [] call = "wait" -> {wait}
    [] call = "uptime" -> {sys_uptime}
    [] call = "sleep" -> { sys_sleep(n) : n \in SleepArgs }
    [] call = "kill" -> { kill(q) : q \in Procs \ {1} }
    [] OTHER -> {}

syscall(c) ==
  /\ InUser(c)
  /\ ~Killed(c)
  /\ \E call \in SysCalls : \E s \in Body(call) :
        code' = [code EXCEPT ![Thread(c)] = s \o << <<"sysret">> >>]
  /\ UNCHANGED <<cpu, lock, proc, ticks, panic>>

\* A killed process that enters the kernel, or a call of exit(); the init
\* program makes none and nobody kills it.
sys_exit(c) ==
  /\ InUser(c)
  /\ Killed(c) \/ ("exit" \in SysCalls /\ Thread(c) # 1)
  /\ Ends(c)

sysret(c) ==
  /\ Executes(c, "sysret")
  /\ IF Killed(c) THEN Ends(c)
     ELSE GoesOn(c, <<>>) /\ UNCHANGED <<cpu, lock, proc, ticks, panic>>

\* An interrupt arrives on a processor with IF set: an interrupt gate clears it.
interrupt(c) ==
  /\ panic = "" /\ cpu[c].ie
  /\ \E kind \in Interrupts :
        code' = [code EXCEPT ![Thread(c)] = Handler(c, kind, InUser(c)) \o @]
  /\ cpu' = [cpu EXCEPT ![c].ie = FALSE]
  /\ UNCHANGED <<lock, proc, ticks, panic>>

\* A fault in user code kills the process.
fault(c) ==
  /\ InUser(c) /\ Thread(c) # 1 /\ "fault" \in SysCalls
  /\ proc' = [proc EXCEPT ![Thread(c)].killed = TRUE]
  /\ cpu' = [cpu EXCEPT ![c].ie = FALSE]
  /\ code' = [code EXCEPT ![Thread(c)] = << <<"killcheck", TRUE>> >>]
  /\ UNCHANGED <<lock, ticks, panic>>

killcheck(c) ==
  /\ Executes(c, "killcheck")
  /\ IF Killed(c) /\ Arg(c) THEN Ends(c)
     ELSE GoesOn(c, <<>>) /\ UNCHANGED <<cpu, lock, proc, ticks, panic>>

preempt(c) ==
  /\ Executes(c, "preempt")
  /\ GoesOn(c, IF /\ cpu[c].proc # None
                  /\ proc[Thread(c)].st = "RUNNING" /\ Arg(c) = "timer"
               THEN yield ELSE <<>>)
  /\ UNCHANGED <<cpu, lock, proc, ticks, panic>>

\* iret restores the flags of the interrupted code, which had IF set.
iret(c) ==
  /\ Executes(c, "iret")
  /\ cpu' = [cpu EXCEPT ![c].ie = TRUE]
  /\ GoesOn(c, <<>>)
  /\ UNCHANGED <<lock, proc, ticks, panic>>

Step(c) ==
  \/ acquire(c) \/ xchg(c) \/ release(c) \/ scan(c) \/ sti(c) \/ sched(c) \/ intena(c)
  \/ wakeup1(c) \/ runnable(c) \/ sleep(c) \/ tidy(c) \/ exitstep(c) \/ waitscan(c)
  \/ allocproc(c) \/ forkfails(c) \/ forkcopies(c) \/ start(c) \/ killstep(c)
  \/ ticks0(c) \/ sleeploop(c) \/ tick(c) \/ syscall(c) \/ sys_exit(c) \/ sysret(c)
  \/ interrupt(c) \/ fault(c) \/ killcheck(c) \/ preempt(c) \/ iret(c)

Next == \E c \in CPUs : Step(c)
Spec == Init /\ [][Next]_vars

-----------------------------------------------------------------------------
(* Properties *)

\* The variables have their types.
TypeOK ==
  /\ cpu \in [CPUs -> [proc : Procs \cup {None}, ncli : 0 .. 3,
                       intena : BOOLEAN, ie : BOOLEAN]]
  /\ lock \in [Locks -> CPUs \cup {None}]
  /\ \A p \in Procs : /\ proc[p].st \in States
                       /\ proc[p].chan \in Procs \cup {None, Ticks}
                       /\ proc[p].parent \in Procs \cup {None}
  /\ ticks \in 0 .. W - 1

Runs(c, op) == \E i \in DOMAIN code[Thread(c)] : code[Thread(c)][i][1] = op

\* No order of system calls, interrupts and context switches makes one of the
\* checks of acquire(), release(), popcli(), sched() or exit() panic, although
\* ptable.lock is taken by one thread and released by another; and a process
\* never runs on two processors.
LocksDisciplined ==
  /\ panic = ""
  /\ \A c, d \in CPUs : c # d /\ cpu[c].proc # None => cpu[c].proc # cpu[d].proc
  /\ \A c \in CPUs : cpu[c].proc # None /\ lock["ptable"] # c
                       => proc[cpu[c].proc].st = "RUNNING"

\* Interrupts are on or off as the thread that runs needs it, however often it
\* moved between processors: off in a handler, on in user code and in a system
\* call that holds no lock.
InterruptsRestored ==
  \A c \in CPUs :
    cpu[c].ncli = 0 /\ panic = "" =>
      /\ Runs(c, "killcheck") => ~cpu[c].ie
      /\ Runs(c, "sysret") /\ ~Runs(c, "killcheck") /\ ~Runs(c, "iret") => cpu[c].ie
      /\ InUser(c) => cpu[c].ie

\* A process whose time is up, or whose child has exited, does not stay asleep
\* unless the wakeup is still on its way in the timer interrupt.
NoLostWakeup ==
  \A p \in Procs : proc[p].st = "SLEEPING" =>
    /\ proc[p].chan = Ticks /\ Elapsed(p) >= proc[p].n =>
         \E x \in Procs \cup CPUs : \E i \in DOMAIN code[x] : code[x][i] = <<"wakeup1", Ticks>>
    /\ proc[p].chan = p =>
         /\ ~proc[p].killed
         /\ \A q \in Procs : proc[q].parent = p => proc[q].st # "ZOMBIE"
=============================================================================
