----------------------------- MODULE SmpProofs ------------------------------
(***************************************************************************)
(* Theorems about the spin locks, the interrupts and the context switch of *)
(* project 3, for every number of processors and of processes: no check of *)
(* acquire(), release(), sched() or exit() fails, interrupts are on and    *)
(* off where they should be, and no wakeup is lost.                        *)
(*                                                                         *)
(* A kernel thread is the sequence of operations it still has to execute.  *)
(* The invariant is a type system for these sequences: the mode of a       *)
(* thread says which locks it has, whether interrupts are on once it has   *)
(* none, and what it still owes; each operation needs some mode and leads  *)
(* to another, and the code of every thread that can run leads from its    *)
(* present mode back to user code.                                         *)
(***************************************************************************)
EXTENDS Smp, SequenceTheorems, WellFoundedInduction, TLAPS

(* The kernel threads: the processes and the schedulers.                   *)
Threads == Procs \cup CPUs

(* What a thread is in the middle of: whose code it is (a scheduler, a     *)
(* process before its first return to user code, one in or under a system  *)
(* call, one that a fault has killed), whether it is in an interrupt       *)
(* handler, the child it has to copy or to start, whether it has advanced  *)
(* ticks and not yet woken the sleepers, what it has decided to sleep for. *)
NoChild == <<"none", 0>>
Frames == [base : {"sched", "fresh", "kernel", "doomed"}, h : BOOLEAN,
           child : {NoChild} \cup ({"copy", "start"} \X Procs), due : BOOLEAN,
           nap : {"no", "ticks", "wait"}]
Frame(base) == [base |-> base, h |-> FALSE, child |-> NoChild, due |-> FALSE, nap |-> "no"]

(* A mode: the locks of the thread, whether interrupts are on once it has  *)
(* none, the condition of its process (see Condition) and its frame.       *)
At(locks, ints, st, frame) == [locks |-> locks, ints |-> ints, st |-> st, frame |-> frame]

(* Interrupts are off in a handler and on in a system call without locks;  *)
(* wakeups are owed under tickslock, and a thread sleeps under a lock.     *)
Consistent(m) ==
    /\ m.frame.h => ~m.ints
    /\ m.frame.base = "kernel" /\ ~m.frame.h => m.ints
    /\ m.frame.base = "doomed" => m.frame.h
    /\ m.frame.due => "ticks" \in m.locks
    /\ m.frame.nap # "no" => m.locks # {} /\ ~m.frame.due
    /\ m.frame.nap = "wait" => "ptable" \in m.locks
    /\ m.st \in {"off", "dead"} => m.locks = {"ptable"} /\ m.frame.nap = "no"
    /\ m.st = "dead" => m.frame.child = NoChild

(* The operations by what they need: locks they change, ptable.lock alone, *)
(* tickslock alone, no lock, locks of a handler; and by who executes them. *)
LockOps == {"acquire", "xchg", "release"}
TableOps == {"scan", "intena", "sched", "runnable", "sleep", "tidy", "exit", "waitscan",
             "allocproc", "start", "kill"}
TicksOps == {"ticks0", "sleeploop"}
FreeOps == {"sti", "copy", "sysret", "killcheck", "preempt", "iret"}
HandlerOps == {"tick", "wakeup1"}
SchedulerOps == {"scan", "sti"}
SharedOps == LockOps \cup HandlerOps \cup {"killcheck", "preempt", "iret"}

(* An operation is a name, followed by its operand if it has one.          *)
Words == LockOps \cup TableOps \cup TicksOps \cup FreeOps \cup HandlerOps
           \cup Locks \cup {"timer", "device"}
Operands == Words \cup Int \cup BOOLEAN
Ops == Seq(Operands)

(* The locks an operation needs.                                           *)
LocksFor(op, m) ==
    /\ op[1] \in {"acquire", "xchg"} => op[2] \in Locks \ m.locks
    /\ op[1] = "release" => op[2] \in m.locks
    /\ op[1] \in TableOps => m.locks = {"ptable"}
    /\ op[1] \in TicksOps => m.locks = {"ticks"}
    /\ op[1] \in FreeOps => m.locks = {}
    /\ op[1] = "tick" => "ticks" \in m.locks
    /\ op[1] = "wakeup1" => "ptable" \in m.locks
    /\ op[1] = "wakeup1" /\ op[2] = Ticks => "ticks" \in m.locks

(* The operands and the frame an operation needs.                          *)
FrameFor(x, op, f) ==
    /\ op[1] \in SchedulerOps => x \in CPUs /\ f = Frame("sched")
    /\ op[1] \notin SchedulerOps \cup SharedOps => x \in Procs /\ f.base # "sched"
    /\ op[1] = "scan" => op[2] \in 1..(NPROC + 1)
    /\ op[1] = "intena" =>
         /\ op[2] \in BOOLEAN /\ f.nap = "no" /\ ~f.due
         /\ (f.h => ~op[2]) /\ (f.base = "kernel" /\ ~f.h => op[2])
    /\ op[1] = "sleep" => \/ op[2] = Ticks /\ f.nap = "ticks"
                          \/ op[2] = x /\ f.nap = "wait"
    /\ op[1] \notin LockOps \cup {"sleep"} => f.nap = "no"
    /\ op[1] = "exit" => x # 1 /\ f.child = NoChild
    /\ op[1] = "allocproc" => f.child = NoChild
    /\ op[1] \in {"copy", "start"} => f.child = <<op[1], op[2]>>
    /\ op[1] = "kill" => op[2] \in Procs \ {1}
    /\ op[1] = "ticks0" => op[2] \in SleepArgs
    /\ op[1] = "sysret" => f = Frame("kernel")
    /\ op[1] \in {"killcheck", "preempt"} => f.h
    /\ op[1] = "killcheck" =>
         /\ op[2] \in BOOLEAN
         /\ op[2] => x \in Procs /\ f.child = NoChild
         /\ f.base = "doomed" => op[2]
    /\ op[1] \in {"preempt", "iret"} => f.base # "doomed"
    /\ op[1] = "iret" => f.h \/ f.base = "fresh"
    /\ op[1] = "tick" => ~f.due
    /\ op[1] = "wakeup1" => /\ op \in {<<"wakeup1", Ticks>>, <<"wakeup1", Device>>}
                            /\ (f.due <=> op[2] = Ticks)

(* All that operation op of thread x needs of the mode m.                  *)
Needs(x, op, m) ==
    /\ op[1] \in LockOps \cup TableOps \cup TicksOps \cup FreeOps \cup HandlerOps
    /\ m.st \in (IF op[1] = "sched" THEN {"off", "dead"}
                 ELSE IF op[1] = "xchg" THEN {"spin"} ELSE {"run"})
    /\ op[1] = "intena" \/ Consistent(m)
    /\ LocksFor(op, m)
    /\ FrameFor(x, op, m.frame)

(* What an operation, with all that it puts before the rest, leads to.     *)
LocksAfter(op, locks) ==
    IF op[1] \in {"acquire", "xchg"} THEN locks \cup {op[2]}
    ELSE IF op[1] = "release" THEN locks \ {op[2]}
    ELSE IF op[1] \in {"waitscan", "allocproc", "sleeploop"} THEN {} ELSE locks
IntsAfter(op, ints) ==
    IF op[1] = "intena" THEN op[2] ELSE IF op[1] \in {"sti", "iret"} THEN TRUE ELSE ints
StatusAfter(op, m) ==
    IF op[1] \in {"runnable", "sleep"} THEN "off"
    ELSE IF op[1] = "exit" THEN "dead"
    ELSE IF op[1] = "xchg" THEN "run"
    ELSE IF op[1] = "sched" THEN IF m.st = "dead" THEN "gone" ELSE "run"
    ELSE IF op[1] = "scan" \/ (op[1] = "killcheck" /\ m.frame.base = "doomed") THEN "gone"
    ELSE m.st
FrameAfter(op, f) ==
    IF op[1] = "tick" THEN [f EXCEPT !.due = TRUE]
    ELSE IF op[1] = "wakeup1" THEN [f EXCEPT !.due = FALSE]
    ELSE IF op[1] = "sleep" THEN [f EXCEPT !.nap = "no"]
    ELSE IF op[1] \in {"copy", "start"} THEN [f EXCEPT !.child = NoChild]
    ELSE IF op[1] = "iret" THEN IF f.h THEN [f EXCEPT !.h = FALSE] ELSE [f EXCEPT !.base = "kernel"]
    ELSE f
After(op, m) == At(LocksAfter(op, m.locks), IntsAfter(op, m.ints), StatusAfter(op, m),
                   FrameAfter(op, m.frame))

(* User code, where every system call and handler leads that returns.      *)
UserMode == At({}, TRUE, "run", Frame("kernel"))
Final(m) == m = UserMode \/ m.st = "gone"

(* Operation op leads thread x from mode m to mode m2.                     *)
Leads(x, op, m, m2) == Needs(x, op, m) /\ m2 = After(op, m)

(* The code s of thread x leads from mode m to mode m2, or to its end.     *)
Path(x, s, m, m2) ==
    \E w : /\ w[1] = m /\ w[Len(s) + 1] = m2
           /\ \A i \in 1..Len(s) : Leads(x, s[i], w[i], w[i + 1])
Typed(x, s, m) == \E m2 : Path(x, s, m, m2) /\ Final(m2)

----------------------------------------------------------------------------
(* The invariant.                                                          *)

(* What a mode says, in terms of the variables: the locks of a processor,  *)
(* whether interrupts are on once it has none (popcli() restores intena),  *)
(* and whether its process runs, is about to give the processor up, or is  *)
(* a ZOMBIE; the thread may spin in acquire().                             *)
Held(c) == {l \in Locks : lock[l] = c}
Depth(locks) == (IF "ptable" \in locks THEN 1 ELSE 0) + (IF "ticks" \in locks THEN 1 ELSE 0)
Spinning(s) == s # <<>> /\ Head(s)[1] = "xchg"
Ints(c) == IF cpu[c].ncli = 0 THEN cpu[c].ie ELSE cpu[c].intena
Condition(st) == IF st = "RUNNING" THEN "run" ELSE IF st = "ZOMBIE" THEN "dead"
                 ELSE IF st \in {"SLEEPING", "RUNNABLE"} THEN "off" ELSE "none"
Status(c) == IF cpu[c].proc = None THEN "run" ELSE Condition(proc[cpu[c].proc].st)
Spun(st, s) == IF Spinning(s) /\ st = "run" THEN "spin" ELSE st
OnCpu(p) == \E c \in CPUs : cpu[c].proc = p

(* A processor: its counter counts its locks, the code of the thread it    *)
(* executes is good, and its scheduler stands in its loop.                 *)
CpuGood(c, M) ==
    /\ cpu[c].ncli = Depth(Held(c)) + (IF Spinning(code[Thread(c)]) THEN 1 ELSE 0)
    /\ cpu[c].ie => cpu[c].ncli = 0
    /\ Typed(Thread(c), code[Thread(c)],
             At(Held(c), Ints(c), Spun(Status(c), code[Thread(c)]), M[Thread(c)]))
    /\ M[c].base = "sched"
    /\ cpu[c].proc # None =>
         /\ M[cpu[c].proc].base # "sched"
         /\ M[c] = Frame("sched") /\ \E i \in 1..(NPROC + 1) : code[c] = <<<<"scan", i>>>>

(* A process that no processor executes: it can be resumed on any of them  *)
(* if it is alive.                                                         *)
ProcGood(p, M) ==
    /\ proc[p].st # "RUNNING"
    /\ IF proc[p].st \in {"SLEEPING", "RUNNABLE"}
       THEN /\ \A b \in BOOLEAN : Typed(p, code[p], At({"ptable"}, b, "run", M[p]))
            /\ M[p].base # "sched" /\ ~M[p].due /\ M[p].nap = "no"
       ELSE M[p] = Frame("kernel")

(* All processors and processes, with M[x] the frame of thread x.          *)
Machine(M) ==
    /\ panic = ""
    /\ \A c \in CPUs : CpuGood(c, M)
    /\ \A p \in Procs : ~OnCpu(p) => ProcGood(p, M)
    /\ \A c, d \in CPUs : c # d /\ cpu[c].proc # None => cpu[c].proc # cpu[d].proc

(* A slot that is being filled belongs to one thread.                      *)
Children(M) ==
    /\ \A x \in Threads : M[x].child # NoChild =>
         /\ proc[M[x].child[2]].st = "EMBRYO"
         /\ M[x].child[1] = "start" => code[M[x].child[2]] = forkret
    /\ \A x, y \in Threads : x # y /\ M[x].child # NoChild => M[x].child[2] # M[y].child[2]

(* Code that faulted belongs to a killed process.                          *)
Doomed(M) == \A p \in Procs : M[p].base = "doomed" => proc[p].killed

(* init lives and has no parent, and no process is its own child.          *)
Family ==
    /\ proc[1].st \in {"SLEEPING", "RUNNABLE", "RUNNING"} /\ ~proc[1].killed
    /\ proc[1].parent = None /\ \A p \in Procs : proc[p].parent # p

(* Whoever sleeps, or is about to, waits for what has not happened yet or  *)
(* for a wakeup that is owed.                                              *)
Late(p) == Elapsed(p) >= proc[p].n
Childless(p) == ~proc[p].killed /\ \A q \in Procs : proc[q].parent = p => proc[q].st # "ZOMBIE"
TickSleeper(p, M) == M[p].nap = "ticks" \/ (proc[p].st = "SLEEPING" /\ proc[p].chan = Ticks)
Waiter(p, M) == M[p].nap = "wait" \/ (proc[p].st = "SLEEPING" /\ proc[p].chan = p)
Sleepers(M) ==
    \A p \in Procs : /\ TickSleeper(p, M) /\ Late(p) => \E x \in Threads : M[x].due
                     /\ Waiter(p, M) => Childless(p)

(* Types of the variables and of the frames.                               *)
CpuRecs == [proc : Procs \cup {None}, ncli : 0 .. 3, intena : BOOLEAN, ie : BOOLEAN]
ProcRecs == [st : States, chan : Procs \cup {None, Ticks}, killed : BOOLEAN,
             parent : Procs \cup {None}, n : SleepArgs \cup {0}, t0 : 0 .. W - 1]
Types(M) ==
    /\ cpu \in [CPUs -> CpuRecs]
    /\ lock \in [Locks -> CPUs \cup {None}]
    /\ proc \in [Procs -> ProcRecs]
    /\ code \in [Threads -> Seq(Ops)]
    /\ ticks \in 0 .. W - 1
    /\ M \in [Threads -> Frames]

(* The invariant: there are frames under which all of this holds.          *)
Good(M) == Types(M) /\ Machine(M) /\ Children(M) /\ Doomed(M) /\ Family /\ Sleepers(M)
SmpInv == \E M : Good(M)
----------------------------------------------------------------------------
(* Sequences of operations.                                                *)

(* Code that is good starts with an operation whose needs are met, and the *)
(* rest is good for what that operation leads to.                          *)
LEMMA TypedHead ==
    ASSUME NEW x, NEW s \in Seq(Ops), s # <<>>, NEW m, Typed(x, s, m)
    PROVE  /\ Needs(x, Head(s), m) /\ Typed(x, Tail(s), After(Head(s), m))
           /\ Tail(s) \in Seq(Ops) /\ Head(s) \in Ops
<1>1. PICK m2 : Path(x, s, m, m2) /\ Final(m2)
  BY DEF Typed
<1>2. PICK w : /\ w[1] = m /\ w[Len(s) + 1] = m2
               /\ \A i \in 1..Len(s) : Leads(x, s[i], w[i], w[i + 1])
  BY <1>1 DEF Path
<1>3. PICK n \in Nat : n = Len(s) /\ n # 0
  BY EmptySeq
<1>4. /\ Head(s) = s[1] /\ Head(s) \in Ops /\ Tail(s) \in Seq(Ops) /\ Len(Tail(s)) = n - 1
      /\ \A i \in 1..(n - 1) : Tail(s)[i] = s[i + 1]
  BY <1>3
<1>5. Leads(x, s[1], m, w[2])
  BY <1>2, <1>3
<1>6. PICK v : v = [i \in 1..n |-> w[i + 1]]
  OBVIOUS
<1>7. /\ v[1] = w[2] /\ v[n] = m2
      /\ \A i \in 1..(n - 1) : Leads(x, Tail(s)[i], v[i], v[i + 1])
  <2>1. v[1] = w[2] /\ v[n] = m2
    BY <1>2, <1>3, <1>6
  <2>2. ASSUME NEW i \in 1..(n - 1) PROVE Leads(x, Tail(s)[i], v[i], v[i + 1])
    <3>1. i + 1 \in 1..n /\ i \in 1..n
      OBVIOUS
    <3>2. v[i] = w[i + 1] /\ v[i + 1] = w[(i + 1) + 1]
      BY <1>6, <3>1
    <3> QED
      BY <1>2, <1>3, <1>4, <3>1, <3>2
  <2> QED
    BY <2>1, <2>2
<1>8. Path(x, Tail(s), w[2], m2)
  <2>1. (n - 1) + 1 = n
    BY <1>3
  <2> QED
    BY <1>4, <1>7, <2>1 DEF Path
<1> QED
  BY <1>1, <1>4, <1>5, <1>8 DEF Typed, Leads

(* No operations lead nowhere.                                             *)
LEMMA PathEmpty ==
    ASSUME NEW x, NEW m
    PROVE  <<>> \in Seq(Ops) /\ Path(x, <<>>, m, m)
<1>1. Len(<<>>) = 0 /\ 1..0 = {}
  OBVIOUS
<1>2. PICK w : w = [i \in {1} |-> m]
  OBVIOUS
<1>3. w[1] = m /\ w[Len(<<>>) + 1] = m
  BY <1>1, <1>2
<1> QED
  BY <1>1, <1>3 DEF Path

(* The empty sequence is user code.                                        *)
LEMMA TypedEmpty ==
    ASSUME NEW x, NEW m
    PROVE  Typed(x, <<>>, m) <=> Final(m)
<1>1. Len(<<>>) = 0 /\ 1..0 = {}
  OBVIOUS
<1>2. ASSUME Typed(x, <<>>, m) PROVE Final(m)
  BY <1>1, <1>2 DEF Typed, Path
<1>3. ASSUME Final(m) PROVE Typed(x, <<>>, m)
  BY <1>3, PathEmpty DEF Typed
<1> QED
  BY <1>2, <1>3

(* Code followed by code.                                                  *)
LEMMA PathConcat ==
    ASSUME NEW x, NEW s \in Seq(Ops), NEW t \in Seq(Ops), NEW m, NEW m2, NEW m3,
           Path(x, s, m, m2), Path(x, t, m2, m3)
    PROVE  Path(x, s \o t, m, m3) /\ s \o t \in Seq(Ops)
<1>1. PICK u : /\ u[1] = m /\ u[Len(s) + 1] = m2
               /\ \A i \in 1..Len(s) : Leads(x, s[i], u[i], u[i + 1])
  BY DEF Path
<1>2. PICK v : /\ v[1] = m2 /\ v[Len(t) + 1] = m3
               /\ \A i \in 1..Len(t) : Leads(x, t[i], v[i], v[i + 1])
  BY DEF Path
<1>3. PICK k \in Nat : k = Len(s)
  OBVIOUS
<1>4. PICK n \in Nat : n = Len(t)
  OBVIOUS
<1>5. /\ s \o t \in Seq(Ops) /\ Len(s \o t) = k + n
      /\ \A i \in 1..(k + n) : (s \o t)[i] = IF i <= k THEN s[i] ELSE t[i - k]
  BY <1>3, <1>4, ConcatProperties
<1>6. PICK w : w = [i \in 1..(k + n + 1) |-> IF i <= k THEN u[i] ELSE v[i - k]]
  OBVIOUS
<1>7. w[1] = m
  <2>1. CASE k = 0
    <3>1. 1 \in 1..(k + n + 1) /\ ~(1 <= k) /\ 1 - k = 1
      BY <2>1
    <3>2. w[1] = m2
      BY <1>2, <1>6, <3>1
    <3> QED
      BY <1>1, <1>3, <2>1, <3>2
  <2>2. CASE k # 0
    <3>1. 1 \in 1..(k + n + 1) /\ 1 <= k
      BY <2>2
    <3> QED
      BY <1>1, <1>6, <3>1
  <2> QED
    BY <2>1, <2>2
<1>8. w[k + n + 1] = m3
  <2>1. k + n + 1 \in 1..(k + n + 1) /\ ~(k + n + 1 <= k) /\ (k + n + 1) - k = n + 1
    OBVIOUS
  <2>2. w[k + n + 1] = v[(k + n + 1) - k]
    BY <1>6, <2>1
  <2>3. v[n + 1] = m3
    BY <1>2, <1>4
  <2> QED
    BY <2>1, <2>2, <2>3
<1>9. ASSUME NEW i \in 1..(k + n) PROVE Leads(x, (s \o t)[i], w[i], w[i + 1])
  <2>1. i \in 1..(k + n + 1) /\ i + 1 \in 1..(k + n + 1)
    OBVIOUS
  <2>2. CASE i < k
    <3>1. i \in 1..k /\ i <= k /\ i + 1 <= k
      BY <2>2
    <3> QED
      BY <1>1, <1>3, <1>5, <1>6, <2>1, <3>1
  <2>3. CASE i = k
    <3>1. i \in 1..k /\ i <= k /\ ~(i + 1 <= k) /\ (i + 1) - k = 1
      BY <2>3
    <3>2. w[i] = u[i] /\ w[i + 1] = u[k + 1]
      BY <1>1, <1>2, <1>3, <1>6, <2>1, <3>1
    <3> QED
      BY <1>1, <1>3, <1>5, <2>3, <3>1, <3>2
  <2>4. CASE i > k
    <3>1. i - k \in 1..n /\ ~(i <= k) /\ ~(i + 1 <= k) /\ (i + 1) - k = (i - k) + 1
      BY <2>4
    <3>2. w[i] = v[i - k] /\ w[i + 1] = v[(i - k) + 1] /\ (s \o t)[i] = t[i - k]
      BY <1>5, <1>6, <2>1, <3>1
    <3> QED
      BY <1>2, <1>4, <3>1, <3>2
  <2>5. i < k \/ i = k \/ i > k
    OBVIOUS
  <2> QED
    BY <2>2, <2>3, <2>4, <2>5
<1> QED
  BY <1>5, <1>7, <1>8, <1>9 DEF Path

(* Code in front of good code.                                             *)
LEMMA TypedConcat ==
    ASSUME NEW x, NEW s \in Seq(Ops), NEW t \in Seq(Ops), NEW m, NEW m2,
           Path(x, s, m, m2), Typed(x, t, m2)
    PROVE  Typed(x, s \o t, m) /\ s \o t \in Seq(Ops)
<1>1. PICK m3 : Path(x, t, m2, m3) /\ Final(m3)
  BY DEF Typed
<1>2. Path(x, s \o t, m, m3) /\ s \o t \in Seq(Ops)
  BY <1>1, PathConcat
<1> QED
  BY <1>1, <1>2 DEF Typed

(* One operation.                                                          *)
LEMMA Path1 ==
    ASSUME NEW x, NEW a1 \in Ops,
           NEW m1, NEW m2,
           Leads(x, a1, m1, m2)
    PROVE  <<a1>> \in Seq(Ops) /\ Path(x, <<a1>>, m1, m2)
<1>1. PICK s : s = <<a1>>
  OBVIOUS
<1>2. PICK w : w = <<m1, m2>>
  OBVIOUS
<1>3. s \in Seq(Ops) /\ Len(s) = 1 /\ s[1] = a1
  BY <1>1
<1>4. w[1] = m1 /\ w[2] = m2
  BY <1>2
<1>5. ASSUME NEW i \in 1..1 PROVE Leads(x, s[i], w[i], w[i + 1])
  <2>1. i = 1
    OBVIOUS
  <2>2. CASE i = 1
    BY <1>3, <1>4, <2>2
  <2> QED
    BY <2>1, <2>2
<1> QED
  BY <1>1, <1>3, <1>4, <1>5 DEF Path

(* Two operations.                                                         *)
LEMMA Path2 ==
    ASSUME NEW x, NEW a1 \in Ops, NEW a2 \in Ops,
           NEW m1, NEW m2, NEW m3,
           Leads(x, a1, m1, m2), Leads(x, a2, m2, m3)
    PROVE  <<a1, a2>> \in Seq(Ops) /\ Path(x, <<a1, a2>>, m1, m3)
<1>1. PICK s : s = <<a1, a2>>
  OBVIOUS
<1>2. PICK w : w = <<m1, m2, m3>>
  OBVIOUS
<1>3. s \in Seq(Ops) /\ Len(s) = 2 /\ s[1] = a1 /\ s[2] = a2
  BY <1>1
<1>4. w[1] = m1 /\ w[2] = m2 /\ w[3] = m3
  BY <1>2
<1>5. ASSUME NEW i \in 1..2 PROVE Leads(x, s[i], w[i], w[i + 1])
  <2>1. i = 1 \/ i = 2
    OBVIOUS
  <2>2. CASE i = 1
    BY <1>3, <1>4, <2>2
  <2>3. CASE i = 2
    BY <1>3, <1>4, <2>3
  <2> QED
    BY <2>1, <2>2, <2>3
<1> QED
  BY <1>1, <1>3, <1>4, <1>5 DEF Path

(* Three operations.                                                       *)
LEMMA Path3 ==
    ASSUME NEW x, NEW a1 \in Ops, NEW a2 \in Ops, NEW a3 \in Ops,
           NEW m1, NEW m2, NEW m3, NEW m4,
           Leads(x, a1, m1, m2), Leads(x, a2, m2, m3), Leads(x, a3, m3, m4)
    PROVE  <<a1, a2, a3>> \in Seq(Ops) /\ Path(x, <<a1, a2, a3>>, m1, m4)
<1>1. PICK s : s = <<a1, a2, a3>>
  OBVIOUS
<1>2. PICK w : w = <<m1, m2, m3, m4>>
  OBVIOUS
<1>3. s \in Seq(Ops) /\ Len(s) = 3 /\ s[1] = a1 /\ s[2] = a2 /\ s[3] = a3
  BY <1>1
<1>4. w[1] = m1 /\ w[2] = m2 /\ w[3] = m3 /\ w[4] = m4
  BY <1>2
<1>5. ASSUME NEW i \in 1..3 PROVE Leads(x, s[i], w[i], w[i + 1])
  <2>1. i = 1 \/ i = 2 \/ i = 3
    OBVIOUS
  <2>2. CASE i = 1
    BY <1>3, <1>4, <2>2
  <2>3. CASE i = 2
    BY <1>3, <1>4, <2>3
  <2>4. CASE i = 3
    BY <1>3, <1>4, <2>4
  <2> QED
    BY <2>1, <2>2, <2>3, <2>4
<1> QED
  BY <1>1, <1>3, <1>4, <1>5 DEF Path

(* Four operations.                                                        *)
LEMMA Path4 ==
    ASSUME NEW x, NEW a1 \in Ops, NEW a2 \in Ops, NEW a3 \in Ops, NEW a4 \in Ops,
           NEW m1, NEW m2, NEW m3, NEW m4, NEW m5,
           Leads(x, a1, m1, m2), Leads(x, a2, m2, m3), Leads(x, a3, m3, m4),
           Leads(x, a4, m4, m5)
    PROVE  <<a1, a2, a3, a4>> \in Seq(Ops) /\ Path(x, <<a1, a2, a3, a4>>, m1, m5)
<1>1. PICK s : s = <<a1, a2, a3, a4>>
  OBVIOUS
<1>2. PICK w : w = <<m1, m2, m3, m4, m5>>
  OBVIOUS
<1>3. s \in Seq(Ops) /\ Len(s) = 4 /\ s[1] = a1 /\ s[2] = a2 /\ s[3] = a3 /\ s[4] = a4
  BY <1>1
<1>4. w[1] = m1 /\ w[2] = m2 /\ w[3] = m3 /\ w[4] = m4 /\ w[5] = m5
  BY <1>2
<1>5. ASSUME NEW i \in 1..4 PROVE Leads(x, s[i], w[i], w[i + 1])
  <2>1. i = 1 \/ i = 2 \/ i = 3 \/ i = 4
    OBVIOUS
  <2>2. CASE i = 1
    BY <1>3, <1>4, <2>2
  <2>3. CASE i = 2
    BY <1>3, <1>4, <2>3
  <2>4. CASE i = 3
    BY <1>3, <1>4, <2>4
  <2>5. CASE i = 4
    BY <1>3, <1>4, <2>5
  <2> QED
    BY <2>1, <2>2, <2>3, <2>4, <2>5
<1> QED
  BY <1>1, <1>3, <1>4, <1>5 DEF Path

(* The seven operations of sleep().                                        *)
LEMMA Path7 ==
    ASSUME NEW x, NEW a1 \in Ops, NEW a2 \in Ops, NEW a3 \in Ops, NEW a4 \in Ops,
           NEW a5 \in Ops, NEW a6 \in Ops, NEW a7 \in Ops,
           NEW m1, NEW m2, NEW m3, NEW m4, NEW m5, NEW m6, NEW m7, NEW m8,
           Leads(x, a1, m1, m2), Leads(x, a2, m2, m3), Leads(x, a3, m3, m4),
           Leads(x, a4, m4, m5), Leads(x, a5, m5, m6), Leads(x, a6, m6, m7),
           Leads(x, a7, m7, m8)
    PROVE  /\ <<a1, a2, a3, a4, a5, a6, a7>> \in Seq(Ops)
           /\ Path(x, <<a1, a2, a3, a4, a5, a6, a7>>, m1, m8)
<1>1. PICK s : s = <<a1, a2, a3, a4, a5, a6, a7>>
  OBVIOUS
<1>2. PICK w : w = <<m1, m2, m3, m4, m5, m6, m7, m8>>
  OBVIOUS
<1>3. /\ s \in Seq(Ops) /\ Len(s) = 7 /\ s[1] = a1 /\ s[2] = a2 /\ s[3] = a3
      /\ s[4] = a4 /\ s[5] = a5 /\ s[6] = a6 /\ s[7] = a7
  BY <1>1
<1>4. /\ w[1] = m1 /\ w[2] = m2 /\ w[3] = m3 /\ w[4] = m4
      /\ w[5] = m5 /\ w[6] = m6 /\ w[7] = m7 /\ w[8] = m8
  BY <1>2
<1>5. ASSUME NEW i \in 1..7 PROVE Leads(x, s[i], w[i], w[i + 1])
  <2>1. i = 1 \/ i = 2 \/ i = 3 \/ i = 4 \/ i = 5 \/ i = 6 \/ i = 7
    OBVIOUS
  <2>2. CASE i = 1
    BY <1>3, <1>4, <2>2
  <2>3. CASE i = 2
    BY <1>3, <1>4, <2>3
  <2>4. CASE i = 3
    BY <1>3, <1>4, <2>4
  <2>5. CASE i = 4
    BY <1>3, <1>4, <2>5
  <2>6. CASE i = 5
    BY <1>3, <1>4, <2>6
  <2>7. CASE i = 6
    BY <1>3, <1>4, <2>7
  <2>8. CASE i = 7
    BY <1>3, <1>4, <2>8
  <2> QED
    BY <2>1, <2>2, <2>3, <2>4, <2>5, <2>6, <2>7, <2>8
<1> QED
  BY <1>1, <1>3, <1>4, <1>5 DEF Path

----------------------------------------------------------------------------
(* Names, processors and the threads they execute.                         *)

(* Processes, processors and channels have different names.                *)
LEMMA Names ==
    ASSUME SmpAssumption
    PROVE  /\ Procs \subseteq Nat \ {0} /\ CPUs \subseteq Nat \ {0} /\ Threads \subseteq Nat \ {0}
           /\ Procs \cap CPUs = {} /\ 1 \in Procs
           /\ None \notin Threads /\ Ticks \notin Threads /\ Device \notin Threads
           /\ Ticks # None /\ Device # None /\ Ticks # Device
BY DEF SmpAssumption, Procs, CPUs, Threads, None, Ticks, Device

(* A scan of the table finds the first slot that it looks for.             *)
LEMMA FirstSlot ==
    ASSUME SmpAssumption, NEW S, S \subseteq Procs, S # {}
    PROVE  /\ (CHOOSE q \in S : \A r \in S : q <= r) \in S
           /\ (CHOOSE q \in S : \A r \in S : q <= r) \in Procs
<1>1. S \subseteq Nat
  BY Names
<1>2. PICK x \in S : \A y \in S : ~(<<y, x>> \in OpToRel(<, Nat))
  BY <1>1, NatLessThanWellFounded, WFMin
<1>3. \A y \in S : ~(y < x)
  BY <1>1, <1>2 DEF OpToRel
<1>4. \A y \in S : x <= y
  BY <1>1, <1>3
<1> QED
  BY <1>4

(* A processor executes its scheduler or its process, and no thread runs   *)
(* on two processors.                                                      *)
LEMMA ThreadFacts ==
    ASSUME SmpAssumption, NEW M, Types(M), Machine(M), NEW c \in CPUs
    PROVE  /\ Thread(c) \in Threads
           /\ cpu[c].proc = None => Thread(c) = c /\ c \notin Procs
           /\ cpu[c].proc # None => /\ Thread(c) = cpu[c].proc /\ Thread(c) \in Procs
                                    /\ c # Thread(c)
           /\ Thread(c) \in Procs => OnCpu(Thread(c)) /\ cpu[c].proc = Thread(c)
           /\ cpu[c].proc \in Procs \cup {None}
           /\ \A d \in CPUs \ {c} : Thread(d) # Thread(c) /\ d # Thread(c) /\ c # Thread(d)
<1>1. /\ \A d \in CPUs : cpu[d].proc \in Procs \cup {None}
      /\ \A d \in CPUs : c # d /\ cpu[c].proc # None => cpu[c].proc # cpu[d].proc
  BY DEF Types, Machine, CpuRecs
<1> QED
  BY <1>1, Names DEF Thread, Threads, OnCpu

(* What a step of one thread leaves of another.                            *)
Untouched(y, M, N) ==
    /\ code'[y] = code[y] /\ N[y] = M[y]
    /\ y \in Procs => Condition(proc'[y].st) = Condition(proc[y].st)

(* A processor that a step of another one leaves alone stays good.         *)
LEMMA CpuKept ==
    ASSUME SmpAssumption, NEW M, NEW N, NEW d \in CPUs, Types(M), Machine(M),
           cpu'[d] = cpu[d], Held(d)' = Held(d),
           Untouched(d, M, N), Untouched(Thread(d), M, N)
    PROVE  CpuGood(d, N)'
<1>1. CpuGood(d, M)
  BY DEF Machine
<1>2. /\ Thread(d)' = Thread(d) /\ Ints(d)' = Ints(d)
      /\ Thread(d) \in Threads
  BY ThreadFacts DEF Thread, Ints
<1>3. /\ code'[Thread(d)] = code[Thread(d)] /\ N[Thread(d)] = M[Thread(d)]
      /\ code'[d] = code[d] /\ N[d] = M[d]
  BY DEF Untouched
<1>4. Spinning(code[Thread(d)])' = Spinning(code[Thread(d)])
  BY <1>2, <1>3 DEF Spinning
<1>5. Status(d)' = Status(d)
  <2>1. CASE cpu[d].proc = None
    BY <2>1 DEF Status
  <2>2. CASE cpu[d].proc # None
    BY <2>2, ThreadFacts DEF Status, Untouched
  <2> QED
    BY <2>1, <2>2
<1>6. At(Held(d), Ints(d), Spun(Status(d), code[Thread(d)]), N[Thread(d)])'
        = At(Held(d), Ints(d), Spun(Status(d), code[Thread(d)]), M[Thread(d)])
  <2>1. Spun(Status(d), code[Thread(d)])' = Spun(Status(d), code[Thread(d)])
    BY <1>2, <1>3, <1>5 DEF Spun, Spinning
  <2> QED
    BY <1>2, <1>3, <2>1
<1>7. Typed(Thread(d), code[Thread(d)],
            At(Held(d), Ints(d), Spun(Status(d), code[Thread(d)]), N[Thread(d)]))'
  BY <1>1, <1>2, <1>3, <1>6 DEF CpuGood
<1>8. cpu[d].proc # None => N[cpu[d].proc] = M[cpu[d].proc]
  BY <1>3, ThreadFacts
<1>9. Depth(Held(d))' = Depth(Held(d))
  BY DEF Depth
<1> QED
  BY <1>1, <1>3, <1>4, <1>7, <1>8, <1>9 DEF CpuGood

(* A process that a step leaves alone stays good.                          *)
LEMMA ProcKept ==
    ASSUME NEW M, NEW N, NEW p \in Procs, ProcGood(p, M), Untouched(p, M, N)
    PROVE  ProcGood(p, N)'
<1>1. /\ proc[p].st = "RUNNING" <=> Condition(proc[p].st) = "run"
      /\ proc[p].st \in {"SLEEPING", "RUNNABLE"} <=> Condition(proc[p].st) = "off"
      /\ proc'[p].st = "RUNNING" <=> Condition(proc'[p].st) = "run"
      /\ proc'[p].st \in {"SLEEPING", "RUNNABLE"} <=> Condition(proc'[p].st) = "off"
  BY DEF Condition
<1> QED
  BY <1>1 DEF Untouched, ProcGood

(* A step of processor c on which the other processors and the threads     *)
(* they execute do not depend keeps the machine good.                      *)
LEMMA MachineStep ==
    ASSUME SmpAssumption, NEW M, NEW N, NEW c \in CPUs, Types(M), Machine(M), panic' = "",
           \A d \in CPUs \ {c} : /\ cpu'[d] = cpu[d] /\ Held(d)' = Held(d)
                                 /\ Untouched(d, M, N) /\ Untouched(Thread(d), M, N),
           CpuGood(c, N)',
           \A p \in Procs : ~OnCpu(p)' => \/ ProcGood(p, N)'
                                          \/ ~OnCpu(p) /\ Untouched(p, M, N),
           cpu'[c].proc # None => \A d \in CPUs \ {c} : cpu[d].proc # cpu'[c].proc
    PROVE  Machine(N)'
<1>1. ASSUME NEW d \in CPUs PROVE CpuGood(d, N)'
  <2>1. CASE d = c
    BY <2>1
  <2>2. CASE d # c
    <3>1. /\ cpu'[d] = cpu[d] /\ Held(d)' = Held(d)
          /\ Untouched(d, M, N) /\ Untouched(Thread(d), M, N)
      BY <2>2
    <3> QED
      BY <3>1, CpuKept
  <2> QED
    BY <2>1, <2>2
<1>2. ASSUME NEW p \in Procs, ~OnCpu(p)' PROVE ProcGood(p, N)'
  BY <1>2, ProcKept DEF Machine
<1>3. ASSUME NEW d \in CPUs, NEW e \in CPUs, d # e, cpu'[d].proc # None
      PROVE  cpu'[d].proc # cpu'[e].proc
  BY <1>3 DEF Machine
<1> QED
  BY <1>1, <1>2, <1>3 DEF Machine

(* The same when c stays with its thread, which goes on with code s in     *)
(* frame f.                                                                *)
LEMMA InPlace ==
    ASSUME SmpAssumption, NEW M, NEW N, NEW c \in CPUs, Types(M), Machine(M), panic' = "",
           NEW k \in CpuRecs, NEW s, NEW f,
           cpu' = [cpu EXCEPT ![c] = k], k.proc = cpu[c].proc,
           \A d \in CPUs \ {c} : Held(d)' = Held(d),
           code'[Thread(c)] = s, N[Thread(c)] = f,
           \A y \in Threads \ {Thread(c)} :
              \/ Untouched(y, M, N)
              \/ y \in Procs /\ ~OnCpu(y) /\ ProcGood(y, N)',
           k.ncli = Depth(Held(c)') + (IF Spinning(s) THEN 1 ELSE 0),
           k.ie => k.ncli = 0,
           Typed(Thread(c), s, At(Held(c)', IF k.ncli = 0 THEN k.ie ELSE k.intena,
                                  Spun(Status(c)', s), f)),
           f.base = "sched" <=> M[Thread(c)].base = "sched"
    PROVE  Machine(N)'
<1>1. cpu'[c] = k /\ \A d \in CPUs \ {c} : cpu'[d] = cpu[d]
  BY DEF Types
<1>2. \A d \in CPUs : cpu'[d].proc = cpu[d].proc /\ Thread(d)' = Thread(d)
  <2>1. \A d \in CPUs : cpu'[d].proc = cpu[d].proc
    BY <1>1
  <2> QED
    BY <2>1 DEF Thread
<1>3. \A p \in Procs : OnCpu(p)' <=> OnCpu(p)
  BY <1>2 DEF OnCpu
<1>4. ASSUME NEW y \in CPUs, y # Thread(c) PROVE Untouched(y, M, N)
  BY <1>4, Names DEF Threads
<1>5. ASSUME NEW d \in CPUs \ {c} PROVE Untouched(d, M, N) /\ Untouched(Thread(d), M, N)
  <2>1. Thread(d) \in Threads /\ Thread(d) # Thread(c) /\ d # Thread(c)
    BY ThreadFacts
  <2>2. Thread(d) \in Procs => OnCpu(Thread(d))
    BY ThreadFacts
  <2> QED
    BY <1>4, <2>1, <2>2
<1>6. CpuGood(c, N)'
  <2>1. Typed(Thread(c), code[Thread(c)],
              At(Held(c), Ints(c), Spun(Status(c), code[Thread(c)]), N[Thread(c)]))'
    <3>1. Spun(Status(c), code[Thread(c)])' = Spun(Status(c)', s)
      BY <1>2 DEF Spun, Spinning
    <3> QED
      BY <1>1, <1>2, <3>1 DEF Ints
  <2>2. (cpu[c].ncli = Depth(Held(c)) + (IF Spinning(code[Thread(c)]) THEN 1 ELSE 0))'
    BY <1>1, <1>2 DEF Spinning, Depth
  <2>3. CpuGood(c, M)
    BY DEF Machine
  <2>4. CASE cpu[c].proc = None
    <3>1. Thread(c) = c /\ k.proc = None
      BY <2>4, ThreadFacts
    <3>2. N[c].base = "sched"
      BY <2>3, <3>1 DEF CpuGood
    <3> QED
      BY <1>1, <2>1, <2>2, <3>1, <3>2 DEF CpuGood
  <2>5. CASE cpu[c].proc # None
    <3>1. Thread(c) = cpu[c].proc /\ Thread(c) \in Procs /\ c # Thread(c)
      BY <2>5, ThreadFacts
    <3>2. code'[c] = code[c] /\ N[c] = M[c]
      BY <1>4, <3>1 DEF Untouched
    <3>3. N[cpu[c].proc].base # "sched"
      BY <2>3, <2>5, <3>1 DEF CpuGood
    <3>4. M[c] = Frame("sched") /\ \E i \in 1..(NPROC + 1) : code[c] = <<<<"scan", i>>>>
      BY <2>3, <2>5 DEF CpuGood
    <3>5. M[c].base = "sched"
      BY <2>3 DEF CpuGood
    <3> QED
      BY <1>1, <2>1, <2>2, <3>1, <3>2, <3>3, <3>4, <3>5 DEF CpuGood
  <2> QED
    BY <2>4, <2>5
<1>7. ASSUME NEW p \in Procs, ~OnCpu(p)'
      PROVE  ProcGood(p, N)' \/ (~OnCpu(p) /\ Untouched(p, M, N))
  <2>1. ~OnCpu(p) /\ p \in Threads
    BY <1>3, <1>7 DEF Threads
  <2>2. p # Thread(c)
    <3>1. Thread(c) \in Procs => OnCpu(Thread(c))
      BY ThreadFacts
    <3> QED
      BY <2>1, <3>1
  <2> QED
    BY <2>1, <2>2
<1>8. cpu'[c].proc # None => \A d \in CPUs \ {c} : cpu[d].proc # cpu'[c].proc
  BY <1>2 DEF Machine
<1> QED
  BY <1>1, <1>5, <1>6, <1>7, <1>8, MachineStep

(* The parts of a processor and of the thread it executes, by name, and    *)
(* what the invariant says of them.                                        *)
Context(c, M, x, s, L, i, z, f, k) ==
    /\ x = Thread(c) /\ s = code[x] /\ L = Held(c) /\ i = Ints(c) /\ z = Spun(Status(c), s)
    /\ f = M[x] /\ k = cpu[c]
    /\ x \in Threads /\ s \in Seq(Ops) /\ L \subseteq Locks /\ i \in BOOLEAN
    /\ z \in {"run", "spin", "off", "dead", "none"} /\ f \in Frames /\ k \in CpuRecs
    /\ Typed(x, s, At(L, i, z, f))
    /\ k.ncli = Depth(L) + (IF Spinning(s) THEN 1 ELSE 0)
    /\ k.ie => k.ncli = 0
    /\ i = IF k.ncli = 0 THEN k.ie ELSE k.intena
    /\ x \in Procs => z = Spun(Condition(proc[x].st), s) /\ k.proc = x /\ f.base # "sched"
    /\ x \notin Procs => z = Spun("run", s) /\ x = c /\ k.proc = None /\ f.base = "sched"

(* Every processor has such parts.                                         *)
LEMMA ContextExists ==
    ASSUME SmpAssumption, NEW M, Good(M), NEW c \in CPUs
    PROVE  \E x, s, L, i, z, f, k : Context(c, M, x, s, L, i, z, f, k)
<1>1. Types(M) /\ Machine(M) /\ CpuGood(c, M)
  BY DEF Good, Machine
<1>2. PICK x : x = Thread(c)
  OBVIOUS
<1>3. PICK s : s = code[x]
  OBVIOUS
<1>4. PICK L : L = Held(c)
  OBVIOUS
<1>5. PICK i : i = Ints(c)
  OBVIOUS
<1>6. PICK z : z = Spun(Status(c), s)
  OBVIOUS
<1>7. PICK f : f = M[x]
  OBVIOUS
<1>8. PICK k : k = cpu[c]
  OBVIOUS
<1>9. x \in Threads /\ s \in Seq(Ops) /\ f \in Frames /\ k \in CpuRecs /\ L \subseteq Locks
  BY <1>1, <1>2, <1>3, <1>4, <1>7, <1>8, ThreadFacts DEF Types, Held
<1>10. z \in {"run", "spin", "off", "dead", "none"}
  BY <1>6 DEF Status, Condition, Spun
<1>11. i = (IF k.ncli = 0 THEN k.ie ELSE k.intena) /\ i \in BOOLEAN
  <2>1. i = IF k.ncli = 0 THEN k.ie ELSE k.intena
    BY <1>5, <1>8 DEF Ints
  <2>2. k.ie \in BOOLEAN /\ k.intena \in BOOLEAN
    BY <1>9 DEF CpuRecs
  <2> QED
    BY <2>1, <2>2
<1>12. /\ Typed(x, s, At(L, i, z, f))
       /\ k.ie => k.ncli = 0
  BY <1>1, <1>2, <1>3, <1>4, <1>5, <1>6, <1>7, <1>8 DEF CpuGood
<1>13. k.ncli = Depth(L) + (IF Spinning(s) THEN 1 ELSE 0)
  BY <1>1, <1>2, <1>3, <1>4, <1>8 DEF CpuGood
<1>14. x \in Procs => z = Spun(Condition(proc[x].st), s) /\ k.proc = x /\ f.base # "sched"
  BY <1>1, <1>2, <1>6, <1>7, <1>8, ThreadFacts, Names DEF CpuGood, Status, Threads
<1>15. x \notin Procs => z = Spun("run", s) /\ x = c /\ k.proc = None /\ f.base = "sched"
  BY <1>1, <1>2, <1>6, <1>7, <1>8, ThreadFacts DEF CpuGood, Status
<1>16. Context(c, M, x, s, L, i, z, f, k)
  BY <1>2, <1>3, <1>4, <1>5, <1>6, <1>7, <1>8, <1>9, <1>10, <1>11, <1>12, <1>13, <1>14, <1>15
     DEF Context
<1> QED
  BY <1>16

(* The operation a processor executes is one whose needs are met.          *)
LEMMA Executing ==
    ASSUME SmpAssumption, NEW M, Good(M), NEW c \in CPUs, NEW op, Executes(c, op)
    PROVE  \E x, s, L, i, z, f, k, a, t :
             /\ Context(c, M, x, s, L, i, z, f, k)
             /\ s # <<>> /\ a = Head(s) /\ t = Tail(s) /\ a \in Ops /\ t \in Seq(Ops)
             /\ a[1] = op /\ Needs(x, a, At(L, i, z, f))
             /\ Typed(x, t, After(a, At(L, i, z, f)))
<1>1. PICK x, s, L, i, z, f, k : Context(c, M, x, s, L, i, z, f, k)
  BY ContextExists
<1>2. s # <<>> /\ Head(s)[1] = op
  BY <1>1 DEF Executes, Context
<1>3. s \in Seq(Ops) /\ Typed(x, s, At(L, i, z, f))
  BY <1>1 DEF Context
<1> QED
  BY <1>1, <1>2, <1>3, TypedHead

(* A step that changes neither the table nor the ticks, and neither the    *)
(* child of its thread nor what the thread owes or has decided.            *)
LEMMA QuietStep ==
    ASSUME SmpAssumption, NEW M, Good(M), NEW c \in CPUs, NEW x, x = Thread(c),
           panic' = "", proc' = proc, ticks' = ticks,
           NEW k \in CpuRecs, cpu' = [cpu EXCEPT ![c] = k], k.proc = cpu[c].proc,
           lock' \in [Locks -> CPUs \cup {None}], \A d \in CPUs \ {c} : Held(d)' = Held(d),
           NEW s \in Seq(Ops), code' = [code EXCEPT ![x] = s],
           NEW g \in Frames, g.child = M[x].child, g.due = M[x].due, g.nap = M[x].nap,
           g.base = "sched" <=> M[x].base = "sched", g.base = "doomed" => M[x].base = "doomed",
           k.ncli = Depth(Held(c)') + (IF Spinning(s) THEN 1 ELSE 0),
           k.ie => k.ncli = 0,
           Status(c) # "none",
           Typed(x, s, At(Held(c)', IF k.ncli = 0 THEN k.ie ELSE k.intena, Spun(Status(c), s), g))
    PROVE  SmpInv'
<1>1. Types(M) /\ Machine(M) /\ Children(M) /\ Doomed(M) /\ Family /\ Sleepers(M)
  BY DEF Good
<1>2. x \in Threads
  BY <1>1, ThreadFacts
<1>3. PICK N : N = [M EXCEPT ![x] = g]
  OBVIOUS
<1>4. /\ N \in [Threads -> Frames] /\ N[x] = g
      /\ \A y \in Threads \ {x} : N[y] = M[y]
  BY <1>1, <1>2, <1>3 DEF Types
<1>5. /\ code' \in [Threads -> Seq(Ops)] /\ code'[x] = s
      /\ \A y \in Threads \ {x} : code'[y] = code[y]
  BY <1>1, <1>2 DEF Types
<1>6. Types(N)'
  <2>1. cpu' \in [CPUs -> CpuRecs]
    BY <1>1 DEF Types
  <2> QED
    BY <1>1, <1>4, <1>5, <2>1 DEF Types
<1>7. \A y \in Threads \ {x} : Untouched(y, M, N)
  BY <1>4, <1>5 DEF Untouched
<1>8. Machine(N)'
  <2>1. cpu'[c].proc = cpu[c].proc
    BY <1>1 DEF Types
  <2>2. Status(c)' = Status(c)
    <3>1. CASE cpu[c].proc = None
      BY <2>1, <3>1 DEF Status
    <3>2. CASE cpu[c].proc # None
      <4>1. Status(c)' = Condition(proc'[cpu'[c].proc].st)
        BY <2>1, <3>2 DEF Status
      <4>2. Status(c) = Condition(proc[cpu[c].proc].st)
        BY <3>2 DEF Status
      <4> QED
        BY <2>1, <4>1, <4>2
    <3> QED
      BY <3>1, <3>2
  <2>3. Typed(x, s, At(Held(c)', IF k.ncli = 0 THEN k.ie ELSE k.intena, Spun(Status(c)', s), g))
    BY <2>2
  <2>4. /\ code'[Thread(c)] = s /\ N[Thread(c)] = g
        /\ \A y \in Threads \ {Thread(c)} :
              \/ Untouched(y, M, N)
              \/ y \in Procs /\ ~OnCpu(y) /\ ProcGood(y, N)'
        /\ Typed(Thread(c), s, At(Held(c)', IF k.ncli = 0 THEN k.ie ELSE k.intena,
                                  Spun(Status(c)', s), g))
        /\ g.base = "sched" <=> M[Thread(c)].base = "sched"
    BY <1>4, <1>5, <1>7, <2>3
  <2> QED
    BY <1>1, <2>4, InPlace
<1>9. \A y \in Threads : N[y].child = M[y].child /\ N[y].due = M[y].due /\ N[y].nap = M[y].nap
  BY <1>4
<1>10. Children(N)'
  <2>1. ASSUME NEW y \in Threads, M[y].child # NoChild
        PROVE  /\ proc[M[y].child[2]].st = "EMBRYO"
               /\ M[y].child[1] = "start" => code'[M[y].child[2]] = forkret
    <3>1. PICK q \in Procs : q = M[y].child[2]
      BY <1>1, <2>1 DEF Types, Frames
    <3>2. /\ proc[q].st = "EMBRYO"
          /\ M[y].child[1] = "start" => code[q] = forkret
      BY <1>1, <2>1, <3>1 DEF Children
    <3>3. q # x
      <4>1. SUFFICES ASSUME q = x PROVE FALSE
        OBVIOUS
      <4>2. cpu[c].proc = q /\ q # None
        <5>1. x = Thread(c) /\ x \in Procs /\ Types(M) /\ Machine(M)
          BY <1>1, <4>1
        <5>2. cpu[c].proc = x
          <6>1. Thread(c) \in Procs => cpu[c].proc = Thread(c)
            BY <5>1, ThreadFacts
          <6> QED
            BY <5>1, <6>1
        <5>3. x # None
          BY <5>1, Names DEF Threads
        <5> QED
          BY <4>1, <5>2, <5>3
      <4>3. Status(c) = Condition("EMBRYO")
        BY <3>2, <4>2 DEF Status
      <4> QED
        BY <4>3 DEF Condition
    <3> QED
      BY <1>5, <3>1, <3>2, <3>3 DEF Threads
  <2>2. \A y \in Threads : N[y].child # NoChild =>
           /\ proc'[N[y].child[2]].st = "EMBRYO"
           /\ N[y].child[1] = "start" => code'[N[y].child[2]] = forkret
    BY <1>9, <2>1
  <2>3. ASSUME NEW y \in Threads, NEW v \in Threads, y # v, N[y].child # NoChild
        PROVE  N[y].child[2] # N[v].child[2]
    <3>1. N[y].child = M[y].child /\ N[v].child = M[v].child
      BY <1>9
    <3>2. M[y].child[2] # M[v].child[2]
      BY <1>1, <2>3, <3>1 DEF Children
    <3> QED
      BY <3>1, <3>2
  <2> QED
    BY <2>2, <2>3 DEF Children
<1>11. Doomed(N)'
  BY <1>1, <1>4 DEF Doomed, Threads
<1>12. Family' /\ Sleepers(N)'
  <2>1. \A p \in Procs : Late(p)' = Late(p) /\ Childless(p)' = Childless(p)
    BY DEF Late, Elapsed, Childless
  <2> QED
    BY <1>1, <1>9, <2>1 DEF Family, Sleepers, TickSleeper, Waiter, Threads
<1> QED
  BY <1>6, <1>8, <1>10, <1>11, <1>12 DEF Good, SmpInv

(* Only the first operation of a thread that waits for a lock spins.       *)
LEMMA NoSpin ==
    ASSUME NEW x, NEW s \in Seq(Ops), NEW m, m.st # "spin", Typed(x, s, m)
    PROVE  ~Spinning(s)
<1>1. SUFFICES ASSUME s # <<>>, Head(s)[1] = "xchg" PROVE FALSE
  BY DEF Spinning
<1>2. Needs(x, Head(s), m)
  BY <1>1, TypedHead
<1> QED
  BY <1>1, <1>2 DEF Needs

(* The fields of a processor's record.                                     *)
LEMMA CpuFields ==
    ASSUME NEW k \in CpuRecs
    PROVE  /\ k.ncli \in 0..3 /\ k.ncli \in Int /\ k.ie \in BOOLEAN /\ k.intena \in BOOLEAN
           /\ k.proc \in Procs \cup {None}
<1>1. k.ncli \in 0..3 /\ k.ie \in BOOLEAN /\ k.intena \in BOOLEAN /\ k.proc \in Procs \cup {None}
  BY DEF CpuRecs
<1>2. 0..3 \subseteq Int
  OBVIOUS
<1> QED
  BY <1>1, <1>2

(* Nothing is added for a thread that does not spin.                       *)
LEMMA AddZero == \A n \in Int : n = n + 0
OBVIOUS

(* A quiet step after which the thread does not wait for a lock.           *)
LEMMA PlainStep ==
    ASSUME SmpAssumption, NEW M, Good(M), NEW c \in CPUs, NEW x, x = Thread(c),
           panic' = "", proc' = proc, ticks' = ticks,
           NEW k \in CpuRecs, cpu' = [cpu EXCEPT ![c] = k], k.proc = cpu[c].proc,
           lock' \in [Locks -> CPUs \cup {None}], \A d \in CPUs \ {c} : Held(d)' = Held(d),
           NEW s \in Seq(Ops), code' = [code EXCEPT ![x] = s],
           NEW g \in Frames, g.child = M[x].child, g.due = M[x].due, g.nap = M[x].nap,
           g.base = "sched" <=> M[x].base = "sched", g.base = "doomed" => M[x].base = "doomed",
           NEW L, L = Held(c)', k.ncli = Depth(L), k.ie => k.ncli = 0,
           NEW i, i = IF k.ncli = 0 THEN k.ie ELSE k.intena,
           Status(c) = "run", Typed(x, s, At(L, i, "run", g))
    PROVE  SmpInv'
<1>1. ~Spinning(s)
  <2>1. At(L, i, "run", g).st # "spin"
    BY DEF At
  <2> QED
    BY <2>1, NoSpin
<1>2. k.ncli \in Int
  BY CpuFields
<1>3. /\ k.ncli = Depth(Held(c)') + (IF Spinning(s) THEN 1 ELSE 0)
      /\ Spun(Status(c), s) = "run"
      /\ Status(c) # "none"
  <2>1. k.ncli = k.ncli + 0
    BY <1>2, AddZero
  <2>2. (IF Spinning(s) THEN 1 ELSE 0) = 0
    BY <1>1
  <2> QED
    BY <1>1, <2>1, <2>2 DEF Spun
<1>4. Typed(x, s, At(Held(c)', IF k.ncli = 0 THEN k.ie ELSE k.intena, Spun(Status(c), s), g))
  BY <1>3
<1> QED
  BY <1>3, <1>4, QuietStep, ZenonT(60)

(* The same with the locks unchanged too.                                  *)
LEMMA LocalStep ==
    ASSUME SmpAssumption, NEW M, Good(M), NEW c \in CPUs, NEW x, x = Thread(c),
           panic' = "", proc' = proc, ticks' = ticks, lock' = lock,
           NEW k \in CpuRecs, cpu' = [cpu EXCEPT ![c] = k], k.proc = cpu[c].proc,
           NEW s \in Seq(Ops), code' = [code EXCEPT ![x] = s],
           NEW g \in Frames, g.child = M[x].child, g.due = M[x].due, g.nap = M[x].nap,
           g.base = "sched" <=> M[x].base = "sched", g.base = "doomed" => M[x].base = "doomed",
           NEW L, L = Held(c), k.ncli = Depth(L), k.ie => k.ncli = 0,
           NEW i, i = IF k.ncli = 0 THEN k.ie ELSE k.intena,
           Status(c) = "run", Typed(x, s, At(L, i, "run", g))
    PROVE  SmpInv'
<1>1. \A d \in CPUs : Held(d)' = Held(d)
  BY DEF Held
<1>2. lock' \in [Locks -> CPUs \cup {None}]
  BY DEF Good, Types
<1> QED
  BY <1>1, <1>2, PlainStep

(* Locks are counted.                                                      *)
LEMMA DepthChanges ==
    ASSUME NEW L, L \subseteq Locks, NEW l \in Locks
    PROVE  /\ Depth(L) \in 0..2 /\ (Depth(L) = 0 <=> L = {})
           /\ l \notin L => Depth(L \cup {l}) = Depth(L) + 1 /\ Depth(L) \in 0..1
           /\ l \in L => Depth(L \ {l}) = Depth(L) - 1 /\ Depth(L) \in 1..2
BY DEF Depth, Locks

(* Taking and giving back a lock changes what one processor holds.         *)
LEMMA HeldChanges ==
    ASSUME SmpAssumption, NEW M, Good(M), NEW c \in CPUs, NEW l \in Locks,
           NEW v \in {c, None}, lock' = [lock EXCEPT ![l] = v], lock[l] \in {c, None}
    PROVE  /\ lock' \in [Locks -> CPUs \cup {None}]
           /\ \A d \in CPUs \ {c} : Held(d)' = Held(d)
           /\ Held(c)' = IF v = c THEN Held(c) \cup {l} ELSE Held(c) \ {l}
<1>1. lock \in [Locks -> CPUs \cup {None}] /\ None \notin CPUs
  BY Names DEF Good, Types, Threads
<1>2. /\ lock' \in [Locks -> CPUs \cup {None}] /\ lock'[l] = v
      /\ \A j \in Locks \ {l} : lock'[j] = lock[j]
  BY <1>1
<1> QED
  BY <1>1, <1>2 DEF Held

(* What holds where a thread executes an operation other than xchg.        *)
Executed(c, M, op, x, a, t, L, i, z, f, k) ==
    /\ x = Thread(c) /\ x \in Threads /\ code[x] # <<>>
    /\ a = Head(code[x]) /\ a \in Ops /\ a[1] = op /\ Arg(c) = a[2]
    /\ t = Tail(code[x]) /\ t \in Seq(Ops) /\ Typed(x, t, After(a, At(L, i, z, f)))
    /\ L = Held(c) /\ L \subseteq Locks
    /\ k = cpu[c] /\ k \in CpuRecs /\ k.ncli = Depth(L) /\ (k.ie => k.ncli = 0)
    /\ i = (IF k.ncli = 0 THEN k.ie ELSE k.intena) /\ i \in BOOLEAN
    /\ z = Status(c) /\ z \in (IF op = "sched" THEN {"off", "dead"} ELSE {"run"})
    /\ f = M[x] /\ f \in Frames
    /\ x \in Procs => z = Condition(proc[x].st) /\ k.proc = x /\ f.base # "sched"
    /\ x \notin Procs => x = c /\ k.proc = None /\ f.base = "sched"
    /\ op = "intena" \/ Consistent(At(L, i, z, f))
    /\ LocksFor(a, At(L, i, z, f)) /\ FrameFor(x, a, f)

(* It holds for every operation that is executed.                          *)
LEMMA Execution ==
    ASSUME SmpAssumption, NEW M, Good(M), NEW c \in CPUs, NEW op, Executes(c, op), op # "xchg"
    PROVE  \E x, a, t, L, i, z, f, k : Executed(c, M, op, x, a, t, L, i, z, f, k)
<1>1. PICK x, s, L, i, z, f, k, a, t :
             /\ Context(c, M, x, s, L, i, z, f, k)
             /\ s # <<>> /\ a = Head(s) /\ t = Tail(s) /\ a \in Ops /\ t \in Seq(Ops)
             /\ a[1] = op /\ Needs(x, a, At(L, i, z, f))
             /\ Typed(x, t, After(a, At(L, i, z, f)))
  BY Executing
<1>2. ~Spinning(s)
  BY <1>1 DEF Spinning
<1>3. /\ z \in (IF op = "sched" THEN {"off", "dead"} ELSE {"run"})
      /\ op = "intena" \/ Consistent(At(L, i, z, f))
      /\ LocksFor(a, At(L, i, z, f)) /\ FrameFor(x, a, f)
  BY <1>1 DEF Needs, At
<1>4. /\ x = Thread(c) /\ s = code[x] /\ L = Held(c) /\ f = M[x] /\ k = cpu[c]
      /\ x \in Threads /\ L \subseteq Locks /\ i \in BOOLEAN
      /\ f \in Frames /\ k \in CpuRecs
      /\ k.ie => k.ncli = 0
      /\ i = IF k.ncli = 0 THEN k.ie ELSE k.intena
  BY <1>1 DEF Context
<1>5. Arg(c) = a[2]
  BY <1>1, <1>4 DEF Arg
<1>6. z = Status(c)
  BY <1>1, <1>2 DEF Context, Spun
<1>7. /\ x \in Procs => z = Condition(proc[x].st) /\ k.proc = x /\ f.base # "sched"
      /\ x \notin Procs => x = c /\ k.proc = None /\ f.base = "sched"
  BY <1>1, <1>2 DEF Context, Spun
<1>8. k.ncli = Depth(L)
  <2>1. k.ncli = Depth(L) + (IF Spinning(s) THEN 1 ELSE 0)
    BY <1>1 DEF Context
  <2>2. Depth(L) \in 0..2
    BY <1>4, DepthChanges DEF Locks
  <2>3. Depth(L) \in Int
    BY <2>2
  <2>4. k.ncli = Depth(L) + 0
    BY <1>2, <2>1
  <2> QED
    BY <2>3, <2>4, AddZero
<1>9. Executed(c, M, op, x, a, t, L, i, z, f, k)
  BY <1>1, <1>3, <1>4, <1>5, <1>6, <1>7, <1>8 DEF Executed
<1> QED
  BY <1>9

(* A thread goes on with the rest of its code, or with more before it.     *)
LEMMA GoesOnPlain ==
    ASSUME NEW c, NEW M, NEW op, NEW x, NEW a, NEW t, NEW L, NEW i, NEW z, NEW f, NEW k,
           Executed(c, M, op, x, a, t, L, i, z, f, k), GoesOn(c, <<>>)
    PROVE  code' = [code EXCEPT ![x] = t]
<1>1. <<>> \o t = t
  BY ConcatEmptySeq DEF Executed
<1> QED
  BY <1>1 DEF GoesOn, Executed

(* Short sequences.                                                        *)
LEMMA ShortSeqs ==
    ASSUME NEW S, NEW n \in S, NEW v \in S
    PROVE  <<n>> \in Seq(S) /\ <<n, v>> \in Seq(S)
OBVIOUS

(* An operation is a name with at most one operand.                        *)
LEMMA OpsBuilt ==
    ASSUME NEW v \in Operands, NEW n \in Words
    PROVE  <<n>> \in Ops /\ <<n, v>> \in Ops
<1>1. n \in Operands
  BY DEF Operands
<1> QED
  BY <1>1, ShortSeqs DEF Ops

(* The first operation of a sequence.                                      *)
LEMMA HeadOfConcat ==
    ASSUME NEW a \in Ops, NEW t \in Seq(Ops)
    PROVE  <<a>> \o t # <<>> /\ Head(<<a>> \o t) = a
<1>1. <<a>> \in Seq(Ops) /\ Len(<<a>>) = 1 /\ <<a>>[1] = a
  OBVIOUS
<1>2. Len(<<a>> \o t) = 1 + Len(t) /\ (<<a>> \o t)[1] = a
  BY <1>1, ConcatProperties
<1>3. Len(t) \in Nat
  OBVIOUS
<1> QED
  BY <1>1, <1>2, <1>3
----------------------------------------------------------------------------
(* What the operations of the kernel's code lead to.                       *)

(* acquire() of a lock the thread does not have.                           *)
LEMMA LeadsAcquire ==
    ASSUME NEW x, NEW i, NEW f \in Frames, NEW L, NEW l \in Locks,
           l \notin L, Consistent(At(L, i, "run", f))
    PROVE  Leads(x, Acquire(l), At(L, i, "run", f), At(L \cup {l}, i, "run", f))
BY DEF Leads, Needs, Consistent, LocksFor, FrameFor, After, LocksAfter, IntsAfter, StatusAfter,
       FrameAfter, At, LockOps, TableOps, TicksOps, FreeOps, HandlerOps, SchedulerOps,
       SharedOps,
       Acquire

(* release() of one it has.                                                *)
LEMMA LeadsRelease ==
    ASSUME NEW x, NEW i, NEW f \in Frames, NEW L, NEW l \in L,
           Consistent(At(L, i, "run", f))
    PROVE  Leads(x, Release(l), At(L, i, "run", f), At(L \ {l}, i, "run", f))
BY DEF Leads, Needs, Consistent, LocksFor, FrameFor, After, LocksAfter, IntsAfter, StatusAfter,
       FrameAfter, At, LockOps, TableOps, TicksOps, FreeOps, HandlerOps, SchedulerOps,
       SharedOps,
       Release

(* yield() makes its process RUNNABLE.                                     *)
LEMMA LeadsRunnable ==
    ASSUME NEW x, NEW i, NEW f \in Frames, x \in Procs, f.base # "sched", f.nap = "no",
           Consistent(At({"ptable"}, i, "run", f))
    PROVE  Leads(x, <<"runnable">>,
                 At({"ptable"}, i, "run", f), At({"ptable"}, i, "off", f))
BY DEF Leads, Needs, Consistent, LocksFor, FrameFor, After, LocksAfter, IntsAfter, StatusAfter,
       FrameAfter, At, LockOps, TableOps, TicksOps, FreeOps, HandlerOps, SchedulerOps,
       SharedOps

(* sched() comes back to a process that is alive.                          *)
LEMMA LeadsSched ==
    ASSUME NEW x, NEW i, NEW f \in Frames, x \in Procs, f.base # "sched", f.nap = "no",
           Consistent(At({"ptable"}, i, "off", f))
    PROVE  Leads(x, <<"sched">>, At({"ptable"}, i, "off", f), At({"ptable"}, i, "run", f))
BY DEF Leads, Needs, Consistent, LocksFor, FrameFor, After, LocksAfter, IntsAfter, StatusAfter,
       FrameAfter, At, LockOps, TableOps, TicksOps, FreeOps, HandlerOps, SchedulerOps,
       SharedOps

(* exit() makes its process a ZOMBIE.                                      *)
LEMMA LeadsExit ==
    ASSUME NEW x, NEW i, NEW f \in Frames, x \in Procs \ {1}, f.base # "sched",
           f.nap = "no", f.child = NoChild, Consistent(At({"ptable"}, i, "run", f))
    PROVE  Leads(x, <<"exit">>, At({"ptable"}, i, "run", f), At({"ptable"}, i, "dead", f))
BY DEF Leads, Needs, Consistent, LocksFor, FrameFor, After, LocksAfter, IntsAfter, StatusAfter,
       FrameAfter, At, LockOps, TableOps, TicksOps, FreeOps, HandlerOps, SchedulerOps,
       SharedOps

(* sched() does not come back to a ZOMBIE.                                 *)
LEMMA LeadsGone ==
    ASSUME NEW x, NEW i, NEW f \in Frames, x \in Procs, f.base # "sched", f.nap = "no",
           f.child = NoChild, Consistent(At({"ptable"}, i, "dead", f))
    PROVE  Leads(x, <<"sched">>,
                 At({"ptable"}, i, "dead", f), At({"ptable"}, i, "gone", f))
BY DEF Leads, Needs, Consistent, LocksFor, FrameFor, After, LocksAfter, IntsAfter, StatusAfter,
       FrameAfter, At, LockOps, TableOps, TicksOps, FreeOps, HandlerOps, SchedulerOps,
       SharedOps

(* sleep() tidies up under ptable.lock.                                    *)
LEMMA LeadsTidy ==
    ASSUME NEW x, NEW i, NEW f \in Frames, x \in Procs, f.base # "sched", f.nap = "no",
           Consistent(At({"ptable"}, i, "run", f))
    PROVE  Leads(x, <<"tidy">>, At({"ptable"}, i, "run", f), At({"ptable"}, i, "run", f))
BY DEF Leads, Needs, Consistent, LocksFor, FrameFor, After, LocksAfter, IntsAfter, StatusAfter,
       FrameAfter, At, LockOps, TableOps, TicksOps, FreeOps, HandlerOps, SchedulerOps,
       SharedOps

(* sleep() for what the thread has decided to sleep for.                   *)
LEMMA LeadsSleep ==
    ASSUME NEW x, NEW i, NEW f \in Frames, NEW ch, NEW g, x \in Procs,
           f.base # "sched", \/ ch = Ticks /\ f.nap = "ticks"
                             \/ ch = x /\ f.nap = "wait",
           g = [f EXCEPT !.nap = "no"], Consistent(At({"ptable"}, i, "run", f))
    PROVE  Leads(x, <<"sleep", ch>>,
                 At({"ptable"}, i, "run", f), At({"ptable"}, i, "off", g))
BY DEF Leads, Needs, Consistent, LocksFor, FrameFor, After, LocksAfter, IntsAfter, StatusAfter,
       FrameAfter, At, LockOps, TableOps, TicksOps, FreeOps, HandlerOps, SchedulerOps,
       SharedOps

(* wait() looks for children and ends without ptable.lock.                 *)
LEMMA LeadsWait ==
    ASSUME NEW x, NEW i, NEW f \in Frames, x \in Procs,
           f.base # "sched", f.nap = "no", Consistent(At({"ptable"}, i, "run", f))
    PROVE  Leads(x, <<"waitscan">>, At({"ptable"}, i, "run", f), At({}, i, "run", f))
BY DEF Leads, Needs, Consistent, LocksFor, FrameFor, After, LocksAfter, IntsAfter, StatusAfter,
       FrameAfter, At, LockOps, TableOps, TicksOps, FreeOps, HandlerOps, SchedulerOps,
       SharedOps

(* fork() looks for a slot and ends without ptable.lock.                   *)
LEMMA LeadsAlloc ==
    ASSUME NEW x, NEW i, NEW f \in Frames, x \in Procs,
           f.base # "sched", f.nap = "no", f.child = NoChild,
           Consistent(At({"ptable"}, i, "run", f))
    PROVE  Leads(x, <<"allocproc">>, At({"ptable"}, i, "run", f), At({}, i, "run", f))
BY DEF Leads, Needs, Consistent, LocksFor, FrameFor, After, LocksAfter, IntsAfter, StatusAfter,
       FrameAfter, At, LockOps, TableOps, TicksOps, FreeOps, HandlerOps, SchedulerOps,
       SharedOps

(* fork() copies the process into its child.                               *)
LEMMA LeadsCopy ==
    ASSUME NEW x, NEW i, NEW f \in Frames, NEW q, NEW g, x \in Procs,
           f.base # "sched", f.nap = "no", f.child = <<"copy", q>>,
           g = [f EXCEPT !.child = NoChild], Consistent(At({}, i, "run", f))
    PROVE  Leads(x, <<"copy", q>>, At({}, i, "run", f), At({}, i, "run", g))
BY DEF Leads, Needs, Consistent, LocksFor, FrameFor, After, LocksAfter, IntsAfter, StatusAfter,
       FrameAfter, At, LockOps, TableOps, TicksOps, FreeOps, HandlerOps, SchedulerOps,
       SharedOps

(* fork() lets its child run.                                              *)
LEMMA LeadsStart ==
    ASSUME NEW x, NEW i, NEW f \in Frames, NEW q, NEW g, x \in Procs,
           f.base # "sched", f.nap = "no", f.child = <<"start", q>>,
           g = [f EXCEPT !.child = NoChild], Consistent(At({"ptable"}, i, "run", f))
    PROVE  Leads(x, <<"start", q>>,
                 At({"ptable"}, i, "run", f), At({"ptable"}, i, "run", g))
BY DEF Leads, Needs, Consistent, LocksFor, FrameFor, After, LocksAfter, IntsAfter, StatusAfter,
       FrameAfter, At, LockOps, TableOps, TicksOps, FreeOps, HandlerOps, SchedulerOps,
       SharedOps

(* kill() of any process but init.                                         *)
LEMMA LeadsKill ==
    ASSUME NEW x, NEW i, NEW f \in Frames, NEW q \in Procs \ {1}, x \in Procs,
           f.base # "sched", f.nap = "no", Consistent(At({"ptable"}, i, "run", f))
    PROVE  Leads(x, <<"kill", q>>,
                 At({"ptable"}, i, "run", f), At({"ptable"}, i, "run", f))
BY DEF Leads, Needs, Consistent, LocksFor, FrameFor, After, LocksAfter, IntsAfter, StatusAfter,
       FrameAfter, At, LockOps, TableOps, TicksOps, FreeOps, HandlerOps, SchedulerOps,
       SharedOps

(* sys_sleep() reads the ticks.                                            *)
LEMMA LeadsTicks0 ==
    ASSUME NEW x, NEW i, NEW f \in Frames, NEW n \in SleepArgs, x \in Procs,
           f.base # "sched", f.nap = "no", Consistent(At({"ticks"}, i, "run", f))
    PROVE  Leads(x, <<"ticks0", n>>,
                 At({"ticks"}, i, "run", f), At({"ticks"}, i, "run", f))
BY DEF Leads, Needs, Consistent, LocksFor, FrameFor, After, LocksAfter, IntsAfter, StatusAfter,
       FrameAfter, At, LockOps, TableOps, TicksOps, FreeOps, HandlerOps, SchedulerOps,
       SharedOps

(* sys_sleep() loops and ends without tickslock.                           *)
LEMMA LeadsLoop ==
    ASSUME NEW x, NEW i, NEW f \in Frames, x \in Procs,
           f.base # "sched", f.nap = "no", Consistent(At({"ticks"}, i, "run", f))
    PROVE  Leads(x, <<"sleeploop">>, At({"ticks"}, i, "run", f), At({}, i, "run", f))
BY DEF Leads, Needs, Consistent, LocksFor, FrameFor, After, LocksAfter, IntsAfter, StatusAfter,
       FrameAfter, At, LockOps, TableOps, TicksOps, FreeOps, HandlerOps, SchedulerOps,
       SharedOps

(* A system call returns.                                                  *)
LEMMA LeadsSysret ==
    ASSUME NEW x, NEW i, NEW f \in Frames, x \in Procs,
           f = Frame("kernel"), Consistent(At({}, i, "run", f))
    PROVE  Leads(x, <<"sysret">>, At({}, i, "run", f), At({}, i, "run", f))
BY DEF Leads, Needs, Consistent, LocksFor, FrameFor, After, LocksAfter, IntsAfter, StatusAfter,
       FrameAfter, At, LockOps, TableOps, TicksOps, FreeOps, HandlerOps, SchedulerOps,
       SharedOps,
       Frame

(* The timer advances ticks, and owes a wakeup.                            *)
LEMMA LeadsTick ==
    ASSUME NEW x, NEW i, NEW f \in Frames, NEW g, ~f.due, f.nap = "no",
           g = [f EXCEPT !.due = TRUE], Consistent(At({"ticks"}, i, "run", f))
    PROVE  Leads(x, <<"tick">>, At({"ticks"}, i, "run", f), At({"ticks"}, i, "run", g))
BY DEF Leads, Needs, Consistent, LocksFor, FrameFor, After, LocksAfter, IntsAfter, StatusAfter,
       FrameAfter, At, LockOps, TableOps, TicksOps, FreeOps, HandlerOps, SchedulerOps,
       SharedOps

(* A wakeup of the sleepers in sys_sleep().                                *)
LEMMA LeadsWakeup ==
    ASSUME NEW x, NEW i, NEW f \in Frames, NEW g, f.due, f.nap = "no",
           g = [f EXCEPT !.due = FALSE], Consistent(At({"ptable", "ticks"}, i, "run", f))
    PROVE  Leads(x, <<"wakeup1", Ticks>>,
                 At({"ptable", "ticks"}, i, "run", f), At({"ptable", "ticks"}, i, "run", g))
BY DEF Leads, Needs, Consistent, LocksFor, FrameFor, After, LocksAfter, IntsAfter, StatusAfter,
       FrameAfter, At, LockOps, TableOps, TicksOps, FreeOps, HandlerOps, SchedulerOps,
       SharedOps,
       Ticks, Device

(* A wakeup by a device.                                                   *)
LEMMA LeadsDevice ==
    ASSUME NEW x, NEW i, NEW f \in Frames, ~f.due, f.nap = "no",
           Consistent(At({"ptable"}, i, "run", f))
    PROVE  Leads(x, <<"wakeup1", Device>>,
                 At({"ptable"}, i, "run", f), At({"ptable"}, i, "run", f))
<1>1. PICK g : g = [f EXCEPT !.due = FALSE]
  OBVIOUS
<1>2. g = f
  BY <1>1 DEF Frames
<1>3. Device # Ticks
  BY DEF Device, Ticks
<1>4. Needs(x, <<"wakeup1", Device>>, At({"ptable"}, i, "run", f))
  BY <1>3
     DEF Needs, LocksFor, FrameFor, At, LockOps, TableOps, TicksOps, FreeOps, HandlerOps,
         SchedulerOps, SharedOps
<1>5. After(<<"wakeup1", Device>>, At({"ptable"}, i, "run", f)) = At({"ptable"}, i, "run", g)
  BY <1>1 DEF After, LocksAfter, IntsAfter, StatusAfter, FrameAfter, At
<1> QED
  BY <1>2, <1>4, <1>5 DEF Leads

(* trap() lets a killed process exit.                                      *)
LEMMA LeadsKillcheck ==
    ASSUME NEW x, NEW i, NEW f \in Frames, NEW user \in BOOLEAN, f.h, f.nap = "no",
           user => x \in Procs /\ f.child = NoChild, f.base # "doomed",
           Consistent(At({}, i, "run", f))
    PROVE  Leads(x, <<"killcheck", user>>, At({}, i, "run", f), At({}, i, "run", f))
BY DEF Leads, Needs, Consistent, LocksFor, FrameFor, After, LocksAfter, IntsAfter, StatusAfter,
       FrameAfter, At, LockOps, TableOps, TicksOps, FreeOps, HandlerOps, SchedulerOps,
       SharedOps

(* trap() preempts the thread.                                             *)
LEMMA LeadsPreempt ==
    ASSUME NEW x, NEW i, NEW f \in Frames, NEW kind, f.h, f.nap = "no",
           f.base # "doomed", Consistent(At({}, i, "run", f))
    PROVE  Leads(x, <<"preempt", kind>>, At({}, i, "run", f), At({}, i, "run", f))
BY DEF Leads, Needs, Consistent, LocksFor, FrameFor, After, LocksAfter, IntsAfter, StatusAfter,
       FrameAfter, At, LockOps, TableOps, TicksOps, FreeOps, HandlerOps, SchedulerOps,
       SharedOps

(* A handler returns to what it interrupted.                               *)
LEMMA LeadsIret ==
    ASSUME NEW x, NEW i, NEW f \in Frames, NEW g, f.h, f.nap = "no",
           g = [f EXCEPT !.h = FALSE], f.base # "doomed", Consistent(At({}, i, "run", f))
    PROVE  Leads(x, <<"iret">>, At({}, i, "run", f), At({}, TRUE, "run", g))
BY DEF Leads, Needs, Consistent, LocksFor, FrameFor, After, LocksAfter, IntsAfter, StatusAfter,
       FrameAfter, At, LockOps, TableOps, TicksOps, FreeOps, HandlerOps, SchedulerOps,
       SharedOps

(* A process that a fault has killed does not return.                      *)
LEMMA LeadsDoomed ==
    ASSUME NEW x, NEW i, NEW f \in Frames, x \in Procs, f.h, f.nap = "no",
           f.base = "doomed", f.child = NoChild, Consistent(At({}, i, "run", f))
    PROVE  Leads(x, <<"killcheck", TRUE>>, At({}, i, "run", f), At({}, i, "gone", f))
BY DEF Leads, Needs, Consistent, LocksFor, FrameFor, After, LocksAfter, IntsAfter, StatusAfter,
       FrameAfter, At, LockOps, TableOps, TicksOps, FreeOps, HandlerOps, SchedulerOps,
       SharedOps

(* A new process returns to user code for the first time.                  *)
LEMMA LeadsFresh ==
    ASSUME NEW x, NEW i, NEW f \in Frames, NEW g, x \in Procs,
           f.base = "fresh", ~f.h, f.nap = "no", g = [f EXCEPT !.base = "kernel"],
           Consistent(At({}, i, "run", f))
    PROVE  Leads(x, <<"iret">>, At({}, i, "run", f), At({}, TRUE, "run", g))
BY DEF Leads, Needs, Consistent, LocksFor, FrameFor, After, LocksAfter, IntsAfter, StatusAfter,
       FrameAfter, At, LockOps, TableOps, TicksOps, FreeOps, HandlerOps, SchedulerOps,
       SharedOps

(* The scheduler lets interrupts in.                                       *)
LEMMA LeadsSti ==
    ASSUME NEW x, NEW i, NEW f \in Frames, x \in CPUs, f = Frame("sched")
    PROVE  Leads(x, <<"sti">>, At({}, i, "run", f), At({}, TRUE, "run", f))
BY DEF Leads, Needs, Consistent, LocksFor, FrameFor, After, LocksAfter, IntsAfter, StatusAfter,
       FrameAfter, At, LockOps, TableOps, TicksOps, FreeOps, HandlerOps, SchedulerOps,
       SharedOps,
       Frame

(* The scheduler scans the table.                                          *)
LEMMA LeadsScan ==
    ASSUME NEW x, NEW i, NEW f \in Frames, NEW n \in 1..(NPROC + 1), x \in CPUs,
           f = Frame("sched")
    PROVE  Leads(x, <<"scan", n>>,
                 At({"ptable"}, i, "run", f), At({"ptable"}, i, "gone", f))
BY DEF Leads, Needs, Consistent, LocksFor, FrameFor, After, LocksAfter, IntsAfter, StatusAfter,
       FrameAfter, At, LockOps, TableOps, TicksOps, FreeOps, HandlerOps, SchedulerOps,
       SharedOps,
       Frame

(* sched() restores the thread's own intena.                               *)
LEMMA LeadsIntena ==
    ASSUME NEW x, NEW i, NEW f \in Frames, NEW b \in BOOLEAN, x \in Procs,
           f.base # "sched", f.nap = "no", ~f.due, f.h => ~b, f.base = "kernel" /\ ~f.h => b
    PROVE  Leads(x, <<"intena", b>>,
                 At({"ptable"}, i, "run", f), At({"ptable"}, b, "run", f))
BY DEF Leads, Needs, Consistent, LocksFor, FrameFor, After, LocksAfter, IntsAfter, StatusAfter,
       FrameAfter, At, LockOps, TableOps, TicksOps, FreeOps, HandlerOps, SchedulerOps,
       SharedOps
----------------------------------------------------------------------------
(* Locks and interrupts, step by step.                                     *)

(* acquire() never meets a lock of its own processor; the processor gets   *)
(* the lock or starts to spin, with its interrupts off.                    *)
LEMMA AcquireStep ==
    ASSUME SmpAssumption, NEW M, Good(M), NEW c \in CPUs, acquire(c)
    PROVE  SmpInv'
<1>1. PICK x, a, t, L, i, z, f, k : Executed(c, M, "acquire", x, a, t, L, i, z, f, k)
  BY Execution DEF acquire
<1>2. PICK l : l = a[2]
  OBVIOUS
<1>3. l \in Locks /\ l \notin L
  BY <1>1, <1>2 DEF Executed, LocksFor, At
<1>4. After(a, At(L, i, z, f)) = At(L \cup {l}, i, "run", f)
  BY <1>1, <1>2 DEF Executed, After, At, LocksAfter, IntsAfter, StatusAfter, FrameAfter
<1>5. lock[l] # c /\ Arg(c) = l
  BY <1>1, <1>2, <1>3 DEF Executed, Held
<1>6. PICK kk : kk = pushcli(k)
  OBVIOUS
<1>7. /\ kk \in CpuRecs /\ kk.ncli = k.ncli + 1 /\ kk.intena = i /\ kk.ie = FALSE
      /\ kk.proc = k.proc /\ kk.ncli # 0 /\ kk.ncli = Depth(L \cup {l})
  <2>1. /\ k \in CpuRecs /\ k.ncli = Depth(L) /\ L \subseteq Locks
        /\ i = (IF k.ncli = 0 THEN k.ie ELSE k.intena)
    BY <1>1 DEF Executed
  <2>2. Depth(L) \in 0..1 /\ Depth(L \cup {l}) = Depth(L) + 1
    BY <1>3, <2>1, DepthChanges
  <2>3. k.ncli + 1 \in 0..3 /\ k.ncli + 1 # 0 /\ Depth(L \cup {l}) = k.ncli + 1
    BY <2>1, <2>2
  <2> QED
    BY <1>6, <2>1, <2>3 DEF pushcli, CpuRecs
<1>8. /\ cpu' = [cpu EXCEPT ![c] = kk] /\ proc' = proc /\ ticks' = ticks /\ panic' = ""
      /\ IF lock[l] = None
         THEN lock' = [lock EXCEPT ![l] = c] /\ GoesOn(c, <<>>)
         ELSE GoesOn(c, << <<"xchg", l>> >>) /\ UNCHANGED lock
  BY <1>1, <1>5, <1>6 DEF acquire, Holding, Executes, Executed
<1>9. CASE lock[l] = None
  <2>1. code' = [code EXCEPT ![x] = t]
    <3>1. GoesOn(c, <<>>)
      BY <1>8, <1>9
    <3> QED
      BY <1>1, <3>1, GoesOnPlain
  <2>2. /\ lock' \in [Locks -> CPUs \cup {None}]
        /\ \A d \in CPUs \ {c} : Held(d)' = Held(d)
        /\ Held(c)' = L \cup {l}
    BY <1>1, <1>3, <1>8, <1>9, HeldChanges DEF Executed
  <2>3. Typed(x, t, At(L \cup {l}, i, "run", f))
    BY <1>1, <1>4 DEF Executed
  <2>4. i = IF kk.ncli = 0 THEN kk.ie ELSE kk.intena
    BY <1>7
  <2>5. /\ x = Thread(c) /\ kk.proc = cpu[c].proc /\ t \in Seq(Ops) /\ f \in Frames /\ f = M[x]
        /\ Status(c) = "run"
    BY <1>1, <1>7 DEF Executed
  <2> QED
    BY <1>7, <1>8, <2>1, <2>2, <2>3, <2>4, <2>5, PlainStep
<1>10. CASE lock[l] # None
  <2>1. <<"xchg", l>> \in Ops
    <3>1. l \in Words /\ "xchg" \in Words
      BY <1>3 DEF Words, LockOps
    <3>2. l \in Operands
      BY <3>1 DEF Operands
    <3> QED
      BY <3>1, <3>2, OpsBuilt
  <2>2. Leads(x, <<"xchg", l>>, At(L, i, "spin", f), At(L \cup {l}, i, "run", f))
    <3>1. Consistent(At(L, i, "spin", f))
      BY <1>1 DEF Executed, Consistent, At
    <3>2. LocksFor(<<"xchg", l>>, At(L, i, "spin", f)) /\ FrameFor(x, <<"xchg", l>>, f)
      BY <1>3 DEF LocksFor, FrameFor, At, TableOps, TicksOps, FreeOps, SchedulerOps, SharedOps,
                  LockOps, HandlerOps
    <3>3. After(<<"xchg", l>>, At(L, i, "spin", f)) = At(L \cup {l}, i, "run", f)
      BY DEF After, At, LocksAfter, IntsAfter, StatusAfter, FrameAfter
    <3> QED
      BY <3>1, <3>2, <3>3 DEF Leads, Needs, At, LockOps
  <2>3. PICK s : s = << <<"xchg", l>> >> \o t
    OBVIOUS
  <2>4. Typed(x, s, At(L, i, "spin", f)) /\ s \in Seq(Ops)
    <3>1. << <<"xchg", l>> >> \in Seq(Ops)
          /\ Path(x, << <<"xchg", l>> >>, At(L, i, "spin", f), At(L \cup {l}, i, "run", f))
      BY <2>1, <2>2, Path1
    <3>2. t \in Seq(Ops) /\ Typed(x, t, At(L \cup {l}, i, "run", f))
      BY <1>1, <1>4 DEF Executed
    <3> QED
      BY <2>3, <3>1, <3>2, TypedConcat
  <2>5. s # <<>> /\ Head(s) = <<"xchg", l>>
    BY <1>1, <2>1, <2>3, HeadOfConcat DEF Executed
  <2>6. Spinning(s) /\ Spun(Status(c), s) = "spin" /\ Status(c) = "run"
    BY <1>1, <2>5 DEF Spinning, Spun, Executed
  <2>7. code' = [code EXCEPT ![x] = s]
    BY <1>1, <1>8, <1>10, <2>3 DEF GoesOn, Executed
  <2>8. lock' = lock /\ \A d \in CPUs : Held(d)' = Held(d)
    BY <1>8, <1>10 DEF Held
  <2>9. lock' \in [Locks -> CPUs \cup {None}]
    BY <2>8 DEF Good, Types
  <2>10. i = IF kk.ncli = 0 THEN kk.ie ELSE kk.intena
    BY <1>7
  <2>11. Typed(x, s, At(Held(c)', IF kk.ncli = 0 THEN kk.ie ELSE kk.intena, Spun(Status(c), s), f))
    BY <1>1, <2>4, <2>6, <2>8, <2>10 DEF Executed
  <2>12. kk.ncli = Depth(Held(c)') + (IF Spinning(s) THEN 1 ELSE 0)
    BY <1>1, <1>7, <2>6, <2>8 DEF Executed
  <2> QED
    BY <1>1, <1>7, <1>8, <2>4, <2>6, <2>7, <2>8, <2>9, <2>11, <2>12, QuietStep DEF Executed
<1> QED
  BY <1>9, <1>10

(* A processor that spins gets the lock when it is free.                   *)
LEMMA XchgStep ==
    ASSUME SmpAssumption, NEW M, Good(M), NEW c \in CPUs, xchg(c)
    PROVE  SmpInv'
<1>1. PICK x, s, L, i, z, f, k, a, t :
             /\ Context(c, M, x, s, L, i, z, f, k)
             /\ s # <<>> /\ a = Head(s) /\ t = Tail(s) /\ a \in Ops /\ t \in Seq(Ops)
             /\ a[1] = "xchg" /\ Needs(x, a, At(L, i, z, f))
             /\ Typed(x, t, After(a, At(L, i, z, f)))
  BY Executing DEF xchg
<1>2. PICK l : l = a[2]
  OBVIOUS
<1>3. z = "spin" /\ l \in Locks /\ l \notin L
  BY <1>1, <1>2 DEF Needs, LocksFor, At
<1>4. After(a, At(L, i, z, f)) = At(L \cup {l}, i, "run", f)
  BY <1>1, <1>2 DEF After, At, LocksAfter, IntsAfter, StatusAfter, FrameAfter
<1>5. /\ x = Thread(c) /\ s = code[x] /\ L = Held(c) /\ f = M[x] /\ k = cpu[c] /\ k \in CpuRecs
      /\ x \in Threads /\ f \in Frames /\ L \subseteq Locks
      /\ i = (IF k.ncli = 0 THEN k.ie ELSE k.intena) /\ (k.ie => k.ncli = 0)
  BY <1>1 DEF Context
<1>6. Arg(c) = l
  BY <1>1, <1>2, <1>5 DEF Arg
<1>7. Status(c) = "run"
  <2>1. Status(c) # "spin"
    BY DEF Status, Condition
  <2>2. z = Spun(Status(c), s)
    BY <1>1 DEF Context
  <2> QED
    BY <1>3, <2>1, <2>2 DEF Spun
<1>8. k.ncli = Depth(L \cup {l})
  <2>1. Spinning(s)
    BY <1>1 DEF Spinning
  <2>2. k.ncli = Depth(L) + 1
    BY <1>1, <2>1 DEF Context
  <2> QED
    BY <1>3, <1>5, <2>2, DepthChanges
<1>9. /\ lock[l] = None /\ lock' = [lock EXCEPT ![l] = c] /\ cpu' = cpu /\ proc' = proc
      /\ ticks' = ticks /\ panic' = ""
  BY <1>6 DEF xchg, Executes
<1>10. cpu' = [cpu EXCEPT ![c] = k]
  BY <1>5, <1>9 DEF Good, Types
<1>11. code' = [code EXCEPT ![x] = t]
  <2>1. <<>> \o t = t
    BY <1>1, ConcatEmptySeq
  <2> QED
    BY <1>1, <1>5, <2>1 DEF xchg, GoesOn
<1>12. /\ lock' \in [Locks -> CPUs \cup {None}]
       /\ \A d \in CPUs \ {c} : Held(d)' = Held(d)
       /\ Held(c)' = L \cup {l}
  BY <1>3, <1>5, <1>9, HeldChanges
<1>13. /\ x = Thread(c) /\ k.proc = cpu[c].proc /\ t \in Seq(Ops) /\ f \in Frames /\ f = M[x]
       /\ Typed(x, t, At(L \cup {l}, i, "run", f)) /\ proc' = proc /\ ticks' = ticks
       /\ panic' = "" /\ k \in CpuRecs /\ (k.ie => k.ncli = 0)
  BY <1>1, <1>4, <1>5, <1>9
<1>14. i = IF k.ncli = 0 THEN k.ie ELSE k.intena
  BY <1>5
<1> QED
  BY <1>7, <1>8, <1>10, <1>11, <1>12, <1>13, <1>14, PlainStep

(* release() and popcli() never panic; interrupts come back with the last  *)
(* lock, if they were on before the first.                                 *)
LEMMA ReleaseStep ==
    ASSUME SmpAssumption, NEW M, Good(M), NEW c \in CPUs, release(c)
    PROVE  SmpInv'
<1>1. PICK x, a, t, L, i, z, f, k : Executed(c, M, "release", x, a, t, L, i, z, f, k)
  BY Execution DEF release
<1>2. PICK l : l = a[2]
  OBVIOUS
<1>3. l \in Locks /\ l \in L
  BY <1>1, <1>2 DEF Executed, LocksFor, At
<1>4. After(a, At(L, i, z, f)) = At(L \ {l}, i, "run", f)
  BY <1>1, <1>2 DEF Executed, After, At, LocksAfter, IntsAfter, StatusAfter, FrameAfter
<1>5. lock[l] = c /\ Arg(c) = l
  BY <1>1, <1>2, <1>3 DEF Executed, Held
<1>6. /\ k = cpu[c] /\ k \in CpuRecs /\ k.ncli = Depth(L) /\ L \subseteq Locks
      /\ i = (IF k.ncli = 0 THEN k.ie ELSE k.intena) /\ (k.ie => k.ncli = 0)
      /\ i \in BOOLEAN
  BY <1>1 DEF Executed
<1>7. Depth(L) \in 1..2 /\ Depth(L \ {l}) = Depth(L) - 1
  BY <1>3, <1>6, DepthChanges
<1>8. k.ncli \in 1..2 /\ Depth(L \ {l}) = k.ncli - 1 /\ ~k.ie /\ k.ncli # 0 /\ i = k.intena
  BY <1>6, <1>7
<1>9. ReleasePanic(c, Arg(c)) = ""
  BY <1>5, <1>6, <1>8 DEF ReleasePanic, Holding
<1>10. PICK kk : kk = popcli(k)
  OBVIOUS
<1>11. /\ cpu' = [cpu EXCEPT ![c] = kk] /\ proc' = proc /\ ticks' = ticks /\ panic' = ""
       /\ lock' = [lock EXCEPT ![l] = None] /\ GoesOn(c, <<>>)
  BY <1>5, <1>6, <1>9, <1>10 DEF release, Executes
<1>12. /\ kk \in CpuRecs /\ kk.ncli = k.ncli - 1 /\ kk.intena = k.intena
       /\ kk.ie = (k.ncli = 1 /\ k.intena) /\ kk.proc = k.proc
  <2>1. k.ncli - 1 \in 0..3
    BY <1>8
  <2>2. (k.ncli = 1 /\ k.intena) \in BOOLEAN
    OBVIOUS
  <2> QED
    BY <1>6, <1>10, <2>1, <2>2 DEF popcli, CpuRecs
<1>13. kk.ie => kk.ncli = 0
  <2>1. k.ncli = 1 => k.ncli - 1 = 0
    BY <1>8
  <2> QED
    BY <1>12, <2>1
<1>14. i = IF kk.ncli = 0 THEN kk.ie ELSE kk.intena
  <2>1. kk.ncli = 0 <=> k.ncli = 1
    BY <1>8, <1>12
  <2> QED
    BY <1>6, <1>8, <1>12, <2>1
<1>15. code' = [code EXCEPT ![x] = t]
  <2>1. GoesOn(c, <<>>)
    BY <1>11
  <2> QED
    BY <1>1, <2>1, GoesOnPlain
<1>16. /\ lock' \in [Locks -> CPUs \cup {None}]
       /\ \A d \in CPUs \ {c} : Held(d)' = Held(d)
       /\ Held(c)' = L \ {l}
  <2>1. None # c
    BY Names DEF Threads
  <2>2. Held(c) = L
    BY <1>1 DEF Executed
  <2> QED
    BY <1>3, <1>5, <1>11, <2>1, <2>2, HeldChanges
<1>17. /\ x = Thread(c) /\ kk.proc = cpu[c].proc /\ t \in Seq(Ops) /\ f \in Frames /\ f = M[x]
       /\ Status(c) = "run" /\ Typed(x, t, At(L \ {l}, i, "run", f)) /\ kk.ncli = Depth(L \ {l})
  BY <1>1, <1>4, <1>6, <1>8, <1>12 DEF Executed
<1> QED
  BY <1>11, <1>12, <1>13, <1>14, <1>15, <1>16, <1>17, PlainStep

(* A step that changes only the flags of its processor and its own code.   *)
LEMMA FlagStep ==
    ASSUME SmpAssumption, NEW M, Good(M), NEW c \in CPUs, NEW op, NEW x, NEW a, NEW t, NEW L,
           NEW i, NEW z, NEW f, NEW k, Executed(c, M, op, x, a, t, L, i, z, f, k), op # "sched",
           panic' = "", UNCHANGED <<lock, proc, ticks>>,
           NEW kk \in CpuRecs, cpu' = [cpu EXCEPT ![c] = kk], kk.proc = k.proc,
           kk.ncli = k.ncli, kk.ie => kk.ncli = 0,
           NEW s \in Seq(Ops), code' = [code EXCEPT ![x] = s],
           NEW g \in Frames, g.child = f.child, g.due = f.due, g.nap = f.nap,
           g.base = "sched" <=> f.base = "sched", g.base = "doomed" => f.base = "doomed",
           NEW j, j = IF kk.ncli = 0 THEN kk.ie ELSE kk.intena,
           Typed(x, s, At(L, j, "run", g))
    PROVE  SmpInv'
<1>1. /\ x = Thread(c) /\ kk.proc = cpu[c].proc /\ f = M[x] /\ L = Held(c)
      /\ kk.ncli = Depth(L) /\ Status(c) = "run"
  BY DEF Executed
<1>2. /\ g.child = M[x].child /\ g.due = M[x].due /\ g.nap = M[x].nap
      /\ g.base = "sched" <=> M[x].base = "sched"
      /\ g.base = "doomed" => M[x].base = "doomed"
  BY <1>1
<1>3. proc' = proc /\ ticks' = ticks /\ lock' = lock
  OBVIOUS
<1> QED
  BY <1>1, <1>2, <1>3, LocalStep

(* A step that changes only its own code.                                  *)
LEMMA CodeStep ==
    ASSUME SmpAssumption, NEW M, Good(M), NEW c \in CPUs, NEW op, NEW x, NEW a, NEW t, NEW L,
           NEW i, NEW z, NEW f, NEW k, Executed(c, M, op, x, a, t, L, i, z, f, k), op # "sched",
           panic' = "", UNCHANGED <<cpu, lock, proc, ticks>>,
           NEW s \in Seq(Ops), code' = [code EXCEPT ![x] = s],
           NEW g \in Frames, g.child = f.child, g.due = f.due, g.nap = f.nap,
           g.base = "sched" <=> f.base = "sched", g.base = "doomed" => f.base = "doomed",
           Typed(x, s, At(L, i, "run", g))
    PROVE  SmpInv'
<1>1. cpu' = [cpu EXCEPT ![c] = k]
  BY DEF Executed, Good, Types
<1>2. k \in CpuRecs /\ (k.ie => k.ncli = 0)
  BY DEF Executed
<1>3. i = IF k.ncli = 0 THEN k.ie ELSE k.intena
  BY DEF Executed
<1>4. /\ x = Thread(c) /\ k.proc = cpu[c].proc /\ f = M[x] /\ L = Held(c)
      /\ k.ncli = Depth(L) /\ Status(c) = "run"
  BY DEF Executed
<1>5. /\ g.child = M[x].child /\ g.due = M[x].due /\ g.nap = M[x].nap
      /\ g.base = "sched" <=> M[x].base = "sched"
      /\ g.base = "doomed" => M[x].base = "doomed"
  BY <1>4
<1>6. proc' = proc /\ ticks' = ticks /\ lock' = lock
  OBVIOUS
<1> QED
  BY <1>1, <1>2, <1>3, <1>4, <1>5, <1>6, LocalStep, ZenonT(60)

(* The scheduler lets interrupts in.                                       *)
LEMMA StiStep ==
    ASSUME SmpAssumption, NEW M, Good(M), NEW c \in CPUs, sti(c)
    PROVE  SmpInv'
<1>1. PICK x, a, t, L, i, z, f, k : Executed(c, M, "sti", x, a, t, L, i, z, f, k)
  BY Execution DEF sti
<1>2. L = {}
  BY <1>1 DEF Executed, LocksFor, At, FreeOps
<1>3. After(a, At(L, i, z, f)) = At(L, TRUE, "run", f)
  BY <1>1 DEF Executed, After, At, LocksAfter, IntsAfter, StatusAfter, FrameAfter
<1>4. k \in CpuRecs /\ k.ncli = 0 /\ k = cpu[c] /\ x = Thread(c)
  BY <1>1, <1>2, DepthChanges DEF Executed, Locks, Depth
<1>5. PICK kk : kk = [k EXCEPT !.ie = TRUE]
  OBVIOUS
<1>6. kk \in CpuRecs /\ kk.ncli = k.ncli /\ kk.proc = k.proc /\ kk.ie = TRUE
  BY <1>4, <1>5 DEF CpuRecs
<1>7. cpu' = [cpu EXCEPT ![c] = kk]
  BY <1>4, <1>5 DEF sti
<1>8. panic' = "" /\ UNCHANGED <<lock, proc, ticks>> /\ GoesOn(c, <<>>)
  BY DEF sti, Executes
<1>9. code' = [code EXCEPT ![x] = t]
  <2>1. GoesOn(c, <<>>)
    BY <1>8
  <2> QED
    BY <1>1, <2>1, GoesOnPlain
<1>10. t \in Seq(Ops) /\ Typed(x, t, At(L, TRUE, "run", f)) /\ f \in Frames
  BY <1>1, <1>3 DEF Executed
<1>11. TRUE = (IF kk.ncli = 0 THEN kk.ie ELSE kk.intena) /\ kk.ncli = 0
  BY <1>4, <1>6
<1> QED
  BY <1>1, <1>6, <1>7, <1>8, <1>9, <1>10, <1>11, FlagStep

(* sched() restores intena under ptable.lock.                              *)
LEMMA IntenaStep ==
    ASSUME SmpAssumption, NEW M, Good(M), NEW c \in CPUs, intena(c)
    PROVE  SmpInv'
<1>1. PICK x, a, t, L, i, z, f, k : Executed(c, M, "intena", x, a, t, L, i, z, f, k)
  BY Execution DEF intena
<1>2. PICK b : b = a[2]
  OBVIOUS
<1>3. L = {"ptable"} /\ b \in BOOLEAN
  BY <1>1, <1>2 DEF Executed, LocksFor, FrameFor, At, TableOps
<1>4. After(a, At(L, i, z, f)) = At(L, b, "run", f)
  BY <1>1, <1>2 DEF Executed, After, At, LocksAfter, IntsAfter, StatusAfter, FrameAfter
<1>5. k \in CpuRecs /\ k.ncli = 1 /\ k = cpu[c] /\ x = Thread(c) /\ ~k.ie
  BY <1>1, <1>3 DEF Executed, Locks, Depth
<1>6. PICK kk : kk = [k EXCEPT !.intena = b]
  OBVIOUS
<1>7. kk \in CpuRecs /\ kk.ncli = k.ncli /\ kk.proc = k.proc /\ kk.intena = b /\ kk.ie = k.ie
  BY <1>3, <1>5, <1>6 DEF CpuRecs
<1>8. cpu' = [cpu EXCEPT ![c] = kk]
  BY <1>1, <1>2, <1>5, <1>6 DEF intena, Executed
<1>9. panic' = "" /\ UNCHANGED <<lock, proc, ticks>> /\ GoesOn(c, <<>>)
  BY DEF intena, Executes
<1>10. code' = [code EXCEPT ![x] = t]
  <2>1. GoesOn(c, <<>>)
    BY <1>9
  <2> QED
    BY <1>1, <2>1, GoesOnPlain
<1>11. t \in Seq(Ops) /\ Typed(x, t, At(L, b, "run", f)) /\ f \in Frames
  BY <1>1, <1>4 DEF Executed
<1>12. kk.ncli = 1 /\ ~kk.ie
  BY <1>5, <1>7
<1>13. b = IF kk.ncli = 0 THEN kk.ie ELSE kk.intena
  BY <1>7, <1>12
<1> QED
  BY <1>1, <1>7, <1>8, <1>9, <1>10, <1>11, <1>12, <1>13, FlagStep

(* iret ends a handler, or brings a new process to user code.              *)
LEMMA IretStep ==
    ASSUME SmpAssumption, NEW M, Good(M), NEW c \in CPUs, iret(c)
    PROVE  SmpInv'
<1>1. PICK x, a, t, L, i, z, f, k : Executed(c, M, "iret", x, a, t, L, i, z, f, k)
  BY Execution DEF iret
<1>2. L = {}
  BY <1>1 DEF Executed, LocksFor, At, FreeOps
<1>3. f \in Frames /\ (f.h \/ f.base = "fresh")
  BY <1>1 DEF Executed, FrameFor
<1>4. PICK g : g = IF f.h THEN [f EXCEPT !.h = FALSE] ELSE [f EXCEPT !.base = "kernel"]
  OBVIOUS
<1>5. /\ g \in Frames /\ g.child = f.child /\ g.due = f.due /\ g.nap = f.nap
      /\ g.base = "sched" <=> f.base = "sched"
      /\ g.base = "doomed" => f.base = "doomed"
  <2>1. CASE f.h
    BY <1>3, <1>4, <2>1 DEF Frames
  <2>2. CASE ~f.h
    BY <1>3, <1>4, <2>2 DEF Frames
  <2> QED
    BY <2>1, <2>2
<1>6. After(a, At(L, i, z, f)) = At(L, TRUE, "run", g)
  BY <1>1, <1>4 DEF Executed, After, At, LocksAfter, IntsAfter, StatusAfter, FrameAfter
<1>7. k \in CpuRecs /\ k.ncli = 0 /\ k = cpu[c] /\ x = Thread(c)
  BY <1>1, <1>2, DepthChanges DEF Executed, Locks, Depth
<1>8. PICK kk : kk = [k EXCEPT !.ie = TRUE]
  OBVIOUS
<1>9. kk \in CpuRecs /\ kk.ncli = k.ncli /\ kk.proc = k.proc /\ kk.ie = TRUE
  BY <1>7, <1>8 DEF CpuRecs
<1>10. cpu' = [cpu EXCEPT ![c] = kk]
  BY <1>7, <1>8 DEF iret
<1>11. panic' = "" /\ UNCHANGED <<lock, proc, ticks>> /\ GoesOn(c, <<>>)
  BY DEF iret, Executes
<1>12. code' = [code EXCEPT ![x] = t]
  <2>1. GoesOn(c, <<>>)
    BY <1>11
  <2> QED
    BY <1>1, <2>1, GoesOnPlain
<1>13. t \in Seq(Ops) /\ Typed(x, t, At(L, TRUE, "run", g))
  BY <1>1, <1>6 DEF Executed
<1>14. TRUE = (IF kk.ncli = 0 THEN kk.ie ELSE kk.intena) /\ kk.ncli = 0
  BY <1>7, <1>9
<1> QED
  BY <1>1, <1>5, <1>9, <1>10, <1>11, <1>12, <1>13, <1>14, FlagStep
----------------------------------------------------------------------------
(* Pieces of the kernel's code.                                            *)

(* The operations with a name only, or with a constant operand.            *)
LEMMA OpsKnown ==
    /\ Acquire("ptable") \in Ops /\ Release("ptable") \in Ops
    /\ Acquire("ticks") \in Ops /\ Release("ticks") \in Ops
    /\ <<"runnable">> \in Ops /\ <<"sched">> \in Ops /\ <<"exit">> \in Ops /\ <<"tidy">> \in Ops
    /\ <<"waitscan">> \in Ops /\ <<"allocproc">> \in Ops /\ <<"sleeploop">> \in Ops
    /\ <<"sysret">> \in Ops /\ <<"tick">> \in Ops /\ <<"iret">> \in Ops /\ <<"sti">> \in Ops
    /\ <<"preempt", "timer">> \in Ops /\ <<"preempt", "device">> \in Ops
    /\ \A b \in BOOLEAN : <<"intena", b>> \in Ops /\ <<"killcheck", b>> \in Ops
    /\ \A n \in Int : /\ <<"sleep", n>> \in Ops /\ <<"copy", n>> \in Ops /\ <<"start", n>> \in Ops
                      /\ <<"kill", n>> \in Ops /\ <<"ticks0", n>> \in Ops
                      /\ <<"wakeup1", n>> \in Ops /\ <<"scan", n>> \in Ops
<1>1. {"acquire", "release", "runnable", "sched", "exit", "tidy", "waitscan", "allocproc",
       "sleeploop", "sysret", "tick", "iret", "sti", "preempt", "intena", "killcheck", "sleep",
       "copy", "start", "kill", "ticks0", "wakeup1", "scan"} \subseteq Words
  BY DEF Words, LockOps, TableOps, TicksOps, FreeOps, HandlerOps
<1>2. {"ptable", "ticks", "timer", "device"} \subseteq Operands
  BY DEF Words, Operands, Locks
<1>3. BOOLEAN \subseteq Operands /\ Int \subseteq Operands
  BY DEF Operands
<1>4. \A n \in Words, v \in Operands : <<n, v>> \in Ops
  BY OpsBuilt
<1>5. \A n \in Words : <<n>> \in Ops
  BY <1>2, OpsBuilt
<1> QED
  BY <1>1, <1>2, <1>3, <1>4, <1>5 DEF Acquire, Release

(* A frame of a thread that owes nothing and has decided nothing.          *)
Idle(f) == f \in Frames /\ ~f.due /\ f.nap = "no"

(* exit() of a process with no lock: it has nothing to give back.          *)
LEMMA ExitTyped ==
    ASSUME NEW x \in Procs \ {1}, NEW i \in BOOLEAN, NEW f, Idle(f), f.base = "kernel",
           f.child = NoChild, f.h <=> ~i
    PROVE  exit \in Seq(Ops) /\ Typed(x, exit, At({}, i, "run", f))
<1>1. /\ Consistent(At({}, i, "run", f)) /\ Consistent(At({"ptable"}, i, "run", f))
      /\ Consistent(At({"ptable"}, i, "dead", f))
  BY DEF Consistent, At, Idle, Frames
<1>2. Leads(x, Acquire("ptable"), At({}, i, "run", f), At({"ptable"}, i, "run", f))
  <2>1. {} \cup {"ptable"} = {"ptable"} /\ "ptable" \in Locks /\ f \in Frames
    BY DEF Locks, Idle
  <2> QED
    BY <1>1, <2>1, LeadsAcquire
<1>3. Leads(x, <<"exit">>, At({"ptable"}, i, "run", f), At({"ptable"}, i, "dead", f))
  BY <1>1, LeadsExit DEF Idle
<1>4. Leads(x, <<"sched">>, At({"ptable"}, i, "dead", f), At({"ptable"}, i, "gone", f))
  BY <1>1, LeadsGone DEF Idle
<1>5. exit \in Seq(Ops) /\ Path(x, exit, At({}, i, "run", f), At({"ptable"}, i, "gone", f))
  BY <1>2, <1>3, <1>4, OpsKnown, Path3 DEF exit
<1>6. Final(At({"ptable"}, i, "gone", f))
  BY DEF Final, At
<1> QED
  BY <1>5, <1>6 DEF Typed

(* yield() comes back to where it was called.                              *)
LEMMA YieldPath ==
    ASSUME NEW x \in Procs, NEW i, NEW f, Idle(f), f.base # "sched",
           Consistent(At({}, i, "run", f))
    PROVE  yield \in Seq(Ops) /\ Path(x, yield, At({}, i, "run", f), At({}, i, "run", f))
<1>1. Consistent(At({"ptable"}, i, "run", f)) /\ Consistent(At({"ptable"}, i, "off", f))
  BY DEF Consistent, At, Idle, Frames
<1>2. Leads(x, Acquire("ptable"), At({}, i, "run", f), At({"ptable"}, i, "run", f))
  <2>1. {} \cup {"ptable"} = {"ptable"} /\ "ptable" \in Locks /\ f \in Frames
    BY DEF Locks, Idle
  <2> QED
    BY <2>1, LeadsAcquire
<1>3. Leads(x, <<"runnable">>, At({"ptable"}, i, "run", f), At({"ptable"}, i, "off", f))
  BY <1>1, LeadsRunnable DEF Idle
<1>4. Leads(x, <<"sched">>, At({"ptable"}, i, "off", f), At({"ptable"}, i, "run", f))
  BY <1>1, LeadsSched DEF Idle
<1>5. Leads(x, Release("ptable"), At({"ptable"}, i, "run", f), At({}, i, "run", f))
  <2>1. {"ptable"} \ {"ptable"} = {} /\ "ptable" \in {"ptable"} /\ f \in Frames
    BY DEF Idle
  <2> QED
    BY <1>1, <2>1, LeadsRelease
<1> QED
  BY <1>2, <1>3, <1>4, <1>5, OpsKnown, Path4 DEF yield

(* wakeup() for a device leaves everything as it was.                      *)
LEMMA DevicePath ==
    ASSUME NEW x, NEW i, NEW f, Idle(f), Consistent(At({}, i, "run", f))
    PROVE  /\ wakeup(Device) \in Seq(Ops)
           /\ Path(x, wakeup(Device), At({}, i, "run", f), At({}, i, "run", f))
<1>1. Consistent(At({"ptable"}, i, "run", f))
  BY DEF Consistent, At, Idle, Frames
<1>2. Leads(x, Acquire("ptable"), At({}, i, "run", f), At({"ptable"}, i, "run", f))
  <2>1. {} \cup {"ptable"} = {"ptable"} /\ "ptable" \in Locks /\ f \in Frames
    BY DEF Locks, Idle
  <2> QED
    BY <2>1, LeadsAcquire
<1>3. Leads(x, <<"wakeup1", Device>>, At({"ptable"}, i, "run", f), At({"ptable"}, i, "run", f))
  BY <1>1, LeadsDevice DEF Idle
<1>4. Leads(x, Release("ptable"), At({"ptable"}, i, "run", f), At({}, i, "run", f))
  <2>1. {"ptable"} \ {"ptable"} = {} /\ "ptable" \in {"ptable"} /\ f \in Frames
    BY DEF Idle
  <2> QED
    BY <1>1, <2>1, LeadsRelease
<1>5. <<"wakeup1", Device>> \in Ops
  <2>1. Device \in Int
    BY DEF Device
  <2> QED
    BY <2>1, OpsKnown
<1> QED
  BY <1>2, <1>3, <1>4, <1>5, OpsKnown, Path3 DEF wakeup

(* The timer interrupt of the first processor: the wakeup it owes after    *)
(* the tick comes before it gives up tickslock.                            *)
LEMMA TimerPath ==
    ASSUME NEW x, NEW i, NEW f, Idle(f), Consistent(At({}, i, "run", f)), NEW s,
           s = <<Acquire("ticks"), <<"tick">>>> \o wakeup(Ticks) \o <<Release("ticks")>>
    PROVE  s \in Seq(Ops) /\ Path(x, s, At({}, i, "run", f), At({}, i, "run", f))
<1>1. PICK g : g = [f EXCEPT !.due = TRUE]
  OBVIOUS
<1>2. g \in Frames /\ g.due /\ g.nap = "no" /\ f = [g EXCEPT !.due = FALSE] /\ f \in Frames
  BY <1>1 DEF Idle, Frames
<1>3. /\ Consistent(At({"ticks"}, i, "run", f)) /\ Consistent(At({"ticks"}, i, "run", g))
      /\ Consistent(At({"ptable", "ticks"}, i, "run", g))
      /\ Consistent(At({"ptable", "ticks"}, i, "run", f))
  BY <1>1 DEF Consistent, At, Idle, Frames
<1>4. Leads(x, Acquire("ticks"), At({}, i, "run", f), At({"ticks"}, i, "run", f))
  <2>1. {} \cup {"ticks"} = {"ticks"} /\ "ticks" \in Locks
    BY DEF Locks
  <2> QED
    BY <1>2, <2>1, LeadsAcquire
<1>5. Leads(x, <<"tick">>, At({"ticks"}, i, "run", f), At({"ticks"}, i, "run", g))
  BY <1>1, <1>3, LeadsTick DEF Idle
<1>6. Leads(x, Acquire("ptable"), At({"ticks"}, i, "run", g), At({"ptable", "ticks"}, i, "run", g))
  <2>1. {"ticks"} \cup {"ptable"} = {"ptable", "ticks"} /\ "ptable" \in Locks
        /\ "ptable" \notin {"ticks"}
    BY DEF Locks
  <2> QED
    BY <1>2, <1>3, <2>1, LeadsAcquire
<1>7. Leads(x, <<"wakeup1", Ticks>>, At({"ptable", "ticks"}, i, "run", g),
            At({"ptable", "ticks"}, i, "run", f))
  BY <1>2, <1>3, LeadsWakeup
<1>8. Leads(x, Release("ptable"), At({"ptable", "ticks"}, i, "run", f), At({"ticks"}, i, "run", f))
  <2>1. {"ptable", "ticks"} \ {"ptable"} = {"ticks"} /\ "ptable" \in {"ptable", "ticks"}
    OBVIOUS
  <2> QED
    BY <1>2, <1>3, <2>1, LeadsRelease
<1>9. Leads(x, Release("ticks"), At({"ticks"}, i, "run", f), At({}, i, "run", f))
  <2>1. {"ticks"} \ {"ticks"} = {} /\ "ticks" \in {"ticks"}
    OBVIOUS
  <2> QED
    BY <1>2, <1>3, <2>1, LeadsRelease
<1>10. <<"wakeup1", Ticks>> \in Ops
  <2>1. Ticks \in Int
    BY DEF Ticks
  <2> QED
    BY <2>1, OpsKnown
<1>11. /\ <<Acquire("ticks"), <<"tick">>>> \in Seq(Ops)
       /\ Path(x, <<Acquire("ticks"), <<"tick">>>>, At({}, i, "run", f), At({"ticks"}, i, "run", g))
  BY <1>4, <1>5, OpsKnown, Path2
<1>12. /\ wakeup(Ticks) \in Seq(Ops)
       /\ Path(x, wakeup(Ticks), At({"ticks"}, i, "run", g), At({"ticks"}, i, "run", f))
  BY <1>6, <1>7, <1>8, <1>10, OpsKnown, Path3 DEF wakeup
<1>13. /\ <<Release("ticks")>> \in Seq(Ops)
       /\ Path(x, <<Release("ticks")>>, At({"ticks"}, i, "run", f), At({}, i, "run", f))
  BY <1>9, OpsKnown, Path1
<1>14. /\ <<Acquire("ticks"), <<"tick">>>> \o wakeup(Ticks) \in Seq(Ops)
       /\ Path(x, <<Acquire("ticks"), <<"tick">>>> \o wakeup(Ticks), At({}, i, "run", f),
               At({"ticks"}, i, "run", f))
  BY <1>11, <1>12, PathConcat
<1> QED
  BY <1>13, <1>14, PathConcat

(* An interrupt handler gives back what it takes and returns.              *)
LEMMA HandlerPath ==
    ASSUME NEW x, NEW c, NEW kind \in {"timer", "device"}, NEW user \in BOOLEAN, NEW f, NEW g,
           Idle(f), f.h, f.base # "doomed", g = [f EXCEPT !.h = FALSE],
           user => x \in Procs /\ f.child = NoChild
    PROVE  /\ Handler(c, kind, user) \in Seq(Ops)
           /\ Path(x, Handler(c, kind, user), At({}, FALSE, "run", f), At({}, TRUE, "run", g))
<1>1. Consistent(At({}, FALSE, "run", f)) /\ f \in Frames /\ f.nap = "no"
  BY DEF Consistent, At, Idle, Frames
<1>2. PICK w : w = CASE kind = "timer" /\ c = BootCPU ->
                          <<Acquire("ticks"), <<"tick">>>> \o wakeup(Ticks) \o <<Release("ticks")>>
                     [] kind = "timer" /\ c # BootCPU -> <<>>
                     [] OTHER -> wakeup(Device)
  OBVIOUS
<1>3. w \in Seq(Ops) /\ Path(x, w, At({}, FALSE, "run", f), At({}, FALSE, "run", f))
  <2>1. CASE kind = "timer" /\ c = BootCPU
    <3>1. w = <<Acquire("ticks"), <<"tick">>>> \o wakeup(Ticks) \o <<Release("ticks")>>
      BY <1>2, <2>1
    <3> QED
      BY <1>1, <3>1, TimerPath
  <2>2. CASE kind = "timer" /\ c # BootCPU
    <3>1. w = <<>>
      BY <1>2, <2>2
    <3> QED
      BY <3>1, PathEmpty
  <2>3. CASE kind = "device"
    <3>1. w = wakeup(Device)
      BY <1>2, <2>3
    <3> QED
      BY <1>1, <3>1, DevicePath
  <2> QED
    BY <2>1, <2>2, <2>3
<1>4. PICK v : v = << <<"killcheck", user>>, <<"preempt", kind>>, <<"killcheck", user>>,
                      <<"iret">> >>
  OBVIOUS
<1>5. Handler(c, kind, user) = w \o v
  BY <1>2, <1>4 DEF Handler
<1>6. v \in Seq(Ops) /\ Path(x, v, At({}, FALSE, "run", f), At({}, TRUE, "run", g))
  <2>1. Leads(x, <<"killcheck", user>>, At({}, FALSE, "run", f), At({}, FALSE, "run", f))
    BY <1>1, LeadsKillcheck
  <2>2. Leads(x, <<"preempt", kind>>, At({}, FALSE, "run", f), At({}, FALSE, "run", f))
    BY <1>1, LeadsPreempt
  <2>3. Leads(x, <<"iret">>, At({}, FALSE, "run", f), At({}, TRUE, "run", g))
    BY <1>1, LeadsIret
  <2>4. <<"killcheck", user>> \in Ops /\ <<"preempt", kind>> \in Ops /\ <<"iret">> \in Ops
    BY OpsKnown
  <2> QED
    BY <1>4, <2>1, <2>2, <2>3, <2>4, Path4
<1>7. w \o v \in Seq(Ops) /\ Path(x, w \o v, At({}, FALSE, "run", f), At({}, TRUE, "run", g))
  BY <1>3, <1>6, PathConcat
<1> QED
  BY <1>5, <1>7

(* Every system call leads back to user code.                              *)
LEMMA CallTyped ==
    ASSUME SmpAssumption, NEW x \in Procs, NEW call, NEW s \in Body(call)
    PROVE  LET r == s \o << <<"sysret">> >>
           IN r \in Seq(Ops) /\ Typed(x, r, UserMode)
<1>1. PICK f : f = Frame("kernel")
  OBVIOUS
<1>2. f \in Frames /\ f.base = "kernel" /\ ~f.h /\ ~f.due /\ f.nap = "no" /\ f.child = NoChild
  BY <1>1 DEF Frame, Frames
<1>3. /\ Consistent(At({}, TRUE, "run", f)) /\ Consistent(At({"ptable"}, TRUE, "run", f))
      /\ Consistent(At({"ticks"}, TRUE, "run", f))
  BY <1>2 DEF Consistent, At
<1>4. Leads(x, Acquire("ptable"), At({}, TRUE, "run", f), At({"ptable"}, TRUE, "run", f))
  <2>1. {} \cup {"ptable"} = {"ptable"} /\ "ptable" \in Locks
    BY DEF Locks
  <2> QED
    BY <1>2, <1>3, <2>1, LeadsAcquire
<1>5. Leads(x, Release("ptable"), At({"ptable"}, TRUE, "run", f), At({}, TRUE, "run", f))
  <2>1. {"ptable"} \ {"ptable"} = {} /\ "ptable" \in {"ptable"}
    OBVIOUS
  <2> QED
    BY <1>2, <1>3, <2>1, LeadsRelease
<1>6. Leads(x, Acquire("ticks"), At({}, TRUE, "run", f), At({"ticks"}, TRUE, "run", f))
  <2>1. {} \cup {"ticks"} = {"ticks"} /\ "ticks" \in Locks
    BY DEF Locks
  <2> QED
    BY <1>2, <1>3, <2>1, LeadsAcquire
<1>7. Leads(x, Release("ticks"), At({"ticks"}, TRUE, "run", f), At({}, TRUE, "run", f))
  <2>1. {"ticks"} \ {"ticks"} = {} /\ "ticks" \in {"ticks"}
    OBVIOUS
  <2> QED
    BY <1>2, <1>3, <2>1, LeadsRelease
<1>8. s \in Seq(Ops) /\ Path(x, s, At({}, TRUE, "run", f), At({}, TRUE, "run", f))
  <2>1. CASE call = "fork"
    <3>1. s = fork
      BY <2>1 DEF Body
    <3>2. Leads(x, <<"allocproc">>, At({"ptable"}, TRUE, "run", f), At({}, TRUE, "run", f))
      BY <1>2, <1>3, LeadsAlloc
    <3> QED
      BY <1>4, <3>1, <3>2, OpsKnown, Path2 DEF fork
  <2>2. CASE call = "wait"
    <3>1. s = wait
      BY <2>2 DEF Body
    <3>2. Leads(x, <<"waitscan">>, At({"ptable"}, TRUE, "run", f), At({}, TRUE, "run", f))
      BY <1>2, <1>3, LeadsWait
    <3> QED
      BY <1>4, <3>1, <3>2, OpsKnown, Path2 DEF wait
  <2>3. CASE call = "uptime"
    <3>1. s = sys_uptime
      BY <2>3 DEF Body
    <3> QED
      BY <1>6, <1>7, <3>1, OpsKnown, Path2 DEF sys_uptime
  <2>4. CASE call = "sleep"
    <3>1. PICK n \in SleepArgs : s = sys_sleep(n)
      BY <2>4 DEF Body
    <3>2. n \in Int
      BY DEF SmpAssumption
    <3>3. Leads(x, <<"ticks0", n>>, At({"ticks"}, TRUE, "run", f), At({"ticks"}, TRUE, "run", f))
      BY <1>2, <1>3, LeadsTicks0
    <3>4. Leads(x, <<"sleeploop">>, At({"ticks"}, TRUE, "run", f), At({}, TRUE, "run", f))
      BY <1>2, <1>3, LeadsLoop
    <3> QED
      BY <1>6, <3>1, <3>2, <3>3, <3>4, OpsKnown, Path3 DEF sys_sleep
  <2>5. CASE call = "kill"
    <3>1. PICK q \in Procs \ {1} : s = kill(q)
      BY <2>5 DEF Body
    <3>2. q \in Int
      BY Names
    <3>3. Leads(x, <<"kill", q>>, At({"ptable"}, TRUE, "run", f), At({"ptable"}, TRUE, "run", f))
      BY <1>2, <1>3, LeadsKill
    <3> QED
      BY <1>4, <1>5, <3>1, <3>2, <3>3, OpsKnown, Path3 DEF kill
  <2>6. CASE call \notin {"fork", "wait", "uptime", "sleep", "kill"}
    BY <2>6 DEF Body
  <2> QED
    BY <2>1, <2>2, <2>3, <2>4, <2>5, <2>6
<1>9. Leads(x, <<"sysret">>, At({}, TRUE, "run", f), At({}, TRUE, "run", f))
  BY <1>1, <1>2, <1>3, LeadsSysret
<1>10. /\ << <<"sysret">> >> \in Seq(Ops)
       /\ Path(x, << <<"sysret">> >>, At({}, TRUE, "run", f), At({}, TRUE, "run", f))
  BY <1>9, OpsKnown, Path1
<1>11. UserMode = At({}, TRUE, "run", f) /\ Final(UserMode)
  BY <1>1 DEF UserMode, Final
<1> QED
  BY <1>8, <1>10, <1>11, PathConcat DEF Typed
----------------------------------------------------------------------------
(* Traps and system calls, step by step.                                   *)

(* init is never killed, so it never exits.                                *)
LEMMA NotInit ==
    ASSUME SmpAssumption, NEW M, Good(M), NEW c \in CPUs, Killed(c)
    PROVE  Thread(c) \in Procs \ {1} /\ cpu[c].proc # None
<1>1. Thread(c) \in Procs /\ cpu[c].proc # None
  BY ThreadFacts DEF Good, Killed
<1>2. ~proc[1].killed /\ proc[Thread(c)].killed
  BY DEF Good, Family, Killed
<1> QED
  BY <1>1, <1>2

(* A handler, or the end of a system call, checks whether its process has  *)
(* been killed.                                                            *)
LEMMA KillcheckStep ==
    ASSUME SmpAssumption, NEW M, Good(M), NEW c \in CPUs, killcheck(c)
    PROVE  SmpInv'
<1>1. PICK x, a, t, L, i, z, f, k : Executed(c, M, "killcheck", x, a, t, L, i, z, f, k)
  BY Execution DEF killcheck
<1>2. /\ L = {} /\ f \in Frames /\ f.h /\ f.nap = "no" /\ a[2] \in BOOLEAN
      /\ a[2] => x \in Procs /\ f.child = NoChild
      /\ f.base = "doomed" => a[2]
  BY <1>1 DEF Executed, LocksFor, FrameFor, At, FreeOps, LockOps
<1>3. ~f.due /\ ~i /\ i \in BOOLEAN
  BY <1>1, <1>2 DEF Executed, Consistent, At
<1>4. x = Thread(c) /\ Arg(c) = a[2] /\ f = M[x] /\ panic = ""
  BY <1>1 DEF Executed, killcheck, Executes
<1>5. CASE Killed(c) /\ Arg(c)
  <2>1. x \in Procs \ {1} /\ f.child = NoChild
    BY <1>2, <1>4, <1>5, NotInit
  <2>2. PICK g : g = [f EXCEPT !.base = "kernel"]
    OBVIOUS
  <2>3. /\ g \in Frames /\ g.base = "kernel" /\ g.h
        /\ g.child = f.child /\ g.due = f.due /\ g.nap = f.nap
    BY <1>2, <2>2 DEF Frames
  <2>4. Idle(g)
    BY <1>2, <1>3, <2>3 DEF Idle
  <2>5. exit \in Seq(Ops) /\ Typed(x, exit, At({}, i, "run", g))
    BY <1>3, <2>1, <2>3, <2>4, ExitTyped
  <2>6. /\ code' = [code EXCEPT ![x] = exit] /\ UNCHANGED <<cpu, lock, proc, ticks>>
        /\ panic' = ""
    BY <1>4, <1>5, <2>1 DEF killcheck, Ends
  <2>7. f.base # "sched"
    BY <1>1, <2>1 DEF Executed
  <2> QED
    BY <1>1, <1>2, <2>3, <2>5, <2>6, <2>7, CodeStep
<1>6. CASE ~(Killed(c) /\ Arg(c))
  <2>1. f.base # "doomed"
    <3>1. SUFFICES ASSUME f.base = "doomed" PROVE FALSE
      OBVIOUS
    <3>2. x \in Procs /\ a[2] /\ k.proc = x /\ k = cpu[c]
      BY <1>1, <1>2, <3>1 DEF Executed
    <3>3. proc[x].killed
      BY <1>4, <3>1, <3>2 DEF Good, Doomed
    <3>4. x # None
      BY <3>2, Names DEF Threads
    <3> QED
      BY <1>4, <1>6, <3>2, <3>3, <3>4 DEF Killed
  <2>2. After(a, At(L, i, z, f)) = At(L, i, "run", f)
    BY <1>1, <2>1 DEF Executed, After, At, LocksAfter, IntsAfter, StatusAfter, FrameAfter
  <2>3. GoesOn(c, <<>>)
    BY <1>6 DEF killcheck
  <2>4. code' = [code EXCEPT ![x] = t]
    BY <1>1, <2>3, GoesOnPlain
  <2>5. UNCHANGED <<cpu, lock, proc, ticks>> /\ panic' = ""
    BY <1>4, <1>6 DEF killcheck
  <2>6. t \in Seq(Ops) /\ Typed(x, t, At(L, i, "run", f))
    BY <1>1, <2>2 DEF Executed
  <2> QED
    BY <1>1, <1>2, <2>4, <2>5, <2>6, CodeStep
<1> QED
  BY <1>5, <1>6

(* The end of a system call.                                               *)
LEMMA SysretStep ==
    ASSUME SmpAssumption, NEW M, Good(M), NEW c \in CPUs, sysret(c)
    PROVE  SmpInv'
<1>1. PICK x, a, t, L, i, z, f, k : Executed(c, M, "sysret", x, a, t, L, i, z, f, k)
  BY Execution DEF sysret
<1>2. L = {} /\ f \in Frames /\ f = Frame("kernel")
  BY <1>1 DEF Executed, LocksFor, FrameFor, At, FreeOps
<1>3. f.base = "kernel" /\ ~f.h /\ ~f.due /\ f.nap = "no" /\ f.child = NoChild
  BY <1>2 DEF Frame
<1>4. i /\ i \in BOOLEAN
  BY <1>1, <1>3 DEF Executed, Consistent, At
<1>5. x = Thread(c) /\ panic = ""
  BY <1>1 DEF Executed, sysret, Executes
<1>6. CASE Killed(c)
  <2>1. x \in Procs \ {1}
    BY <1>5, <1>6, NotInit
  <2>2. exit \in Seq(Ops) /\ Typed(x, exit, At({}, i, "run", f))
    BY <1>2, <1>3, <1>4, <2>1, ExitTyped DEF Idle
  <2>3. /\ code' = [code EXCEPT ![x] = exit] /\ UNCHANGED <<cpu, lock, proc, ticks>>
        /\ panic' = ""
    BY <1>5, <1>6, <2>1 DEF sysret, Ends
  <2> QED
    BY <1>1, <1>2, <2>2, <2>3, CodeStep
<1>7. CASE ~Killed(c)
  <2>1. After(a, At(L, i, z, f)) = At(L, i, "run", f)
    BY <1>1 DEF Executed, After, At, LocksAfter, IntsAfter, StatusAfter, FrameAfter
  <2>2. GoesOn(c, <<>>)
    BY <1>7 DEF sysret
  <2>3. code' = [code EXCEPT ![x] = t]
    BY <1>1, <2>2, GoesOnPlain
  <2>4. UNCHANGED <<cpu, lock, proc, ticks>> /\ panic' = ""
    BY <1>5, <1>7 DEF sysret
  <2>5. t \in Seq(Ops) /\ Typed(x, t, At(L, i, "run", f))
    BY <1>1, <2>1 DEF Executed
  <2> QED
    BY <1>1, <1>2, <2>3, <2>4, <2>5, CodeStep
<1> QED
  BY <1>6, <1>7

(* The timer preempts a process that runs.                                 *)
LEMMA PreemptStep ==
    ASSUME SmpAssumption, NEW M, Good(M), NEW c \in CPUs, preempt(c)
    PROVE  SmpInv'
<1>1. PICK x, a, t, L, i, z, f, k : Executed(c, M, "preempt", x, a, t, L, i, z, f, k)
  BY Execution DEF preempt
<1>2. L = {} /\ f \in Frames /\ f.nap = "no"
  BY <1>1 DEF Executed, LocksFor, FrameFor, At, FreeOps, LockOps
<1>3. Idle(f) /\ Consistent(At(L, i, "run", f))
  BY <1>1, <1>2 DEF Executed, Consistent, At, Idle
<1>4. After(a, At(L, i, z, f)) = At(L, i, "run", f)
  BY <1>1 DEF Executed, After, At, LocksAfter, IntsAfter, StatusAfter, FrameAfter
<1>5. t \in Seq(Ops) /\ Typed(x, t, At(L, i, "run", f))
  BY <1>1, <1>4 DEF Executed
<1>6. UNCHANGED <<cpu, lock, proc, ticks>> /\ panic' = ""
  BY DEF preempt, Executes
<1>7. x = Thread(c) /\ t = Tail(code[x])
  BY <1>1 DEF Executed
<1>8. CASE cpu[c].proc # None /\ proc[Thread(c)].st = "RUNNING" /\ Arg(c) = "timer"
  <2>1. x \in Procs /\ f.base # "sched"
    BY <1>1, <1>8 DEF Executed
  <2>2. yield \in Seq(Ops) /\ Path(x, yield, At(L, i, "run", f), At(L, i, "run", f))
    BY <1>2, <1>3, <2>1, YieldPath
  <2>3. yield \o t \in Seq(Ops) /\ Typed(x, yield \o t, At(L, i, "run", f))
    BY <1>5, <2>2, TypedConcat
  <2>4. code' = [code EXCEPT ![x] = yield \o t]
    BY <1>7, <1>8 DEF preempt, GoesOn
  <2> QED
    BY <1>1, <1>2, <1>6, <2>3, <2>4, CodeStep
<1>9. CASE ~(cpu[c].proc # None /\ proc[Thread(c)].st = "RUNNING" /\ Arg(c) = "timer")
  <2>1. GoesOn(c, <<>>)
    BY <1>9 DEF preempt
  <2>2. code' = [code EXCEPT ![x] = t]
    BY <1>1, <2>1, GoesOnPlain
  <2> QED
    BY <1>1, <1>2, <1>5, <1>6, <2>2, CodeStep
<1> QED
  BY <1>8, <1>9

(* User code runs with interrupts on and without locks.                    *)
UserMachine(c, M, x, k) ==
    /\ x = Thread(c) /\ x \in Procs /\ code[x] = <<>> /\ M[x] = Frame("kernel")
    /\ Held(c) = {} /\ Status(c) = "run" /\ proc[x].st = "RUNNING"
    /\ k = cpu[c] /\ k \in CpuRecs /\ k.proc = x /\ k.ncli = 0 /\ k.ie = TRUE

(* It does so on every processor in user code.                             *)
LEMMA UserContext ==
    ASSUME SmpAssumption, NEW M, Good(M), NEW c \in CPUs, InUser(c)
    PROVE  \E x, k : UserMachine(c, M, x, k)
<1>1. PICK x, s, L, i, z, f, k : Context(c, M, x, s, L, i, z, f, k)
  BY ContextExists
<1>2. s = <<>> /\ ~Spinning(s)
  BY <1>1 DEF InUser, Context, Spinning
<1>3. Final(At(L, i, z, f))
  BY <1>1, <1>2, TypedEmpty DEF Context
<1>4. At(L, i, z, f).st # "gone"
  BY <1>1 DEF Context, At
<1>5. L = {} /\ i = TRUE /\ z = "run" /\ f = Frame("kernel")
  BY <1>3, <1>4 DEF Final, UserMode, At
<1>6. /\ x = Thread(c) /\ s = code[x] /\ L = Held(c) /\ f = M[x] /\ k = cpu[c] /\ k \in CpuRecs
      /\ i = (IF k.ncli = 0 THEN k.ie ELSE k.intena) /\ z = Spun(Status(c), s)
      /\ k.ncli = Depth(L) + (IF Spinning(s) THEN 1 ELSE 0)
  BY <1>1 DEF Context
<1>7. k.ncli = 0
  BY <1>2, <1>5, <1>6 DEF Depth
<1>8. x \in Procs /\ k.proc = x /\ z = Spun(Condition(proc[x].st), s)
  BY <1>1 DEF Context, InUser
<1>9. Status(c) = "run" /\ proc[x].st = "RUNNING"
  BY <1>2, <1>5, <1>6, <1>8 DEF Spun, Condition
<1>10. k.ie = TRUE
  BY <1>5, <1>6, <1>7
<1>11. UserMachine(c, M, x, k)
  BY <1>2, <1>5, <1>6, <1>7, <1>8, <1>9, <1>10 DEF UserMachine
<1> QED
  BY <1>11

(* A system call begins.                                                   *)
LEMMA SyscallStep ==
    ASSUME SmpAssumption, NEW M, Good(M), NEW c \in CPUs, syscall(c)
    PROVE  SmpInv'
<1>0. PICK x, k : UserMachine(c, M, x, k)
  BY UserContext DEF syscall
<1>1. /\ x = Thread(c) /\ x \in Procs /\ code[x] = <<>> /\ M[x] = Frame("kernel")
      /\ Held(c) = {} /\ Status(c) = "run" /\ proc[x].st = "RUNNING"
      /\ k = cpu[c] /\ k \in CpuRecs /\ k.proc = x /\ k.ncli = 0 /\ k.ie = TRUE
  BY <1>0 DEF UserMachine
<1>2. PICK call, s : s \in Body(call) /\ code' = [code EXCEPT ![x] = s \o << <<"sysret">> >>]
  BY <1>1 DEF syscall
<1>3. PICK r : r = s \o << <<"sysret">> >>
  OBVIOUS
<1>4. r \in Seq(Ops) /\ Typed(x, r, UserMode) /\ code' = [code EXCEPT ![x] = r]
  BY <1>1, <1>2, <1>3, CallTyped
<1>5. PICK f : f = Frame("kernel")
  OBVIOUS
<1>6. f \in Frames
  BY <1>5 DEF Frame, Frames
<1>7. Typed(x, r, At({}, TRUE, "run", f))
  BY <1>4, <1>5 DEF UserMode
<1>8. panic' = "" /\ proc' = proc /\ ticks' = ticks /\ lock' = lock /\ cpu' = cpu
  BY DEF syscall, InUser
<1>9. cpu' = [cpu EXCEPT ![c] = k]
  BY <1>1, <1>8 DEF Good, Types
<1>10. TRUE = (IF k.ncli = 0 THEN k.ie ELSE k.intena) /\ k.ncli = Depth({})
  BY <1>1 DEF Depth
<1>11. f = M[x] /\ {} = Held(c) /\ k.proc = cpu[c].proc
  BY <1>1, <1>5
<1> QED
  BY <1>1, <1>4, <1>6, <1>7, <1>8, <1>9, <1>10, <1>11, LocalStep

(* A process exits, or is killed, and never returns.                       *)
LEMMA SysExitStep ==
    ASSUME SmpAssumption, NEW M, Good(M), NEW c \in CPUs, sys_exit(c)
    PROVE  SmpInv'
<1>0. PICK x, k : UserMachine(c, M, x, k)
  BY UserContext DEF sys_exit
<1>1. /\ x = Thread(c) /\ x \in Procs /\ code[x] = <<>> /\ M[x] = Frame("kernel")
      /\ Held(c) = {} /\ Status(c) = "run" /\ proc[x].st = "RUNNING"
      /\ k = cpu[c] /\ k \in CpuRecs /\ k.proc = x /\ k.ncli = 0 /\ k.ie = TRUE
  BY <1>0 DEF UserMachine
<1>2. x \in Procs \ {1}
  BY <1>1, NotInit DEF sys_exit
<1>3. PICK f : f = Frame("kernel")
  OBVIOUS
<1>4. Idle(f) /\ f.base = "kernel" /\ f.child = NoChild /\ ~f.h /\ f \in Frames
  BY <1>3 DEF Frame, Frames, Idle
<1>5. exit \in Seq(Ops) /\ Typed(x, exit, At({}, TRUE, "run", f))
  BY <1>2, <1>4, ExitTyped
<1>6. /\ panic' = "" /\ proc' = proc /\ ticks' = ticks /\ lock' = lock /\ cpu' = cpu
      /\ code' = [code EXCEPT ![x] = exit]
  BY <1>1, <1>2 DEF sys_exit, InUser, Ends
<1>7. cpu' = [cpu EXCEPT ![c] = k]
  BY <1>1, <1>6 DEF Good, Types
<1>8. TRUE = (IF k.ncli = 0 THEN k.ie ELSE k.intena) /\ k.ncli = Depth({})
  BY <1>1 DEF Depth
<1>9. f = M[x] /\ {} = Held(c) /\ k.proc = cpu[c].proc
  BY <1>1, <1>3
<1> QED
  BY <1>1, <1>4, <1>5, <1>6, <1>7, <1>8, <1>9, LocalStep

(* Interrupts are on only where a thread has no lock and is in no handler. *)
OpenMachine(c, M, x, s, f, k) ==
    /\ x = Thread(c) /\ x \in Threads /\ s = code[x] /\ s \in Seq(Ops)
    /\ f = M[x] /\ Idle(f) /\ ~f.h /\ f.base # "doomed"
    /\ Held(c) = {} /\ Status(c) = "run" /\ Typed(x, s, At({}, TRUE, "run", f))
    /\ k = cpu[c] /\ k \in CpuRecs /\ k.ncli = 0 /\ k.ie = TRUE

(* It is so wherever they are on.                                          *)
LEMMA OpenContext ==
    ASSUME SmpAssumption, NEW M, Good(M), NEW c \in CPUs, cpu[c].ie
    PROVE  \E x, s, f, k : OpenMachine(c, M, x, s, f, k)
<1>1. PICK x, s, L, i, z, f, k : Context(c, M, x, s, L, i, z, f, k)
  BY ContextExists
<1>2. /\ x = Thread(c) /\ x \in Threads /\ s = code[x] /\ s \in Seq(Ops) /\ L = Held(c)
      /\ L \subseteq Locks /\ f = M[x] /\ f \in Frames /\ k = cpu[c] /\ k \in CpuRecs
      /\ Typed(x, s, At(L, i, z, f)) /\ z = Spun(Status(c), s)
      /\ k.ncli = Depth(L) + (IF Spinning(s) THEN 1 ELSE 0)
      /\ (k.ie => k.ncli = 0) /\ i = (IF k.ncli = 0 THEN k.ie ELSE k.intena)
      /\ z \in {"run", "spin", "off", "dead", "none"}
  BY <1>1 DEF Context
<1>3. k.ncli = 0 /\ k.ie = TRUE /\ i = TRUE
  <2>1. k.ie \in BOOLEAN /\ k.ie
    BY <1>2, CpuFields
  <2> QED
    BY <1>2, <2>1
<1>4. Depth(L) \in 0..2
  BY <1>2, DepthChanges DEF Locks
<1>5. ~Spinning(s) /\ Depth(L) = 0
  BY <1>2, <1>3, <1>4
<1>6. L = {}
  BY <1>2, <1>5, DepthChanges DEF Locks
<1>7. z = Status(c)
  BY <1>2, <1>5 DEF Spun
<1>8. z = "run" /\ Idle(f) /\ ~f.h /\ f.base # "doomed"
  <2>1. CASE s = <<>>
    <3>1. Final(At(L, i, z, f))
      BY <1>2, <2>1, TypedEmpty
    <3>2. At(L, i, z, f).st # "gone"
      BY <1>2 DEF At
    <3>3. z = "run" /\ f = Frame("kernel")
      BY <3>1, <3>2 DEF Final, UserMode, At
    <3> QED
      BY <1>2, <3>3 DEF Idle, Frame
  <2>2. CASE s # <<>>
    <3>1. Needs(x, Head(s), At(L, i, z, f))
      BY <1>2, <2>2, TypedHead
    <3>2. Head(s)[1] # "xchg"
      BY <1>5, <2>2 DEF Spinning
    <3>3. Head(s)[1] # "sched" /\ Head(s)[1] # "intena"
      BY <1>6, <3>1 DEF Needs, LocksFor, At, TableOps
    <3>4. z = "run" /\ Consistent(At(L, i, z, f))
      BY <3>1, <3>2, <3>3 DEF Needs, At
    <3> QED
      BY <1>2, <1>3, <1>6, <3>4 DEF Consistent, At, Idle
  <2> QED
    BY <2>1, <2>2
<1>9. OpenMachine(c, M, x, s, f, k)
  BY <1>2, <1>3, <1>6, <1>7, <1>8 DEF OpenMachine
<1> QED
  BY <1>9

(* An interrupt arrives.                                                   *)
LEMMA InterruptStep ==
    ASSUME SmpAssumption, NEW M, Good(M), NEW c \in CPUs, interrupt(c)
    PROVE  SmpInv'
<1>0. PICK x, s, f, k : OpenMachine(c, M, x, s, f, k)
  BY OpenContext DEF interrupt
<1>1. /\ x = Thread(c) /\ x \in Threads /\ s = code[x] /\ s \in Seq(Ops)
      /\ f = M[x] /\ Idle(f) /\ ~f.h /\ f.base # "doomed"
      /\ Held(c) = {} /\ Status(c) = "run" /\ Typed(x, s, At({}, TRUE, "run", f))
      /\ k = cpu[c] /\ k \in CpuRecs /\ k.ncli = 0 /\ k.ie = TRUE
  BY <1>0 DEF OpenMachine
<1>2. PICK user \in BOOLEAN : user = InUser(c)
  BY DEF InUser
<1>3. PICK kind \in Interrupts :
         code' = [code EXCEPT ![Thread(c)] = Handler(c, kind, InUser(c)) \o @]
  BY DEF interrupt
<1>4. kind \in {"timer", "device"}
  BY DEF SmpAssumption
<1>5. user => x \in Procs /\ f.child = NoChild
  <2>1. SUFFICES ASSUME InUser(c) PROVE x \in Procs /\ f.child = NoChild
    BY <1>2
  <2>2. PICK y, j : UserMachine(c, M, y, j)
    BY <2>1, UserContext
  <2>3. x \in Procs /\ M[x] = Frame("kernel")
    BY <1>1, <2>2 DEF UserMachine
  <2> QED
    BY <1>1, <2>3 DEF Frame
<1>6. PICK g : g = [f EXCEPT !.h = TRUE]
  OBVIOUS
<1>7. /\ g \in Frames /\ g.h /\ g.base = f.base /\ g.child = f.child /\ g.due = f.due
      /\ g.nap = f.nap /\ f = [g EXCEPT !.h = FALSE]
  BY <1>1, <1>6 DEF Idle, Frames
<1>8. Idle(g)
  BY <1>1, <1>7 DEF Idle
<1>9. PICK w : w = Handler(c, kind, user)
  OBVIOUS
<1>10. w \in Seq(Ops) /\ Path(x, w, At({}, FALSE, "run", g), At({}, TRUE, "run", f))
  BY <1>1, <1>4, <1>5, <1>7, <1>8, <1>9, HandlerPath
<1>11. PICK r : r = w \o s
  OBVIOUS
<1>12. r \in Seq(Ops) /\ Typed(x, r, At({}, FALSE, "run", g))
  BY <1>1, <1>10, <1>11, TypedConcat
<1>13. code' = [code EXCEPT ![x] = r]
  BY <1>1, <1>2, <1>3, <1>9, <1>11
<1>14. PICK kk : kk = [k EXCEPT !.ie = FALSE]
  OBVIOUS
<1>15. kk \in CpuRecs /\ kk.ncli = 0 /\ kk.proc = cpu[c].proc /\ kk.ie = FALSE
  BY <1>1, <1>14 DEF CpuRecs
<1>16. cpu' = [cpu EXCEPT ![c] = kk]
  BY <1>1, <1>14 DEF interrupt
<1>17. panic' = "" /\ proc' = proc /\ ticks' = ticks /\ lock' = lock
  BY DEF interrupt
<1>18. FALSE = (IF kk.ncli = 0 THEN kk.ie ELSE kk.intena) /\ kk.ncli = Depth({})
  BY <1>15 DEF Depth
<1>19. /\ g.child = M[x].child /\ g.due = M[x].due /\ g.nap = M[x].nap
       /\ g.base = "sched" <=> M[x].base = "sched"
       /\ g.base = "doomed" => M[x].base = "doomed"
       /\ {} = Held(c) /\ x = Thread(c) /\ Status(c) = "run" /\ g \in Frames
  BY <1>1, <1>7
<1> QED
  BY <1>12, <1>13, <1>15, <1>16, <1>17, <1>18, <1>19, LocalStep
----------------------------------------------------------------------------
(* The process table.                                                      *)

(* What the invariant needs besides the machine.                           *)
Table(M) == Children(M) /\ Doomed(M) /\ Family /\ Sleepers(M)

(* A processor keeps its thread and its locks.                             *)
Stays(c, x, k, L, i) ==
    /\ x = Thread(c) /\ k \in CpuRecs /\ cpu' = [cpu EXCEPT ![c] = k] /\ k.proc = cpu[c].proc
    /\ lock' = lock /\ L = Held(c) /\ k.ncli = Depth(L) /\ (k.ie => k.ncli = 0)
    /\ i = (IF k.ncli = 0 THEN k.ie ELSE k.intena)

(* The other threads keep their code, or can start with what they get.     *)
Others(x, M, N) ==
    \A y \in Threads \ {x} : \/ Untouched(y, M, N)
                             \/ y \in Procs /\ ~OnCpu(y) /\ ProcGood(y, N)'

(* A step that may change the table, and leaves its thread on its          *)
(* processor with code s in frame N[x].                                    *)
LEMMA TableStep ==
    ASSUME SmpAssumption, NEW M, Good(M), NEW c \in CPUs, NEW x, NEW k, NEW L, NEW i,
           Stays(c, x, k, L, i),
           panic' = "", ticks' \in 0 .. W - 1, proc' \in [Procs -> ProcRecs],
           NEW s, code' \in [Threads -> Seq(Ops)], code'[x] = s,
           NEW N, N \in [Threads -> Frames],
           N[x].base = "sched" <=> M[x].base = "sched",
           Others(x, M, N),
           NEW z, z # "spin", z = (IF x \in Procs THEN Condition(proc'[x].st) ELSE "run"),
           Typed(x, s, At(L, i, z, N[x])),
           Table(N)'
    PROVE  SmpInv'
<1>0. /\ x = Thread(c) /\ k \in CpuRecs /\ cpu' = [cpu EXCEPT ![c] = k] /\ k.proc = cpu[c].proc
      /\ lock' = lock /\ L = Held(c) /\ k.ncli = Depth(L) /\ (k.ie => k.ncli = 0)
      /\ i = (IF k.ncli = 0 THEN k.ie ELSE k.intena)
  BY DEF Stays
<1>1. Types(M) /\ Machine(M)
  BY DEF Good
<1>2. x \in Threads
  BY <1>0, <1>1, ThreadFacts
<1>3. s \in Seq(Ops)
  BY <1>2
<1>4. Types(N)'
  <2>1. cpu' \in [CPUs -> CpuRecs]
    BY <1>0, <1>1 DEF Types
  <2> QED
    BY <1>0, <1>1, <2>1 DEF Types
<1>5. ~Spinning(s)
  <2>1. At(L, i, z, N[x]).st # "spin"
    BY DEF At
  <2> QED
    BY <1>3, <2>1, NoSpin
<1>6. Status(c)' = z
  <2>1. cpu'[c].proc = cpu[c].proc
    BY <1>0, <1>1 DEF Types
  <2>2. CASE cpu[c].proc = None
    <3>1. x \notin Procs
      <4>1. cpu[c].proc = None => Thread(c) = c /\ c \notin Procs
        BY <1>1, ThreadFacts
      <4> QED
        BY <1>0, <2>2, <4>1
    <3> QED
      BY <2>1, <2>2, <3>1 DEF Status
  <2>3. CASE cpu[c].proc # None
    <3>1. x \in Procs /\ cpu'[c].proc = x /\ cpu'[c].proc # None
      BY <1>0, <1>1, <2>1, <2>3, ThreadFacts
    <3>2. Status(c)' = Condition(proc'[cpu'[c].proc].st)
      BY <3>1 DEF Status
    <3> QED
      BY <3>1, <3>2
  <2> QED
    BY <2>2, <2>3
<1>7. \A d \in CPUs : Held(d)' = Held(d)
  BY <1>0 DEF Held
<1>8. PICK g : g = N[x]
  OBVIOUS
<1>9. /\ code'[Thread(c)] = s /\ N[Thread(c)] = g
      /\ \A y \in Threads \ {Thread(c)} :
            \/ Untouched(y, M, N)
            \/ y \in Procs /\ ~OnCpu(y) /\ ProcGood(y, N)'
      /\ g.base = "sched" <=> M[Thread(c)].base = "sched"
  BY <1>0, <1>8 DEF Others
<1>10. Typed(Thread(c), s, At(Held(c)', IF k.ncli = 0 THEN k.ie ELSE k.intena,
                              Spun(Status(c)', s), g))
  BY <1>0, <1>5, <1>6, <1>7, <1>8 DEF Spun
<1>11. k.ncli = Depth(Held(c)') + (IF Spinning(s) THEN 1 ELSE 0)
  <2>1. (IF Spinning(s) THEN 1 ELSE 0) = 0
    BY <1>5
  <2>2. k.ncli = k.ncli + 0
    BY <1>0, CpuFields, AddZero
  <2> QED
    BY <1>0, <1>7, <2>1, <2>2
<1>12. Machine(N)'
  BY <1>0, <1>1, <1>7, <1>9, <1>10, <1>11, InPlace
<1> QED
  BY <1>4, <1>12 DEF Good, SmpInv, Table

(* A process on a processor has run.                                       *)
LEMMA OnCpuLives ==
    ASSUME SmpAssumption, NEW M, Good(M), NEW d \in CPUs, cpu[d].proc # None
    PROVE  proc[cpu[d].proc].st \in {"RUNNING", "RUNNABLE", "SLEEPING", "ZOMBIE"}
<1>1. PICK x, s, L, i, z, f, k : Context(d, M, x, s, L, i, z, f, k)
  BY ContextExists
<1>2. /\ x = cpu[d].proc /\ s \in Seq(Ops) /\ Typed(x, s, At(L, i, z, f))
      /\ z = Spun(Condition(proc[x].st), s) /\ z \in {"run", "spin", "off", "dead", "none"}
  BY <1>1 DEF Context
<1>3. z # "none"
  <2>1. CASE s = <<>>
    <3>1. Final(At(L, i, z, f))
      BY <1>2, <2>1, TypedEmpty
    <3> QED
      BY <3>1 DEF Final, UserMode, At
  <2>2. CASE s # <<>>
    <3>1. Needs(x, Head(s), At(L, i, z, f))
      BY <1>2, <2>2, TypedHead
    <3> QED
      BY <3>1 DEF Needs, At
  <2> QED
    BY <2>1, <2>2
<1>4. Condition(proc[x].st) # "none"
  BY <1>2, <1>3 DEF Spun
<1> QED
  BY <1>2, <1>4 DEF Condition

(* A thread that has decided to sleep is on a processor and has a lock,    *)
(* and so is a process that has exited and not yet left its processor.     *)
LEMMA Undecided ==
    ASSUME SmpAssumption, NEW M, Good(M), NEW p \in Procs
    PROVE  /\ M[p].nap # "no" => \E d \in CPUs : /\ cpu[d].proc = p /\ Held(d) # {}
                                                 /\ M[p].nap = "wait" => "ptable" \in Held(d)
           /\ proc[p].st = "ZOMBIE" => \/ ~OnCpu(p)
                                       \/ \E d \in CPUs : cpu[d].proc = p /\ "ptable" \in Held(d)
<1>1. ASSUME NEW d \in CPUs, cpu[d].proc = p
      PROVE  /\ M[p].nap # "no" => Held(d) # {}
             /\ M[p].nap = "wait" => "ptable" \in Held(d)
             /\ proc[p].st = "ZOMBIE" => "ptable" \in Held(d)
  <2>1. PICK x, s, L, i, z, f, k : Context(d, M, x, s, L, i, z, f, k)
    BY ContextExists
  <2>2. p # None
    BY Names DEF Threads
  <2>3. /\ x = p /\ s \in Seq(Ops) /\ Typed(x, s, At(L, i, z, f)) /\ f = M[p] /\ L = Held(d)
        /\ z = Spun(Condition(proc[x].st), s) /\ z \in {"run", "spin", "off", "dead", "none"}
    BY <1>1, <2>1, <2>2 DEF Context
  <2>4. proc[p].st = "ZOMBIE" => z = "dead"
    BY <2>3 DEF Spun, Condition
  <2>5. CASE s = <<>>
    <3>1. Final(At(L, i, z, f))
      BY <2>3, <2>5, TypedEmpty
    <3>2. z = "run" /\ f = Frame("kernel")
      BY <2>3, <3>1 DEF Final, UserMode, At
    <3> QED
      BY <2>3, <2>4, <3>2 DEF Frame
  <2>6. CASE s # <<>>
    <3>1. Needs(x, Head(s), At(L, i, z, f))
      BY <2>3, <2>6, TypedHead
    <3>2. CASE Head(s)[1] = "intena"
      BY <2>3, <2>4, <3>1, <3>2 DEF Needs, FrameFor, At
    <3>3. CASE Head(s)[1] # "intena"
      BY <2>3, <2>4, <3>1, <3>3 DEF Needs, Consistent, At
    <3> QED
      BY <3>2, <3>3
  <2> QED
    BY <2>5, <2>6
<1>2. M[p].nap # "no" => OnCpu(p)
  <2>1. SUFFICES ASSUME ~OnCpu(p) PROVE M[p].nap = "no"
    OBVIOUS
  <2>2. ProcGood(p, M)
    BY <2>1 DEF Good, Machine
  <2> QED
    BY <2>2 DEF ProcGood, Frame
<1> QED
  BY <1>1, <1>2 DEF OnCpu

(* A thread gets a new frame.                                              *)
NewFrame(N, M, x, g) ==
    /\ N \in [Threads -> Frames] /\ N[x] = g
    /\ \A y \in Threads \ {x} : N[y] = M[y]

(* It can get any frame.                                                   *)
LEMMA NewFrameExists ==
    ASSUME NEW M, Good(M), NEW x \in Threads, NEW g \in Frames
    PROVE  \E N : NewFrame(N, M, x, g)
<1>1. PICK N : N = [M EXCEPT ![x] = g]
  OBVIOUS
<1>2. NewFrame(N, M, x, g)
  BY <1>1 DEF Good, Types, NewFrame
<1> QED
  BY <1>2

(* The same for an operation, which changes its own code and frame only.   *)
LEMMA TableOp ==
    ASSUME SmpAssumption, NEW M, Good(M), NEW c \in CPUs, NEW op, NEW x, NEW a, NEW t, NEW L,
           NEW i, NEW z, NEW f, NEW k, Executed(c, M, op, x, a, t, L, i, z, f, k),
           panic' = "", cpu' = cpu, lock' = lock, ticks' \in 0 .. W - 1,
           proc' \in [Procs -> ProcRecs],
           NEW s \in Seq(Ops), code' = [code EXCEPT ![x] = s],
           NEW g \in Frames, g.base = f.base, NEW N, NewFrame(N, M, x, g),
           \A p \in Procs \ {x} : \/ Condition(proc'[p].st) = Condition(proc[p].st)
                                  \/ ~OnCpu(p) /\ ProcGood(p, N)',
           NEW zz, zz # "spin", zz = (IF x \in Procs THEN Condition(proc'[x].st) ELSE "run"),
           Typed(x, s, At(L, i, zz, g)),
           Table(N)'
    PROVE  SmpInv'
<1>1. /\ x = Thread(c) /\ x \in Threads /\ f = M[x] /\ L = Held(c) /\ k = cpu[c] /\ k \in CpuRecs
      /\ k.ncli = Depth(L) /\ (k.ie => k.ncli = 0) /\ k.proc = cpu[c].proc
  BY DEF Executed
<1>2. i = IF k.ncli = 0 THEN k.ie ELSE k.intena
  BY DEF Executed
<1>3. cpu' = [cpu EXCEPT ![c] = k]
  BY <1>1 DEF Good, Types
<1>4. /\ code' \in [Threads -> Seq(Ops)] /\ code'[x] = s
      /\ \A y \in Threads \ {x} : code'[y] = code[y]
  BY <1>1 DEF Good, Types
<1>5. /\ N \in [Threads -> Frames] /\ N[x] = g
      /\ \A y \in Threads \ {x} : N[y] = M[y]
  BY DEF NewFrame
<1>6. Others(x, M, N)
  BY <1>4, <1>5 DEF Untouched, Others
<1>7. /\ N[x].base = "sched" <=> M[x].base = "sched"
      /\ Typed(x, s, At(L, i, zz, N[x]))
  BY <1>1, <1>5
<1>8. Stays(c, x, k, L, i)
  BY <1>1, <1>2, <1>3 DEF Stays
<1>9. code' \in [Threads -> Seq(Ops)] /\ code'[x] = s /\ N \in [Threads -> Frames]
  BY <1>4, <1>5
<1> QED
  BY <1>6, <1>7, <1>8, <1>9, TableStep

(* The slots that are being filled do not change.                          *)
LEMMA ChildrenKept ==
    ASSUME NEW M, NEW N, Good(M),
           \A y \in Threads : N[y].child = M[y].child,
           \A q \in Procs : proc[q].st = "EMBRYO" => proc'[q].st = "EMBRYO" /\ code'[q] = code[q]
    PROVE  Children(N)'
<1>1. Children(M) /\ M \in [Threads -> Frames]
  BY DEF Good, Types
<1>2. ASSUME NEW y \in Threads, N[y].child # NoChild
      PROVE  /\ proc'[N[y].child[2]].st = "EMBRYO"
             /\ N[y].child[1] = "start" => code'[N[y].child[2]] = forkret
  <2>1. PICK q \in Procs : q = M[y].child[2]
    BY <1>1, <1>2 DEF Frames
  <2>2. /\ proc[q].st = "EMBRYO"
        /\ M[y].child[1] = "start" => code[q] = forkret
    BY <1>1, <1>2, <2>1 DEF Children
  <2> QED
    BY <2>1, <2>2
<1>3. ASSUME NEW y \in Threads, NEW v \in Threads, y # v, N[y].child # NoChild
      PROVE  N[y].child[2] # N[v].child[2]
  <2>1. N[y].child = M[y].child /\ N[v].child = M[v].child
    OBVIOUS
  <2>2. M[y].child[2] # M[v].child[2]
    BY <1>1, <1>3, <2>1 DEF Children
  <2> QED
    BY <2>1, <2>2
<1> QED
  BY <1>2, <1>3 DEF Children

(* Killed processes stay killed.                                           *)
LEMMA DoomedKept ==
    ASSUME NEW M, NEW N, Good(M),
           \A p \in Procs : N[p].base = "doomed" => M[p].base = "doomed",
           \A p \in Procs : proc[p].killed => proc'[p].killed
    PROVE  Doomed(N)'
BY DEF Good, Doomed

(* Nobody new sleeps, no wakeup that is owed is forgotten, and nobody who  *)
(* waits has a child that has exited.                                      *)
LEMMA SleepersKept ==
    ASSUME NEW M, NEW N, Good(M),
           \A p \in Procs : TickSleeper(p, N)' /\ Late(p)' => TickSleeper(p, M) /\ Late(p),
           \A y \in Threads : M[y].due => N[y].due,
           \A p \in Procs : Waiter(p, N)' => Waiter(p, M),
           \A p \in Procs : Waiter(p, N)' /\ Childless(p) => Childless(p)'
    PROVE  Sleepers(N)'
BY DEF Good, Sleepers

(* The records of the processes after a wakeup.                            *)
LEMMA WakeFacts ==
    ASSUME NEW u, u \in [Procs -> ProcRecs], NEW S, NEW v, v = Wake(u, S)
    PROVE  /\ v \in [Procs -> ProcRecs]
           /\ \A p \in Procs :
                /\ v[p].st = (IF p \in S THEN "RUNNABLE" ELSE u[p].st)
                /\ v[p].chan = u[p].chan /\ v[p].killed = u[p].killed
                /\ v[p].parent = u[p].parent /\ v[p].n = u[p].n /\ v[p].t0 = u[p].t0
<1>1. ASSUME NEW p \in Procs
      PROVE  /\ v[p] \in ProcRecs
             /\ v[p].st = (IF p \in S THEN "RUNNABLE" ELSE u[p].st)
             /\ v[p].chan = u[p].chan /\ v[p].killed = u[p].killed
             /\ v[p].parent = u[p].parent /\ v[p].n = u[p].n /\ v[p].t0 = u[p].t0
  <2>1. PICK r : r = u[p]
    OBVIOUS
  <2>2. r \in ProcRecs
    BY <2>1
  <2>3. v[p] = IF p \in S THEN [r EXCEPT !.st = "RUNNABLE"] ELSE r
    BY <2>1 DEF Wake
  <2> QED
    BY <2>1, <2>2, <2>3 DEF ProcRecs, States
<1>2. v \in [Procs -> ProcRecs]
  BY <1>1 DEF Wake
<1> QED
  BY <1>1, <1>2

(* A thread goes on with more code before the rest.                        *)
LEMMA GoesOnWith ==
    ASSUME NEW c, NEW M, NEW op, NEW x, NEW a, NEW t, NEW L, NEW i, NEW z, NEW f, NEW k,
           Executed(c, M, op, x, a, t, L, i, z, f, k), NEW s, GoesOn(c, s)
    PROVE  code' = [code EXCEPT ![x] = s \o t]
BY DEF GoesOn, Executed

(* The records of the processes have their types.                          *)
LEMMA ProcFields ==
    ASSUME NEW M, Good(M), NEW p \in Procs
    PROVE  /\ proc \in [Procs -> ProcRecs] /\ proc[p] \in ProcRecs
           /\ proc[p].st \in States /\ proc[p].killed \in BOOLEAN
           /\ proc[p].chan \in Procs \cup {None, Ticks} /\ proc[p].parent \in Procs \cup {None}
<1>1. proc \in [Procs -> ProcRecs] /\ proc[p] \in ProcRecs
  BY DEF Good, Types
<1> QED
  BY <1>1 DEF ProcRecs

(* A lock that one processor has, no other has.                            *)
LEMMA OneHolder ==
    ASSUME NEW c, NEW d, NEW l, l \in Held(c), l \in Held(d)
    PROVE  c = d
BY DEF Held

(* A thread that is about to sleep until the ticks advance has a lock, so  *)
(* that the timer interrupt, which has both, wakes all who wait for it.    *)
LEMMA WakeupStep ==
    ASSUME SmpAssumption, NEW M, Good(M), NEW c \in CPUs, wakeup1(c)
    PROVE  SmpInv'
<1>1. PICK x, a, t, L, i, z, f, k : Executed(c, M, "wakeup1", x, a, t, L, i, z, f, k)
  BY Execution DEF wakeup1
<1>2. PICK ch : ch = a[2]
  OBVIOUS
<1>3. /\ "ptable" \in L /\ (ch = Ticks => "ticks" \in L) /\ (f.due <=> ch = Ticks)
      /\ f.nap = "no" /\ f \in Frames /\ z = "run" /\ L = Held(c) /\ L \subseteq Locks
      /\ x = Thread(c) /\ x \in Threads /\ f = M[x]
  <2>1. /\ a[1] = "wakeup1" /\ LocksFor(a, At(L, i, z, f)) /\ FrameFor(x, a, f)
        /\ f \in Frames /\ z = "run" /\ L = Held(c) /\ L \subseteq Locks
        /\ x = Thread(c) /\ x \in Threads /\ f = M[x]
    BY <1>1 DEF Executed
  <2>2. "ptable" \in L /\ (a[2] = Ticks => "ticks" \in L)
    BY <2>1 DEF LocksFor, At
  <2>3. f.nap = "no" /\ (f.due <=> a[2] = Ticks)
    BY <2>1 DEF FrameFor, LockOps
  <2> QED
    BY <1>2, <2>1, <2>2, <2>3
<1>4. PICK g : g = [f EXCEPT !.due = FALSE]
  OBVIOUS
<1>5. /\ g \in Frames /\ g.base = f.base /\ g.h = f.h /\ g.child = f.child /\ ~g.due
      /\ g.nap = "no"
  BY <1>3, <1>4 DEF Frames
<1>6. After(a, At(L, i, z, f)) = At(L, i, "run", g)
  BY <1>1, <1>4 DEF Executed, After, At, LocksAfter, IntsAfter, StatusAfter, FrameAfter
<1>7. PICK S, u : S = Woken(ch) /\ u = Wake(proc, S) /\ Locally(c, "wakeup1", u, <<>>)
  BY <1>1, <1>2 DEF wakeup1, Executed
<1>8. /\ panic' = "" /\ cpu' = cpu /\ lock' = lock /\ ticks' = ticks
      /\ proc' = u /\ code' = [code EXCEPT ![x] = t]
  <2>1. /\ panic' = "" /\ cpu' = cpu /\ lock' = lock /\ ticks' = ticks /\ proc' = u
        /\ GoesOn(c, <<>>)
    BY <1>7 DEF Locally, Executes
  <2>2. GoesOn(c, <<>>)
    BY <2>1
  <2>3. code' = [code EXCEPT ![x] = t]
    BY <1>1, <2>2, GoesOnPlain
  <2> QED
    BY <2>1, <2>3
<1>9. /\ u \in [Procs -> ProcRecs]
      /\ \A p \in Procs :
           /\ u[p].st = (IF p \in S THEN "RUNNABLE" ELSE proc[p].st)
           /\ u[p].chan = proc[p].chan /\ u[p].killed = proc[p].killed
           /\ u[p].parent = proc[p].parent /\ u[p].n = proc[p].n /\ u[p].t0 = proc[p].t0
  <2>1. proc \in [Procs -> ProcRecs]
    BY DEF Good, Types
  <2> QED
    BY <1>7, <2>1, WakeFacts
<1>10. /\ proc' \in [Procs -> ProcRecs]
       /\ \A p \in Procs :
            /\ proc'[p].st = (IF p \in Woken(ch) THEN "RUNNABLE" ELSE proc[p].st)
            /\ proc'[p].chan = proc[p].chan /\ proc'[p].killed = proc[p].killed
            /\ proc'[p].parent = proc[p].parent /\ proc'[p].n = proc[p].n /\ proc'[p].t0 = proc[p].t0
  BY <1>7, <1>8, <1>9
<1>11. \A p \in Procs : p \in Woken(ch) <=> proc[p].st = "SLEEPING" /\ proc[p].chan = ch
  BY DEF Woken
<1>12. \A p \in Procs : Condition(proc'[p].st) = Condition(proc[p].st)
  BY <1>10, <1>11 DEF Condition
<1>13. PICK N : NewFrame(N, M, x, g)
  BY <1>3, <1>5, NewFrameExists
<1>14. /\ N[x] = g /\ \A y \in Threads \ {x} : N[y] = M[y]
       /\ \A y \in Threads : N[y].child = M[y].child /\ N[y].base = M[y].base /\ N[y].nap = M[y].nap
  BY <1>3, <1>5, <1>13 DEF NewFrame
<1>15. Children(N)'
  <2>1. ASSUME NEW q \in Procs, proc[q].st = "EMBRYO"
        PROVE  proc'[q].st = "EMBRYO" /\ code'[q] = code[q]
    <3>1. q # x
      BY <1>1, <1>3, <2>1 DEF Executed, Condition
    <3> QED
      BY <1>8, <1>10, <1>11, <2>1, <3>1 DEF Good, Types, Threads
  <2> QED
    BY <1>14, <2>1, ChildrenKept
<1>16. Doomed(N)'
  BY <1>10, <1>14, DoomedKept DEF Threads
<1>17. Family'
  BY <1>10, Names DEF Good, Family
<1>18. \A p \in Procs : Late(p)' = Late(p) /\ Childless(p)' = Childless(p)
  <2>1. \A p \in Procs : Late(p)' = Late(p)
    BY <1>8, <1>10 DEF Late, Elapsed
  <2>2. \A p \in Procs : proc'[p].st = "ZOMBIE" <=> proc[p].st = "ZOMBIE"
    BY <1>10, <1>11
  <2>3. \A p \in Procs : Childless(p)' = Childless(p)
    BY <1>10, <2>2 DEF Childless
  <2> QED
    BY <2>1, <2>3
<1>19. Sleepers(N)'
  <2>1. ASSUME NEW p \in Procs, TickSleeper(p, N)', Late(p)'
        PROVE  \E y \in Threads : N[y].due
    <3>1. TickSleeper(p, M)
      BY <1>10, <1>14, <2>1 DEF TickSleeper, Threads
    <3>2. PICK y \in Threads : M[y].due
      BY <1>18, <2>1, <3>1 DEF Good, Sleepers
    <3>3. CASE ch = Ticks
      <4>1. N[p].nap = "ticks"
        BY <1>10, <1>11, <2>1, <3>3 DEF TickSleeper
      <4>2. M[p].nap = "ticks" /\ p # x
        BY <1>3, <1>14, <4>1 DEF Threads
      <4>3. PICK d \in CPUs : cpu[d].proc = p /\ Held(d) # {}
        BY <4>2, Undecided
      <4>4. "ptable" \in Held(d) \/ "ticks" \in Held(d)
        BY <4>3 DEF Held, Locks
      <4>5. d = c
        BY <1>3, <3>3, <4>4, OneHolder
      <4> QED
        BY <1>3, <4>2, <4>3, <4>5, ThreadFacts, Names DEF Good, Threads
    <3>4. CASE ch # Ticks
      <4>1. y # x
        BY <1>3, <3>2, <3>4
      <4> QED
        BY <1>14, <3>2, <4>1
    <3> QED
      BY <3>3, <3>4
  <2>2. ASSUME NEW p \in Procs, Waiter(p, N)'
        PROVE  Childless(p)'
    <3>1. Waiter(p, M)
      BY <1>10, <1>14, <2>2 DEF Waiter, Threads
    <3> QED
      BY <1>18, <3>1 DEF Good, Sleepers
  <2> QED
    BY <2>1, <2>2 DEF Sleepers
<1>20. Table(N)'
  BY <1>15, <1>16, <1>17, <1>19 DEF Table
<1>21. "run" = (IF x \in Procs THEN Condition(proc'[x].st) ELSE "run")
  BY <1>1, <1>3, <1>12 DEF Executed
<1>22. \A p \in Procs \ {x} : \/ Condition(proc'[p].st) = Condition(proc[p].st)
                              \/ ~OnCpu(p) /\ ProcGood(p, N)'
  BY <1>12
<1>23. /\ proc' \in [Procs -> ProcRecs] /\ ticks' \in 0 .. W - 1 /\ "run" # "spin"
       /\ g \in Frames /\ g.base = f.base
  BY <1>5, <1>8, <1>10 DEF Good, Types
<1>24. t \in Seq(Ops) /\ Typed(x, t, At(L, i, "run", g))
  BY <1>1, <1>6 DEF Executed
<1> QED
  BY <1>1, <1>8, <1>13, <1>20, <1>21, <1>22, <1>23, <1>24, TableOp, ZenonT(60)

----------------------------------------------------------------------------
(* Operations of a process on its own record.                              *)

(* The process has the new record r, keeps its parent and is as killed as  *)
(* before; it goes to sleep only for what has not happened.                *)
OwnRecord(x, M, r, g) ==
    /\ r \in ProcRecs /\ r.st \in {"RUNNING", "RUNNABLE", "SLEEPING"}
    /\ r.killed = proc[x].killed /\ r.parent = proc[x].parent
    /\ g \in Frames /\ g.base = M[x].base /\ g.child = M[x].child /\ g.due = M[x].due
    /\ (g.nap = "ticks" \/ (r.st = "SLEEPING" /\ r.chan = Ticks)) /\ ((ticks - r.t0) % W) >= r.n
         => TickSleeper(x, M) /\ Late(x)
    /\ (g.nap = "wait" \/ (r.st = "SLEEPING" /\ r.chan = x)) => Childless(x)

(* The machine changes in nothing else than that record.                   *)
RecordStep(x, r) ==
    /\ panic' = "" /\ cpu' = cpu /\ lock' = lock /\ ticks' = ticks
    /\ proc' = [proc EXCEPT ![x] = r]

(* Such an operation keeps the invariant.                                  *)
LEMMA OwnStep ==
    ASSUME SmpAssumption, NEW M, Good(M), NEW c \in CPUs, NEW op, NEW x, NEW a, NEW t, NEW L,
           NEW i, NEW z, NEW f, NEW k, Executed(c, M, op, x, a, t, L, i, z, f, k), op # "sched",
           NEW r, NEW g, x \in Procs, OwnRecord(x, M, r, g), RecordStep(x, r),
           NEW s \in Seq(Ops), code' = [code EXCEPT ![x] = s],
           Typed(x, s, At(L, i, Condition(r.st), g))
    PROVE  SmpInv'
<1>1. /\ x = Thread(c) /\ x \in Threads /\ f = M[x] /\ proc[x].st = "RUNNING"
  BY DEF Executed, Condition
<1>2. /\ g \in Frames /\ g.base = f.base /\ g.child = f.child /\ g.due = f.due
  BY <1>1 DEF OwnRecord
<1>3. /\ proc' \in [Procs -> ProcRecs] /\ proc'[x] = r
      /\ \A p \in Procs \ {x} : proc'[p] = proc[p]
  BY DEF RecordStep, OwnRecord, Good, Types
<1>4. PICK N : NewFrame(N, M, x, g)
  BY <1>1, <1>2, NewFrameExists
<1>5. /\ N[x] = g /\ \A y \in Threads \ {x} : N[y] = M[y]
      /\ \A y \in Threads : N[y].child = M[y].child /\ N[y].base = M[y].base /\ N[y].due = M[y].due
  BY <1>1, <1>2, <1>4 DEF NewFrame
<1>6. Children(N)'
  <2>1. ASSUME NEW q \in Procs, proc[q].st = "EMBRYO"
        PROVE  proc'[q].st = "EMBRYO" /\ code'[q] = code[q]
    BY <1>1, <1>3, <2>1 DEF Good, Types, Threads
  <2> QED
    BY <1>5, <2>1, ChildrenKept
<1>7. /\ \A p \in Procs : proc'[p].killed = proc[p].killed /\ proc'[p].parent = proc[p].parent
      /\ \A p \in Procs : proc'[p].st = "ZOMBIE" <=> proc[p].st = "ZOMBIE"
  BY <1>1, <1>3 DEF OwnRecord
<1>8. Doomed(N)'
  BY <1>5, <1>7, DoomedKept DEF Threads
<1>9. Family'
  BY <1>3, <1>7, Names DEF Good, Family, OwnRecord
<1>10. \A p \in Procs : Childless(p)' = Childless(p)
  BY <1>7 DEF Childless
<1>11. Sleepers(N)'
  <2>1. ASSUME NEW p \in Procs, TickSleeper(p, N)', Late(p)'
        PROVE  \E y \in Threads : N[y].due
    <3>1. TickSleeper(p, M) /\ Late(p)
      <4>1. CASE p = x
        BY <1>3, <1>5, <2>1, <4>1 DEF TickSleeper, Late, Elapsed, OwnRecord, RecordStep
      <4>2. CASE p # x
        BY <1>3, <1>5, <2>1, <4>2 DEF TickSleeper, Late, Elapsed, RecordStep, Threads
      <4> QED
        BY <4>1, <4>2
    <3> QED
      BY <1>5, <3>1 DEF Good, Sleepers
  <2>2. ASSUME NEW p \in Procs, Waiter(p, N)'
        PROVE  Childless(p)'
    <3>1. Childless(p)
      <4>1. CASE p = x
        BY <1>3, <1>5, <2>2, <4>1 DEF Waiter, OwnRecord
      <4>2. CASE p # x
        BY <1>3, <1>5, <2>2, <4>2 DEF Waiter, Threads, Good, Sleepers
      <4> QED
        BY <4>1, <4>2
    <3> QED
      BY <1>10, <3>1
  <2> QED
    BY <2>1, <2>2 DEF Sleepers
<1>12. Table(N)'
  BY <1>6, <1>8, <1>9, <1>11 DEF Table
<1>13. PICK zz : zz = Condition(r.st) /\ zz # "spin"
  BY DEF Condition
<1>14. zz = (IF x \in Procs THEN Condition(proc'[x].st) ELSE "run")
  BY <1>3, <1>13
<1>18. zz # "spin"
  BY <1>13
<1>19. Executed(c, M, op, x, a, t, L, i, z, f, k)
  OBVIOUS
<1>15. \A p \in Procs \ {x} : \/ Condition(proc'[p].st) = Condition(proc[p].st)
                              \/ ~OnCpu(p) /\ ProcGood(p, N)'
  BY <1>3
<1>16. /\ panic' = "" /\ cpu' = cpu /\ lock' = lock /\ ticks' \in 0 .. W - 1
       /\ proc' \in [Procs -> ProcRecs]
  BY <1>3 DEF Good, Types, RecordStep
<1>17. g \in Frames /\ g.base = f.base /\ Typed(x, s, At(L, i, zz, g))
  BY <1>2, <1>13
<1> QED
  BY <1>4, <1>12, <1>14, <1>15, <1>16, <1>17, <1>18, <1>19, TableOp

(* yield() gives the processor up.                                         *)
LEMMA RunnableStep ==
    ASSUME SmpAssumption, NEW M, Good(M), NEW c \in CPUs, runnable(c)
    PROVE  SmpInv'
<1>1. PICK x, a, t, L, i, z, f, k : Executed(c, M, "runnable", x, a, t, L, i, z, f, k)
  BY Execution DEF runnable, Locally
<1>2. /\ x = Thread(c) /\ x \in Procs /\ f = M[x] /\ f \in Frames /\ f.nap = "no" /\ z = "run"
  BY <1>1 DEF Executed, FrameFor, SchedulerOps, SharedOps, LockOps, HandlerOps
<1>3. PICK r : r = [proc[x] EXCEPT !.st = "RUNNABLE"]
  OBVIOUS
<1>4. OwnRecord(x, M, r, f)
  <2>1. proc[x] \in ProcRecs
    BY <1>2, ProcFields
  <2>2. r \in ProcRecs /\ r.st = "RUNNABLE" /\ r.killed = proc[x].killed /\ r.parent = proc[x].parent
    BY <1>3, <2>1 DEF ProcRecs, States
  <2> QED
    BY <1>2, <2>2 DEF OwnRecord
<1>5. PICK u : u = [proc EXCEPT ![x] = r] /\ Locally(c, "runnable", u, <<>>)
  BY <1>2, <1>3 DEF runnable
<1>6. /\ panic' = "" /\ cpu' = cpu /\ lock' = lock /\ ticks' = ticks /\ proc' = u
      /\ GoesOn(c, <<>>)
  BY <1>5 DEF Locally, Executes
<1>7. GoesOn(c, <<>>)
  BY <1>6
<1>8. code' = [code EXCEPT ![x] = t]
  BY <1>1, <1>7, GoesOnPlain
<1>9. RecordStep(x, r)
  BY <1>5, <1>6 DEF RecordStep
<1>10. After(a, At(L, i, z, f)) = At(L, i, "off", f)
  BY <1>1 DEF Executed, After, At, LocksAfter, IntsAfter, StatusAfter, FrameAfter
<1>11. Condition(r.st) = "off"
  <2>1. r.st = "RUNNABLE"
    BY <1>2, <1>3, ProcFields DEF ProcRecs
  <2> QED
    BY <2>1 DEF Condition
<1>12. t \in Seq(Ops) /\ Typed(x, t, At(L, i, Condition(r.st), f))
  BY <1>1, <1>10, <1>11 DEF Executed
<1> QED
  BY <1>1, <1>2, <1>4, <1>8, <1>9, <1>12, OwnStep

(* sleep(): what the thread has decided to sleep for has not happened.     *)
LEMMA SleepStep ==
    ASSUME SmpAssumption, NEW M, Good(M), NEW c \in CPUs, sleep(c)
    PROVE  SmpInv'
<1>1. PICK x, a, t, L, i, z, f, k : Executed(c, M, "sleep", x, a, t, L, i, z, f, k)
  BY Execution DEF sleep, Locally
<1>2. PICK ch : ch = a[2]
  OBVIOUS
<1>3. /\ x = Thread(c) /\ x \in Procs /\ f = M[x] /\ f \in Frames /\ Arg(c) = ch
      /\ (ch = Ticks /\ f.nap = "ticks") \/ (ch = x /\ f.nap = "wait")
  BY <1>1, <1>2 DEF Executed, FrameFor, SchedulerOps, SharedOps, LockOps, HandlerOps
<1>4. PICK r : r = [[proc[x] EXCEPT !.chan = ch] EXCEPT !.st = "SLEEPING"]
  OBVIOUS
<1>5. PICK g : g = [f EXCEPT !.nap = "no"]
  OBVIOUS
<1>6. /\ g \in Frames /\ g.base = f.base /\ g.child = f.child /\ g.due = f.due /\ g.nap = "no"
  BY <1>3, <1>5 DEF Frames
<1>7. /\ r \in ProcRecs /\ r.st = "SLEEPING" /\ r.chan = ch /\ r.n = proc[x].n
      /\ r.t0 = proc[x].t0 /\ r.killed = proc[x].killed /\ r.parent = proc[x].parent
  <2>1. proc[x] \in ProcRecs
    BY <1>3, ProcFields
  <2>2. ch \in Procs \cup {None, Ticks}
    BY <1>3
  <2> QED
    BY <1>4, <2>1, <2>2 DEF ProcRecs, States
<1>8. x # Ticks
  BY <1>3, Names DEF Threads
<1>9. OwnRecord(x, M, r, g)
  <2>1. ch = Ticks => TickSleeper(x, M)
    BY <1>3, <1>8 DEF TickSleeper
  <2>2. ch = x => Childless(x)
    BY <1>3, <1>8 DEF Waiter, Sleepers, Good
  <2>3. ((ticks - r.t0) % W) >= r.n => Late(x)
    BY <1>7 DEF Late, Elapsed
  <2> QED
    BY <1>3, <1>6, <1>7, <2>1, <2>2, <2>3 DEF OwnRecord
<1>10. PICK u : u = [proc EXCEPT ![x] = r] /\ Locally(c, "sleep", u, <<>>)
  <2>1. proc \in [Procs -> ProcRecs]
    BY DEF Good, Types
  <2>2. [proc EXCEPT ![x].chan = ch, ![x].st = "SLEEPING"] = [proc EXCEPT ![x] = r]
    BY <1>3, <1>4, <2>1
  <2> QED
    BY <1>3, <2>2 DEF sleep
<1>11. /\ panic' = "" /\ cpu' = cpu /\ lock' = lock /\ ticks' = ticks /\ proc' = u
       /\ GoesOn(c, <<>>)
  BY <1>10 DEF Locally, Executes
<1>12. GoesOn(c, <<>>)
  BY <1>11
<1>13. code' = [code EXCEPT ![x] = t]
  BY <1>1, <1>12, GoesOnPlain
<1>14. RecordStep(x, r)
  BY <1>10, <1>11 DEF RecordStep
<1>15. After(a, At(L, i, z, f)) = At(L, i, "off", g)
  BY <1>1, <1>5 DEF Executed, After, At, LocksAfter, IntsAfter, StatusAfter, FrameAfter
<1>16. Condition(r.st) = "off"
  BY <1>7 DEF Condition
<1>17. t \in Seq(Ops) /\ Typed(x, t, At(L, i, Condition(r.st), g))
  BY <1>1, <1>15, <1>16 DEF Executed
<1>18. x \in Procs /\ "sleep" # "sched"
  BY <1>3
<1> QED
  BY <1>1, <1>9, <1>13, <1>14, <1>17, <1>18, OwnStep

(* The end of sleep() clears the channel.                                  *)
LEMMA TidyStep ==
    ASSUME SmpAssumption, NEW M, Good(M), NEW c \in CPUs, tidy(c)
    PROVE  SmpInv'
<1>1. PICK x, a, t, L, i, z, f, k : Executed(c, M, "tidy", x, a, t, L, i, z, f, k)
  BY Execution DEF tidy, Locally
<1>2. /\ x = Thread(c) /\ x \in Procs /\ f = M[x] /\ f \in Frames /\ f.nap = "no" /\ z = "run"
  BY <1>1 DEF Executed, FrameFor, SchedulerOps, SharedOps, LockOps, HandlerOps
<1>3. PICK r : r = [proc[x] EXCEPT !.chan = None]
  OBVIOUS
<1>4. /\ r \in ProcRecs /\ r.st = "RUNNING" /\ r.killed = proc[x].killed
      /\ r.parent = proc[x].parent
  <2>1. proc[x] \in ProcRecs /\ proc[x].st = "RUNNING"
    BY <1>1, <1>2, ProcFields DEF Executed, Condition
  <2> QED
    BY <1>3, <2>1 DEF ProcRecs
<1>5. OwnRecord(x, M, r, f)
  BY <1>2, <1>4 DEF OwnRecord
<1>6. PICK u : u = [proc EXCEPT ![x] = r] /\ Locally(c, "tidy", u, <<>>)
  BY <1>2, <1>3 DEF tidy
<1>7. /\ panic' = "" /\ cpu' = cpu /\ lock' = lock /\ ticks' = ticks /\ proc' = u
      /\ GoesOn(c, <<>>)
  BY <1>6 DEF Locally, Executes
<1>8. GoesOn(c, <<>>)
  BY <1>7
<1>9. code' = [code EXCEPT ![x] = t]
  BY <1>1, <1>8, GoesOnPlain
<1>10. RecordStep(x, r)
  BY <1>6, <1>7 DEF RecordStep
<1>11. After(a, At(L, i, z, f)) = At(L, i, "run", f)
  BY <1>1 DEF Executed, After, At, LocksAfter, IntsAfter, StatusAfter, FrameAfter
<1>12. Condition(r.st) = "run"
  BY <1>4 DEF Condition
<1>13. t \in Seq(Ops) /\ Typed(x, t, At(L, i, Condition(r.st), f))
  BY <1>1, <1>11, <1>12 DEF Executed
<1>14. x \in Procs /\ "tidy" # "sched"
  BY <1>2
<1> QED
  BY <1>1, <1>5, <1>9, <1>10, <1>13, <1>14, OwnStep

(* sys_sleep() notes the time.                                             *)
LEMMA Ticks0Step ==
    ASSUME SmpAssumption, NEW M, Good(M), NEW c \in CPUs, ticks0(c)
    PROVE  SmpInv'
<1>1. PICK x, a, t, L, i, z, f, k : Executed(c, M, "ticks0", x, a, t, L, i, z, f, k)
  BY Execution DEF ticks0, Locally
<1>2. /\ x = Thread(c) /\ x \in Procs /\ f = M[x] /\ f \in Frames /\ f.nap = "no" /\ z = "run"
      /\ Arg(c) = a[2] /\ a[2] \in SleepArgs
  BY <1>1 DEF Executed, FrameFor, SchedulerOps, SharedOps, LockOps, HandlerOps
<1>3. PICK r : r = [[proc[x] EXCEPT !.t0 = ticks] EXCEPT !.n = a[2]]
  OBVIOUS
<1>4. /\ r \in ProcRecs /\ r.st = "RUNNING" /\ r.killed = proc[x].killed
      /\ r.parent = proc[x].parent
  <2>1. proc[x] \in ProcRecs /\ proc[x].st = "RUNNING"
    BY <1>1, <1>2, ProcFields DEF Executed, Condition
  <2>2. ticks \in 0 .. W - 1 /\ a[2] \in SleepArgs \cup {0}
    BY <1>2 DEF Good, Types
  <2> QED
    BY <1>3, <2>1, <2>2 DEF ProcRecs
<1>5. OwnRecord(x, M, r, f)
  BY <1>2, <1>4 DEF OwnRecord
<1>6. PICK u : u = [proc EXCEPT ![x] = r] /\ Locally(c, "ticks0", u, <<>>)
  <2>1. proc \in [Procs -> ProcRecs]
    BY DEF Good, Types
  <2>2. [proc EXCEPT ![x].t0 = ticks, ![x].n = a[2]] = [proc EXCEPT ![x] = r]
    BY <1>2, <1>3, <2>1
  <2> QED
    BY <1>2, <2>2 DEF ticks0
<1>7. /\ panic' = "" /\ cpu' = cpu /\ lock' = lock /\ ticks' = ticks /\ proc' = u
      /\ GoesOn(c, <<>>)
  BY <1>6 DEF Locally, Executes
<1>8. GoesOn(c, <<>>)
  BY <1>7
<1>9. code' = [code EXCEPT ![x] = t]
  BY <1>1, <1>8, GoesOnPlain
<1>10. RecordStep(x, r)
  BY <1>6, <1>7 DEF RecordStep
<1>11. After(a, At(L, i, z, f)) = At(L, i, "run", f)
  BY <1>1 DEF Executed, After, At, LocksAfter, IntsAfter, StatusAfter, FrameAfter
<1>12. Condition(r.st) = "run"
  BY <1>4 DEF Condition
<1>13. t \in Seq(Ops) /\ Typed(x, t, At(L, i, Condition(r.st), f))
  BY <1>1, <1>11, <1>12 DEF Executed
<1>14. x \in Procs /\ "ticks0" # "sched"
  BY <1>2
<1> QED
  BY <1>1, <1>5, <1>9, <1>10, <1>13, <1>14, OwnStep

----------------------------------------------------------------------------
(* Sleeping.                                                               *)

(* A thread that gives its last lock back.                                 *)
LEMMA ReleasePath ==
    ASSUME NEW x, NEW i, NEW f \in Frames, NEW l \in Locks, Consistent(At({l}, i, "run", f))
    PROVE  /\ <<Release(l)>> \in Seq(Ops)
           /\ Path(x, <<Release(l)>>, At({l}, i, "run", f), At({}, i, "run", f))
<1>1. {l} \ {l} = {} /\ l \in {l}
  OBVIOUS
<1>2. Leads(x, Release(l), At({l}, i, "run", f), At({}, i, "run", f))
  BY <1>1, LeadsRelease
<1>3. Release(l) \in Ops
  BY OpsKnown DEF Locks
<1> QED
  BY <1>2, <1>3, Path1

(* A thread without locks owes no wakeup.                                  *)
LEMMA NoneOwed ==
    ASSUME NEW x, NEW t \in Seq(Ops), NEW i, NEW f, Typed(x, t, At({}, i, "run", f))
    PROVE  ~f.due
<1>1. CASE t = <<>>
  <2>1. Final(At({}, i, "run", f))
    BY <1>1, TypedEmpty
  <2>2. f = Frame("kernel")
    BY <2>1 DEF Final, UserMode, At
  <2> QED
    BY <2>2 DEF Frame
<1>2. CASE t # <<>>
  <2>1. Needs(x, Head(t), At({}, i, "run", f))
    BY <1>2, TypedHead
  <2>2. Head(t)[1] # "intena"
    BY <2>1 DEF Needs, LocksFor, At, TableOps
  <2> QED
    BY <2>1, <2>2 DEF Needs, Consistent, At
<1> QED
  BY <1>1, <1>2

(* wait() sleeps under ptable.lock and looks again.                        *)
LEMMA WaitPath ==
    ASSUME NEW x \in Procs, NEW i, NEW f, Idle(f), f.base # "sched", NEW g,
           g = [f EXCEPT !.nap = "wait"], Consistent(At({"ptable"}, i, "run", f)), x \in Int
    PROVE  /\ Sleep(x, "ptable") \o << <<"waitscan">> >> \in Seq(Ops)
           /\ Path(x, Sleep(x, "ptable") \o << <<"waitscan">> >>,
                   At({"ptable"}, i, "run", g), At({}, i, "run", f))
<1>1. /\ g \in Frames /\ g.base = f.base /\ g.h = f.h /\ g.child = f.child /\ ~g.due
      /\ g.nap = "wait" /\ f = [g EXCEPT !.nap = "no"] /\ f \in Frames
  BY DEF Idle, Frames
<1>2. /\ Consistent(At({"ptable"}, i, "run", g)) /\ Consistent(At({"ptable"}, i, "off", f))
  BY <1>1 DEF Consistent, At, Idle
<1>3. Leads(x, <<"sleep", x>>, At({"ptable"}, i, "run", g), At({"ptable"}, i, "off", f))
  BY <1>1, <1>2, LeadsSleep
<1>4. Leads(x, <<"sched">>, At({"ptable"}, i, "off", f), At({"ptable"}, i, "run", f))
  BY <1>2, LeadsSched DEF Idle
<1>5. Leads(x, <<"tidy">>, At({"ptable"}, i, "run", f), At({"ptable"}, i, "run", f))
  BY LeadsTidy DEF Idle
<1>6. Leads(x, <<"waitscan">>, At({"ptable"}, i, "run", f), At({}, i, "run", f))
  BY LeadsWait DEF Idle
<1>7. <<"sleep", x>> \in Ops /\ <<"sched">> \in Ops /\ <<"tidy">> \in Ops /\ <<"waitscan">> \in Ops
  BY OpsKnown
<1>8. Sleep(x, "ptable") = << <<"sleep", x>>, <<"sched">>, <<"tidy">> >>
  BY DEF Sleep
<1>9. /\ Sleep(x, "ptable") \in Seq(Ops)
      /\ Path(x, Sleep(x, "ptable"), At({"ptable"}, i, "run", g), At({"ptable"}, i, "run", f))
  BY <1>3, <1>4, <1>5, <1>7, <1>8, Path3
<1>10. /\ << <<"waitscan">> >> \in Seq(Ops)
       /\ Path(x, << <<"waitscan">> >>, At({"ptable"}, i, "run", f), At({}, i, "run", f))
  BY <1>6, <1>7, Path1
<1> QED
  BY <1>9, <1>10, PathConcat

(* sys_sleep() takes ptable.lock before it gives tickslock back, and the   *)
(* other way round when it is woken.                                       *)
LEMMA TicksPath ==
    ASSUME NEW x \in Procs, NEW i, NEW f, Idle(f), f.base # "sched", NEW g,
           g = [f EXCEPT !.nap = "ticks"], Consistent(At({"ticks"}, i, "run", f))
    PROVE  /\ Sleep(Ticks, "ticks") \o << <<"sleeploop">> >> \in Seq(Ops)
           /\ Path(x, Sleep(Ticks, "ticks") \o << <<"sleeploop">> >>,
                   At({"ticks"}, i, "run", g), At({}, i, "run", f))
<1>1. /\ g \in Frames /\ g.base = f.base /\ g.h = f.h /\ g.child = f.child /\ ~g.due
      /\ g.nap = "ticks" /\ f = [g EXCEPT !.nap = "no"] /\ f \in Frames
  BY DEF Idle, Frames
<1>2. /\ Consistent(At({"ticks"}, i, "run", g)) /\ Consistent(At({"ptable", "ticks"}, i, "run", g))
      /\ Consistent(At({"ptable"}, i, "run", g)) /\ Consistent(At({"ptable"}, i, "off", f))
      /\ Consistent(At({"ptable"}, i, "run", f)) /\ Consistent(At({}, i, "run", f))
  BY <1>1 DEF Consistent, At, Idle
<1>3. Leads(x, Acquire("ptable"), At({"ticks"}, i, "run", g), At({"ptable", "ticks"}, i, "run", g))
  <2>1. /\ {"ticks"} \cup {"ptable"} = {"ptable", "ticks"} /\ "ptable" \in Locks
        /\ "ptable" \notin {"ticks"}
    BY DEF Locks
  <2> QED
    BY <1>1, <1>2, <2>1, LeadsAcquire
<1>4. Leads(x, Release("ticks"), At({"ptable", "ticks"}, i, "run", g), At({"ptable"}, i, "run", g))
  <2>1. {"ptable", "ticks"} \ {"ticks"} = {"ptable"} /\ "ticks" \in {"ptable", "ticks"}
    OBVIOUS
  <2> QED
    BY <1>1, <1>2, <2>1, LeadsRelease
<1>5. Leads(x, <<"sleep", Ticks>>, At({"ptable"}, i, "run", g), At({"ptable"}, i, "off", f))
  BY <1>1, <1>2, LeadsSleep
<1>6. Leads(x, <<"sched">>, At({"ptable"}, i, "off", f), At({"ptable"}, i, "run", f))
  BY <1>2, LeadsSched DEF Idle
<1>7. Leads(x, <<"tidy">>, At({"ptable"}, i, "run", f), At({"ptable"}, i, "run", f))
  BY <1>2, LeadsTidy DEF Idle
<1>8. Leads(x, Release("ptable"), At({"ptable"}, i, "run", f), At({}, i, "run", f))
  <2>1. {"ptable"} \ {"ptable"} = {} /\ "ptable" \in {"ptable"} /\ f \in Frames
    BY <1>1
  <2> QED
    BY <1>2, <2>1, LeadsRelease
<1>9. Leads(x, Acquire("ticks"), At({}, i, "run", f), At({"ticks"}, i, "run", f))
  <2>1. {} \cup {"ticks"} = {"ticks"} /\ "ticks" \in Locks /\ f \in Frames
    BY <1>1 DEF Locks
  <2> QED
    BY <1>2, <2>1, LeadsAcquire
<1>10. Leads(x, <<"sleeploop">>, At({"ticks"}, i, "run", f), At({}, i, "run", f))
  BY LeadsLoop DEF Idle
<1>11. /\ Acquire("ptable") \in Ops /\ Release("ticks") \in Ops /\ <<"sched">> \in Ops
       /\ <<"tidy">> \in Ops /\ Release("ptable") \in Ops /\ Acquire("ticks") \in Ops
       /\ <<"sleeploop">> \in Ops
  BY OpsKnown
<1>12. <<"sleep", Ticks>> \in Ops
  <2>1. Ticks \in Int
    BY DEF Ticks
  <2> QED
    BY <2>1, OpsKnown
<1>13. Sleep(Ticks, "ticks")
         = << Acquire("ptable"), Release("ticks"), <<"sleep", Ticks>>, <<"sched">>,
              <<"tidy">>, Release("ptable"), Acquire("ticks") >>
  BY DEF Sleep
<1>14. /\ Sleep(Ticks, "ticks") \in Seq(Ops)
       /\ Path(x, Sleep(Ticks, "ticks"), At({"ticks"}, i, "run", g), At({"ticks"}, i, "run", f))
  <2>1. PICK a3 : a3 = <<"sleep", Ticks>> /\ a3 \in Ops
    BY <1>12
  <2>2. PICK m1, m2, m3, m4, m5, m7 :
          /\ m1 = At({"ticks"}, i, "run", g) /\ m2 = At({"ptable", "ticks"}, i, "run", g)
          /\ m3 = At({"ptable"}, i, "run", g) /\ m4 = At({"ptable"}, i, "off", f)
          /\ m5 = At({"ptable"}, i, "run", f) /\ m7 = At({}, i, "run", f)
    OBVIOUS
  <2>3. PICK m8 : m8 = At({"ticks"}, i, "run", f)
    OBVIOUS
  <2>4. /\ Leads(x, Acquire("ptable"), m1, m2) /\ Leads(x, Release("ticks"), m2, m3)
        /\ Leads(x, a3, m3, m4) /\ Leads(x, <<"sched">>, m4, m5)
        /\ Leads(x, <<"tidy">>, m5, m5) /\ Leads(x, Release("ptable"), m5, m7)
        /\ Leads(x, Acquire("ticks"), m7, m8)
    BY <1>3, <1>4, <1>5, <1>6, <1>7, <1>8, <1>9, <2>1, <2>2, <2>3
  <2>5. a3 \in Ops
    BY <2>1
  <2>6. PICK s : s = << Acquire("ptable"), Release("ticks"), a3, <<"sched">>, <<"tidy">>,
                        Release("ptable"), Acquire("ticks") >>
    OBVIOUS
  <2>7. s \in Seq(Ops) /\ Path(x, s, m1, m8)
    BY <1>11, <2>4, <2>5, <2>6, Path7
  <2>8. Sleep(Ticks, "ticks") = s
    BY <1>13, <2>1, <2>6
  <2> QED
    BY <2>2, <2>3, <2>7, <2>8
<1>15. /\ << <<"sleeploop">> >> \in Seq(Ops)
       /\ Path(x, << <<"sleeploop">> >>, At({"ticks"}, i, "run", f), At({}, i, "run", f))
  BY <1>10, <1>11, Path1
<1> QED
  BY <1>14, <1>15, PathConcat

(* sys_sleep() goes back to sleep only if its time is not up, or returns.  *)
LEMMA SleeploopStep ==
    ASSUME SmpAssumption, NEW M, Good(M), NEW c \in CPUs, sleeploop(c)
    PROVE  SmpInv'
<1>1. PICK x, a, t, L, i, z, f, k : Executed(c, M, "sleeploop", x, a, t, L, i, z, f, k)
  BY Execution DEF sleeploop
<1>2. /\ x = Thread(c) /\ x \in Procs /\ f = M[x] /\ f \in Frames /\ f.nap = "no" /\ z = "run"
      /\ L = {"ticks"} /\ f.base # "sched"
  BY <1>1 DEF Executed, FrameFor, LocksFor, TicksOps, At, SchedulerOps, SharedOps, LockOps,
              HandlerOps
<1>3. Consistent(At({"ticks"}, i, "run", f))
  BY <1>1, <1>2 DEF Executed
<1>4. After(a, At(L, i, z, f)) = At({}, i, "run", f)
  BY <1>1 DEF Executed, After, At, LocksAfter, IntsAfter, StatusAfter, FrameAfter
<1>5. t \in Seq(Ops) /\ Typed(x, t, At({}, i, "run", f))
  BY <1>1, <1>4 DEF Executed
<1>6. Idle(f)
  BY <1>2, <1>5, NoneOwed DEF Idle
<1>7. proc[x] \in ProcRecs /\ proc[x].st = "RUNNING" /\ proc \in [Procs -> ProcRecs]
  BY <1>1, <1>2, ProcFields DEF Executed, Condition
<1>8. x \in Procs /\ "sleeploop" # "sched"
  BY <1>2
<1>9. CASE Elapsed(x) >= proc[x].n \/ proc[x].killed
  <2>1. PICK r : r = [[proc[x] EXCEPT !.t0 = 0] EXCEPT !.n = 0]
    OBVIOUS
  <2>2. /\ r \in ProcRecs /\ r.st = "RUNNING" /\ r.killed = proc[x].killed
        /\ r.parent = proc[x].parent
    <3>1. 0 \in 0 .. W - 1
      BY DEF SmpAssumption
    <3> QED
      BY <1>7, <2>1, <3>1 DEF ProcRecs
  <2>3. OwnRecord(x, M, r, f)
    BY <1>2, <2>2 DEF OwnRecord
  <2>4. PICK u : u = [proc EXCEPT ![x] = r] /\ Locally(c, "sleeploop", u, <<Release("ticks")>>)
    <3>1. [proc EXCEPT ![x].t0 = 0, ![x].n = 0] = [proc EXCEPT ![x] = r]
      BY <1>2, <1>7, <2>1
    <3> QED
      BY <1>2, <1>9, <3>1 DEF sleeploop
  <2>5. /\ panic' = "" /\ cpu' = cpu /\ lock' = lock /\ ticks' = ticks /\ proc' = u
        /\ GoesOn(c, <<Release("ticks")>>)
    BY <2>4 DEF Locally, Executes
  <2>13. PICK ops : ops = <<Release("ticks")>>
    OBVIOUS
  <2>6. GoesOn(c, ops)
    BY <2>5, <2>13
  <2>7. PICK s : s = ops \o t
    OBVIOUS
  <2>8. code' = [code EXCEPT ![x] = s]
    BY <1>1, <2>6, <2>7, GoesOnWith
  <2>9. RecordStep(x, r)
    BY <2>4, <2>5 DEF RecordStep
  <2>10. s \in Seq(Ops) /\ Typed(x, s, At({"ticks"}, i, "run", f))
    BY <1>2, <1>3, <1>5, <2>7, <2>13, ReleasePath, TypedConcat DEF Locks
  <2>11. Condition(r.st) = "run"
    BY <2>2 DEF Condition
  <2>12. s \in Seq(Ops) /\ Typed(x, s, At(L, i, Condition(r.st), f))
    BY <1>2, <2>10, <2>11
  <2> QED
    BY <1>1, <1>8, <2>3, <2>8, <2>9, <2>12, OwnStep
<1>10. CASE ~(Elapsed(x) >= proc[x].n \/ proc[x].killed)
  <2>1. PICK r : r = proc[x]
    OBVIOUS
  <2>2. PICK g : g = [f EXCEPT !.nap = "ticks"]
    OBVIOUS
  <2>3. /\ g \in Frames /\ g.base = f.base /\ g.child = f.child /\ g.due = f.due
        /\ g.nap = "ticks"
    BY <1>2, <2>2 DEF Frames
  <2>4. OwnRecord(x, M, r, g)
    <3>1. ~(((ticks - r.t0) % W) >= r.n)
      BY <1>10, <2>1 DEF Elapsed
    <3>2. /\ r \in ProcRecs /\ r.st = "RUNNING"
          /\ r.killed = proc[x].killed /\ r.parent = proc[x].parent
      BY <1>7, <2>1
    <3> QED
      BY <1>2, <2>3, <3>1, <3>2 DEF OwnRecord
  <2>5. PICK ops : ops = Sleep(Ticks, "ticks") \o << <<"sleeploop">> >>
    OBVIOUS
  <2>6. Locally(c, "sleeploop", proc, ops)
    BY <1>2, <1>10, <2>5 DEF sleeploop
  <2>7. /\ panic' = "" /\ cpu' = cpu /\ lock' = lock /\ ticks' = ticks /\ proc' = proc
        /\ GoesOn(c, ops)
    BY <2>6 DEF Locally, Executes
  <2>8. GoesOn(c, ops)
    BY <2>7
  <2>9. PICK s : s = ops \o t
    OBVIOUS
  <2>10. code' = [code EXCEPT ![x] = s]
    BY <1>1, <2>8, <2>9, GoesOnWith
  <2>11. RecordStep(x, r)
    BY <1>2, <1>7, <2>1, <2>7 DEF RecordStep
  <2>12. ops \in Seq(Ops) /\ Path(x, ops, At({"ticks"}, i, "run", g), At({}, i, "run", f))
    BY <1>2, <1>3, <1>6, <2>2, <2>5, TicksPath
  <2>13. s \in Seq(Ops) /\ Typed(x, s, At({"ticks"}, i, "run", g))
    BY <1>5, <2>9, <2>12, TypedConcat
  <2>14. Condition(r.st) = "run"
    BY <1>7, <2>1 DEF Condition
  <2>15. s \in Seq(Ops) /\ Typed(x, s, At(L, i, Condition(r.st), g))
    BY <1>2, <2>13, <2>14
  <2> QED
    BY <1>1, <1>8, <2>4, <2>10, <2>11, <2>15, OwnStep
<1> QED
  BY <1>9, <1>10

(* An operation that changes no record, only the decision of its thread.   *)
LEMMA SameTable ==
    ASSUME SmpAssumption, NEW M, Good(M), NEW c \in CPUs, NEW op, NEW x, NEW a, NEW t, NEW L,
           NEW i, NEW z, NEW f, NEW k, Executed(c, M, op, x, a, t, L, i, z, f, k), op # "sched",
           x \in Procs, NEW ops, Locally(c, op, proc, ops),
           NEW g \in Frames, g.base = f.base, g.child = f.child, g.due = f.due,
           g.nap = "no" \/ (g.nap = "wait" /\ Childless(x)),
           ops \o t \in Seq(Ops), Typed(x, ops \o t, At(L, i, "run", g))
    PROVE  SmpInv'
<1>1. PICK r : r = proc[x]
  OBVIOUS
<1>2. /\ f = M[x] /\ r.st = "RUNNING" /\ r \in ProcRecs /\ proc \in [Procs -> ProcRecs]
  BY <1>1, ProcFields DEF Executed, Condition
<1>3. OwnRecord(x, M, r, g)
  BY <1>1, <1>2 DEF OwnRecord
<1>4. /\ panic' = "" /\ cpu' = cpu /\ lock' = lock /\ ticks' = ticks /\ proc' = proc
      /\ GoesOn(c, ops)
  BY DEF Locally, Executes
<1>5. GoesOn(c, ops)
  BY <1>4
<1>6. code' = [code EXCEPT ![x] = ops \o t]
  BY <1>5, GoesOnWith
<1>7. RecordStep(x, r)
  BY <1>1, <1>2, <1>4 DEF RecordStep
<1>8. Condition(r.st) = "run"
  BY <1>2 DEF Condition
<1>9. PICK s : s = ops \o t
  OBVIOUS
<1>10. s \in Seq(Ops) /\ Typed(x, s, At(L, i, Condition(r.st), g)) /\ code' = [code EXCEPT ![x] = s]
  BY <1>6, <1>8, <1>9
<1> QED
  BY <1>3, <1>7, <1>10, OwnStep

----------------------------------------------------------------------------
(* wait() and fork().                                                      *)

(* The frame of a thread that stays as it is.                              *)
LEMMA SameFrame ==
    ASSUME NEW M, Good(M), NEW x
    PROVE  NewFrame(M, M, x, M[x])
BY DEF NewFrame, Good, Types

(* Nobody but the thread of c has what it takes to change the table.       *)
LEMMA TableOwner ==
    ASSUME SmpAssumption, NEW M, Good(M), NEW c \in CPUs, "ptable" \in Held(c), NEW p \in Procs,
           p # Thread(c)
    PROVE  M[p].nap # "wait" /\ (proc[p].st = "ZOMBIE" => ~OnCpu(p))
<1>1. ASSUME NEW d \in CPUs, cpu[d].proc = p, "ptable" \in Held(d) PROVE FALSE
  <2>1. d = c
    BY <1>1, OneHolder
  <2>2. p # None
    BY Names DEF Threads
  <2> QED
    BY <1>1, <2>1, <2>2 DEF Thread
<1> QED
  BY <1>1, Undecided

(* wait() frees the slot of the first child that has exited.               *)
LEMMA ReapStep ==
    ASSUME SmpAssumption, NEW M, Good(M), NEW c \in CPUs, NEW x, NEW a, NEW t, NEW L,
           NEW i, NEW z, NEW f, NEW k, Executed(c, M, "waitscan", x, a, t, L, i, z, f, k),
           NEW q \in Procs, proc[q].st = "ZOMBIE", x \in Procs, L = {"ptable"},
           NEW u, u = [proc EXCEPT ![q] = FreeProc], NEW ops, Locally(c, "waitscan", u, ops),
           ops \o t \in Seq(Ops), Typed(x, ops \o t, At(L, i, "run", f))
    PROVE  SmpInv'
<1>1. /\ x = Thread(c) /\ x \in Threads /\ f = M[x] /\ f \in Frames /\ proc[x].st = "RUNNING"
      /\ "ptable" \in Held(c)
  BY DEF Executed, Condition
<1>2. q # x
  BY <1>1
<1>3. ~OnCpu(q)
  BY <1>1, <1>2, TableOwner
<1>4. M[q] = Frame("kernel")
  <2>1. ProcGood(q, M)
    BY <1>3 DEF Good, Machine
  <2> QED
    BY <2>1 DEF ProcGood
<1>5. /\ panic' = "" /\ cpu' = cpu /\ lock' = lock /\ ticks' = ticks /\ proc' = u
      /\ GoesOn(c, ops)
  BY DEF Locally, Executes
<1>6. PICK s : s = ops \o t
  OBVIOUS
<1>7. code' = [code EXCEPT ![x] = s]
  <2>1. GoesOn(c, ops)
    BY <1>5
  <2>2. code' = [code EXCEPT ![x] = ops \o t]
    BY <2>1, GoesOnWith
  <2> QED
    BY <1>6, <2>2
<1>8. FreeProc \in ProcRecs
  <2>1. 0 \in 0 .. W - 1
    BY DEF SmpAssumption
  <2> QED
    BY <2>1 DEF FreeProc, ProcRecs, States
<1>9. /\ proc' \in [Procs -> ProcRecs] /\ proc'[q] = FreeProc
      /\ \A p \in Procs \ {q} : proc'[p] = proc[p]
  BY <1>5, <1>8 DEF Good, Types
<1>10. /\ proc'[q].st = "UNUSED" /\ proc'[q].chan = None /\ ~proc'[q].killed
       /\ proc'[q].parent = None
  BY <1>9 DEF FreeProc
<1>11. Children(M)'
  <2>1. ASSUME NEW y \in Procs, proc[y].st = "EMBRYO"
        PROVE  proc'[y].st = "EMBRYO" /\ code'[y] = code[y]
    <3>1. y # x /\ y # q
      BY <1>1, <2>1
    <3> QED
      BY <1>1, <1>7, <1>9, <2>1, <3>1 DEF Good, Types, Threads
  <2> QED
    BY <2>1, ChildrenKept
<1>12. Doomed(M)'
  <2>1. M[q].base = "kernel"
    BY <1>4 DEF Frame
  <2> QED
    BY <1>9, <2>1 DEF Doomed, Good
<1>13. Family'
  <2>1. q # 1 /\ 1 \in Procs
    BY Names DEF Good, Family
  <2>2. q # None
    BY Names DEF Threads
  <2> QED
    BY <1>9, <1>10, <2>1, <2>2 DEF Good, Family
<1>14. Sleepers(M)'
  <2>1. M[q].nap = "no"
    BY <1>4 DEF Frame
  <2>2. ASSUME NEW p \in Procs, TickSleeper(p, M)', Late(p)'
        PROVE  TickSleeper(p, M) /\ Late(p)
    <3>1. p # q
      BY <1>10, <2>1, <2>2 DEF TickSleeper
    <3> QED
      BY <1>5, <1>9, <2>2, <3>1 DEF TickSleeper, Late, Elapsed
  <2>3. ASSUME NEW p \in Procs, Waiter(p, M)'
        PROVE  Waiter(p, M) /\ (Childless(p) => Childless(p)')
    <3>1. p # q
      BY <1>10, <2>1, <2>3 DEF Waiter
    <3>2. ASSUME NEW j \in Procs, proc'[j].parent = p, Childless(p) PROVE proc'[j].st # "ZOMBIE"
      <4>1. CASE j = q
        BY <1>10, <4>1
      <4>2. CASE j # q
        BY <1>9, <3>2, <4>2 DEF Childless
      <4> QED
        BY <4>1, <4>2
    <3> QED
      BY <1>9, <2>3, <3>1, <3>2 DEF Waiter, Childless
  <2> QED
    BY <2>2, <2>3, SleepersKept
<1>15. Table(M)'
  BY <1>11, <1>12, <1>13, <1>14 DEF Table
<1>16. NewFrame(M, M, x, f)
  BY <1>1, SameFrame
<1>17. \A p \in Procs \ {x} : \/ Condition(proc'[p].st) = Condition(proc[p].st)
                              \/ ~OnCpu(p) /\ ProcGood(p, M)'
  <2>1. ProcGood(q, M)'
    BY <1>4, <1>10 DEF ProcGood
  <2> QED
    BY <1>3, <1>9, <2>1
<1>18. "run" = (IF x \in Procs THEN Condition(proc'[x].st) ELSE "run")
  BY <1>1, <1>2, <1>9 DEF Condition
<1>19. /\ panic' = "" /\ cpu' = cpu /\ lock' = lock /\ ticks' \in 0 .. W - 1
       /\ proc' \in [Procs -> ProcRecs] /\ "run" # "spin"
  BY <1>5, <1>9 DEF Good, Types
<1>20. f \in Frames /\ f.base = f.base /\ s \in Seq(Ops) /\ Typed(x, s, At(L, i, "run", f))
  BY <1>1, <1>6
<1>21. Executed(c, M, "waitscan", x, a, t, L, i, z, f, k)
  OBVIOUS
<1> QED
  BY <1>7, <1>15, <1>16, <1>17, <1>18, <1>19, <1>20, <1>21, TableOp

(* wait() finds a child that has exited, or none at all, or sleeps.        *)
LEMMA WaitscanStep ==
    ASSUME SmpAssumption, NEW M, Good(M), NEW c \in CPUs, waitscan(c)
    PROVE  SmpInv'
<1>0. Executes(c, "waitscan")
  BY DEF waitscan, Locally
<1>1. PICK x, a, t, L, i, z, f, k : Executed(c, M, "waitscan", x, a, t, L, i, z, f, k)
  BY <1>0, Execution
<1>2. /\ x = Thread(c) /\ x \in Procs /\ f = M[x] /\ f \in Frames /\ f.nap = "no" /\ z = "run"
      /\ L = {"ptable"} /\ f.base # "sched"
  BY <1>1 DEF Executed, FrameFor, LocksFor, TableOps, At, SchedulerOps, SharedOps, LockOps,
              HandlerOps
<1>3. Consistent(At({"ptable"}, i, "run", f))
  BY <1>1, <1>2 DEF Executed
<1>4. After(a, At(L, i, z, f)) = At({}, i, "run", f)
  BY <1>1 DEF Executed, After, At, LocksAfter, IntsAfter, StatusAfter, FrameAfter
<1>5. t \in Seq(Ops) /\ Typed(x, t, At({}, i, "run", f))
  BY <1>1, <1>4 DEF Executed
<1>6. Idle(f)
  BY <1>2, <1>5, NoneOwed DEF Idle
<1>7. PICK rel : rel = <<Release("ptable")>>
  OBVIOUS
<1>8. rel \o t \in Seq(Ops) /\ Typed(x, rel \o t, At(L, i, "run", f))
  BY <1>2, <1>3, <1>5, <1>7, ReleasePath, TypedConcat DEF Locks
<1>9. PICK kids, dead : /\ kids = { q \in Procs : proc[q].parent = x }
                        /\ dead = { q \in kids : proc[q].st = "ZOMBIE" }
  OBVIOUS
<1>10. CASE dead # {}
  <2>1. PICK q : q = CHOOSE j \in dead : \A r \in dead : j <= r
    OBVIOUS
  <2>2. q \in dead /\ q \in Procs
    <3>1. dead \subseteq Procs
      BY <1>9
    <3> QED
      BY <1>10, <2>1, <3>1, FirstSlot
  <2>3. proc[q].st = "ZOMBIE"
    BY <1>9, <2>2
  <2>4. PICK u : u = [proc EXCEPT ![q] = FreeProc] /\ Locally(c, "waitscan", u, rel)
    BY <1>2, <1>7, <1>9, <1>10, <2>1 DEF waitscan
  <2>5. q \in Procs /\ x \in Procs /\ L = {"ptable"}
    BY <1>2, <2>2
  <2> QED
    BY <1>1, <1>8, <2>3, <2>4, <2>5, ReapStep
<1>11. CASE dead = {}
  <2>1. x \in Procs /\ "waitscan" # "sched"
    BY <1>2
  <2>2. CASE kids = {} \/ proc[x].killed
    <3>1. Locally(c, "waitscan", proc, rel)
      BY <1>2, <1>7, <1>9, <1>11, <2>2 DEF waitscan
    <3>2. f \in Frames /\ f.base = f.base /\ f.child = f.child /\ f.due = f.due /\ f.nap = "no"
      BY <1>2
    <3> QED
      BY <1>1, <1>8, <2>1, <3>1, <3>2, SameTable
  <2>3. CASE ~(kids = {} \/ proc[x].killed)
    <3>1. PICK ops : ops = Sleep(x, "ptable") \o << <<"waitscan">> >>
      OBVIOUS
    <3>2. Locally(c, "waitscan", proc, ops)
      BY <1>2, <1>9, <1>11, <2>3, <3>1 DEF waitscan
    <3>3. PICK g : g = [f EXCEPT !.nap = "wait"]
      OBVIOUS
    <3>4. g \in Frames /\ g.base = f.base /\ g.child = f.child /\ g.due = f.due /\ g.nap = "wait"
      BY <1>2, <3>3 DEF Frames
    <3>5. Childless(x)
      BY <1>9, <1>11, <2>3 DEF Childless
    <3>6. x \in Int
      BY <1>2, Names
    <3>7. ops \in Seq(Ops) /\ Path(x, ops, At({"ptable"}, i, "run", g), At({}, i, "run", f))
      BY <1>2, <1>3, <1>6, <3>1, <3>3, <3>6, WaitPath
    <3>8. ops \o t \in Seq(Ops) /\ Typed(x, ops \o t, At(L, i, "run", g))
      BY <1>2, <1>5, <3>7, TypedConcat
    <3> QED
      BY <1>1, <2>1, <3>2, <3>4, <3>5, <3>8, SameTable
  <2> QED
    BY <2>2, <2>3
<1> QED
  BY <1>10, <1>11

(* A slot that no process has, or that is being filled, gets the record r. *)
NewSlot(q, r) ==
    /\ proc[q].st \in {"UNUSED", "EMBRYO"} /\ r.st \in {"UNUSED", "EMBRYO", "RUNNABLE"}
    /\ r.killed = proc[q].killed /\ r.n = proc[q].n /\ r.t0 = proc[q].t0 /\ r.parent # q
    /\ r \in ProcRecs

(* Nobody is waiting for such a slot, and init is not in it.               *)
LEMMA SlotTable ==
    ASSUME SmpAssumption, NEW M, NEW N, Good(M), NEW q \in Procs, NEW r, NewSlot(q, r),
           proc' = [proc EXCEPT ![q] = r], ticks' = ticks,
           \A y \in Threads : N[y].nap = M[y].nap /\ N[y].due = M[y].due,
           \A p \in Procs : N[p].base = "doomed" => M[p].base = "doomed"
    PROVE  Doomed(N)' /\ Family' /\ Sleepers(N)'
<1>1. /\ proc'[q] = r /\ \A p \in Procs \ {q} : proc'[p] = proc[p]
  BY DEF Good, Types
<1>2. \A p \in Procs : /\ proc'[p].killed = proc[p].killed /\ proc'[p].n = proc[p].n
                       /\ proc'[p].t0 = proc[p].t0
                       /\ (proc'[p].st = "ZOMBIE" <=> proc[p].st = "ZOMBIE")
                       /\ (proc'[p].st = "SLEEPING" <=> proc[p].st = "SLEEPING")
  BY <1>1 DEF NewSlot
<1>3. Doomed(N)'
  BY <1>2, DoomedKept
<1>4. Family'
  <2>1. q # 1 /\ 1 \in Procs
    BY Names DEF Good, Family, NewSlot
  <2> QED
    BY <1>1, <2>1 DEF Good, Family, NewSlot
<1>5. \A p \in Procs : Late(p)' = Late(p)
  BY <1>2 DEF Late, Elapsed
<1>6. ASSUME NEW p \in Procs PROVE Childless(p) => Childless(p)'
  <2>1. ASSUME NEW j \in Procs, proc'[j].parent = p, Childless(p) PROVE proc'[j].st # "ZOMBIE"
    <3>1. CASE j = q
      BY <1>1, <3>1 DEF NewSlot
    <3>2. CASE j # q
      BY <1>1, <2>1, <3>2 DEF Childless
    <3> QED
      BY <3>1, <3>2
  <2> QED
    BY <1>2, <2>1 DEF Childless
<1>7. \A p \in Procs : /\ TickSleeper(p, N)' => TickSleeper(p, M)
                       /\ Waiter(p, N)' => Waiter(p, M)
  BY <1>1, <1>2 DEF TickSleeper, Waiter, Threads, NewSlot
<1>8. Sleepers(N)'
  BY <1>5, <1>6, <1>7, SleepersKept
<1> QED
  BY <1>3, <1>4, <1>8

(* The thread of a processor gets, keeps or loses the slot it fills.       *)
LEMMA SlotChildren ==
    ASSUME SmpAssumption, NEW M, NEW N, Good(M), NEW x \in Threads, NEW q \in Procs,
           M[x].child = NoChild \/ M[x].child[2] = q, N[x].child = NoChild \/ N[x].child[2] = q,
           M[x].child = NoChild => proc[q].st = "UNUSED",
           N[x].child # NoChild => proc'[q].st = "EMBRYO",
           N[x].child # NoChild /\ N[x].child[1] = "start" => code'[q] = forkret,
           \A y \in Threads \ {x} : N[y].child = M[y].child,
           \A p \in Procs \ {q} : proc'[p].st = proc[p].st,
           \A p \in Procs \ {q} : proc[p].st = "EMBRYO" => code'[p] = code[p]
    PROVE  Children(N)'
<1>1. Children(M) /\ M \in [Threads -> Frames] /\ q # 0
  BY Names DEF Good, Types
<1>2. ASSUME NEW y \in Threads \ {x}, M[y].child # NoChild
      PROVE  M[y].child[2] \in Procs \ {q} /\ proc[M[y].child[2]].st = "EMBRYO"
  <2>1. M[y].child[2] \in Procs /\ proc[M[y].child[2]].st = "EMBRYO"
    BY <1>1, <1>2 DEF Children, Frames
  <2>2. CASE M[x].child = NoChild
    BY <2>1, <2>2
  <2>3. CASE M[x].child # NoChild
    BY <1>1, <1>2, <2>1, <2>3 DEF Children
  <2> QED
    BY <2>1, <2>2, <2>3
<1>3. ASSUME NEW y \in Threads, N[y].child # NoChild
      PROVE  /\ proc'[N[y].child[2]].st = "EMBRYO"
             /\ N[y].child[1] = "start" => code'[N[y].child[2]] = forkret
  <2>1. CASE y = x
    BY <1>3, <2>1
  <2>2. CASE y # x
    <3>1. PICK p \in Procs \ {q} : p = M[y].child[2] /\ proc[p].st = "EMBRYO"
      BY <1>2, <1>3, <2>2
    <3>2. M[y].child[1] = "start" => code[p] = forkret
      BY <1>1, <1>3, <2>2, <3>1 DEF Children
    <3> QED
      BY <2>2, <3>1, <3>2
  <2> QED
    BY <2>1, <2>2
<1>4. NoChild[2] = 0
  BY DEF NoChild
<1>5. ASSUME NEW y \in Threads, NEW v \in Threads, y # v, N[y].child # NoChild
      PROVE  N[y].child[2] # N[v].child[2]
  <2>1. CASE y = x
    <3>1. N[y].child[2] = q /\ N[v].child = M[v].child
      BY <1>5, <2>1
    <3> QED
      BY <1>1, <1>2, <1>4, <1>5, <2>1, <3>1
  <2>2. CASE v = x
    <3>1. N[y].child = M[y].child /\ M[y].child[2] \in Procs \ {q}
      BY <1>2, <1>5, <2>2
    <3>2. M[y].child[2] # 0
      BY <3>1, Names
    <3> QED
      BY <1>4, <2>2, <3>1, <3>2
  <2>3. CASE y # x /\ v # x
    <3>1. N[y].child = M[y].child /\ N[v].child = M[v].child
      BY <2>3
    <3>2. M[y].child[2] # M[v].child[2]
      BY <1>1, <1>5, <3>1 DEF Children
    <3> QED
      BY <3>1, <3>2
  <2> QED
    BY <2>1, <2>2, <2>3
<1> QED
  BY <1>3, <1>5 DEF Children

(* A slot that is not in use is on no processor.                           *)
LEMMA SlotOff ==
    ASSUME SmpAssumption, NEW M, Good(M), NEW q \in Procs, proc[q].st \in {"UNUSED", "EMBRYO"}
    PROVE  ~OnCpu(q) /\ M[q] = Frame("kernel")
<1>1. ~OnCpu(q)
  <2>1. ASSUME NEW d \in CPUs, cpu[d].proc = q PROVE FALSE
    <3>1. q # None
      BY Names DEF Threads
    <3> QED
      BY <2>1, <3>1, OnCpuLives
  <2> QED
    BY <2>1 DEF OnCpu
<1>2. ProcGood(q, M)
  BY <1>1 DEF Good, Machine
<1> QED
  BY <1>1, <1>2 DEF ProcGood

(* A thread in frame f takes the slot q, or gives it back, and goes on in  *)
(* frame g.                                                                *)
Fills(q, r, f, g) ==
    /\ q \in Procs /\ NewSlot(q, r) /\ r.st # "RUNNABLE"
    /\ g \in Frames /\ g.base = f.base /\ g.due = f.due /\ g.nap = f.nap
    /\ f.child = NoChild \/ f.child[2] = q
    /\ f.child = NoChild => proc[q].st = "UNUSED"
    /\ g.child = NoChild \/ (g.child = <<"copy", q>> /\ r.st = "EMBRYO")

(* Such a step keeps the invariant.                                        *)
LEMMA SlotStep ==
    ASSUME SmpAssumption, NEW M, Good(M), NEW c \in CPUs, NEW op, NEW x, NEW a, NEW t, NEW L,
           NEW i, NEW z, NEW f, NEW k, Executed(c, M, op, x, a, t, L, i, z, f, k), op # "sched",
           x \in Procs, NEW q, NEW r, NEW g, Fills(q, r, f, g),
           NEW u, u = [proc EXCEPT ![q] = r], NEW ops, Locally(c, op, u, ops),
           ops \o t \in Seq(Ops), Typed(x, ops \o t, At(L, i, "run", g))
    PROVE  SmpInv'
<1>1. /\ x = Thread(c) /\ x \in Threads /\ f = M[x] /\ proc[x].st = "RUNNING"
  BY DEF Executed, Condition
<1>0. /\ q \in Procs /\ NewSlot(q, r) /\ r.st # "RUNNABLE"
      /\ g \in Frames /\ g.base = f.base /\ g.due = f.due /\ g.nap = f.nap
  BY DEF Fills
<1>2. q # x
  BY <1>0, <1>1 DEF NewSlot
<1>3. /\ panic' = "" /\ cpu' = cpu /\ lock' = lock /\ ticks' = ticks /\ proc' = u
      /\ GoesOn(c, ops)
  BY DEF Locally, Executes
<1>4. PICK s : s = ops \o t
  OBVIOUS
<1>5. code' = [code EXCEPT ![x] = s]
  <2>1. GoesOn(c, ops)
    BY <1>3
  <2>2. code' = [code EXCEPT ![x] = ops \o t]
    BY <2>1, GoesOnWith
  <2> QED
    BY <1>4, <2>2
<1>6. /\ proc' \in [Procs -> ProcRecs] /\ proc'[q] = r
      /\ \A p \in Procs \ {q} : proc'[p] = proc[p]
  BY <1>0, <1>3 DEF Good, Types, NewSlot
<1>7. PICK N : NewFrame(N, M, x, g)
  BY <1>0, <1>1, NewFrameExists
<1>8. /\ N[x] = g /\ \A y \in Threads \ {x} : N[y] = M[y]
      /\ \A y \in Threads : N[y].base = M[y].base /\ N[y].nap = M[y].nap /\ N[y].due = M[y].due
  BY <1>0, <1>1, <1>7 DEF NewFrame
<1>9. Children(N)'
  <2>1. /\ M[x].child = NoChild \/ M[x].child[2] = q
        /\ N[x].child = NoChild \/ N[x].child[2] = q
        /\ M[x].child = NoChild => proc[q].st = "UNUSED"
        /\ N[x].child # NoChild => proc'[q].st = "EMBRYO"
        /\ N[x].child # NoChild /\ N[x].child[1] = "start" => code'[q] = forkret
    BY <1>1, <1>6, <1>8 DEF Fills
  <2>2. /\ \A y \in Threads \ {x} : N[y].child = M[y].child
        /\ \A p \in Procs \ {q} : proc'[p].st = proc[p].st
    BY <1>6, <1>8
  <2>3. ASSUME NEW p \in Procs \ {q}, proc[p].st = "EMBRYO" PROVE code'[p] = code[p]
    <3>1. p # x
      BY <1>1, <2>3
    <3> QED
      BY <1>5, <3>1 DEF Good, Types, Threads
  <2> QED
    BY <1>0, <1>1, <2>1, <2>2, <2>3, SlotChildren
<1>10. Doomed(N)' /\ Family' /\ Sleepers(N)'
  <2>1. /\ \A y \in Threads : N[y].nap = M[y].nap /\ N[y].due = M[y].due
        /\ \A p \in Procs : N[p].base = "doomed" => M[p].base = "doomed"
    BY <1>8 DEF Threads
  <2>2. proc' = [proc EXCEPT ![q] = r] /\ ticks' = ticks
    BY <1>3
  <2> QED
    BY <1>0, <2>1, <2>2, SlotTable
<1>11. Table(N)'
  BY <1>9, <1>10 DEF Table
<1>12. \A p \in Procs \ {x} : \/ Condition(proc'[p].st) = Condition(proc[p].st)
                              \/ ~OnCpu(p) /\ ProcGood(p, N)'
  <2>1. Condition(proc'[q].st) = "none" /\ Condition(proc[q].st) = "none"
    BY <1>0, <1>6 DEF NewSlot, Condition
  <2> QED
    BY <1>6, <2>1
<1>13. "run" = (IF x \in Procs THEN Condition(proc'[x].st) ELSE "run")
  BY <1>1, <1>2, <1>6 DEF Condition
<1>14. /\ panic' = "" /\ cpu' = cpu /\ lock' = lock /\ ticks' \in 0 .. W - 1
       /\ proc' \in [Procs -> ProcRecs] /\ "run" # "spin"
  BY <1>3, <1>6 DEF Good, Types
<1>15. s \in Seq(Ops) /\ Typed(x, s, At(L, i, "run", g)) /\ g \in Frames /\ g.base = f.base
  BY <1>0, <1>4
<1> QED
  BY <1>5, <1>7, <1>11, <1>12, <1>13, <1>14, <1>15, TableOp

(* allocproc() takes the first free slot, if there is one.                 *)
LEMMA AllocStep ==
    ASSUME SmpAssumption, NEW M, Good(M), NEW c \in CPUs, allocproc(c)
    PROVE  SmpInv'
<1>0. Executes(c, "allocproc")
  BY DEF allocproc, Locally
<1>1. PICK x, a, t, L, i, z, f, k : Executed(c, M, "allocproc", x, a, t, L, i, z, f, k)
  BY <1>0, Execution
<1>2. /\ x \in Procs /\ f \in Frames /\ f.nap = "no"
      /\ L = {"ptable"} /\ f.base # "sched" /\ f.child = NoChild
  BY <1>1 DEF Executed, FrameFor, LocksFor, TableOps, At, SchedulerOps, SharedOps, LockOps,
              HandlerOps
<1>3. Consistent(At({"ptable"}, i, "run", f))
  BY <1>1, <1>2 DEF Executed
<1>4. After(a, At(L, i, z, f)) = At({}, i, "run", f)
  BY <1>1 DEF Executed, After, At, LocksAfter, IntsAfter, StatusAfter, FrameAfter
<1>5. t \in Seq(Ops) /\ Typed(x, t, At({}, i, "run", f))
  BY <1>1, <1>4 DEF Executed
<1>6. Idle(f)
  BY <1>2, <1>5, NoneOwed DEF Idle
<1>7. PICK free : free = { q \in Procs : proc[q].st = "UNUSED" }
  OBVIOUS
<1>8. x \in Procs /\ "allocproc" # "sched"
  BY <1>2
<1>9. CASE free = {}
  <2>1. PICK rel : rel = <<Release("ptable")>>
    OBVIOUS
  <2>2. rel \o t \in Seq(Ops) /\ Typed(x, rel \o t, At(L, i, "run", f))
    BY <1>2, <1>3, <1>5, <2>1, ReleasePath, TypedConcat DEF Locks
  <2>3. Locally(c, "allocproc", proc, rel)
    BY <1>7, <1>9, <2>1 DEF allocproc
  <2>4. f \in Frames /\ f.base = f.base /\ f.child = f.child /\ f.due = f.due /\ f.nap = "no"
    BY <1>2
  <2> QED
    BY <1>1, <1>8, <2>2, <2>3, <2>4, SameTable
<1>10. CASE free # {}
  <2>1. PICK q : q = CHOOSE j \in free : \A r \in free : j <= r
    OBVIOUS
  <2>2. q \in free /\ q \in Procs
    <3>1. free \subseteq Procs
      BY <1>7
    <3> QED
      BY <1>10, <2>1, <3>1, FirstSlot
  <2>3. proc[q].st = "UNUSED"
    BY <1>7, <2>2
  <2>4. PICK r : r = [proc[q] EXCEPT !.st = "EMBRYO"]
    OBVIOUS
  <2>5. NewSlot(q, r) /\ r.st = "EMBRYO"
    <3>1. proc[q] \in ProcRecs /\ proc[q].parent # q
      BY <2>2, ProcFields DEF Good, Family
    <3>2. /\ r \in ProcRecs /\ r.st = "EMBRYO" /\ r.killed = proc[q].killed /\ r.n = proc[q].n
          /\ r.t0 = proc[q].t0 /\ r.parent = proc[q].parent
      BY <2>4, <3>1 DEF ProcRecs, States
    <3> QED
      BY <2>3, <3>1, <3>2 DEF NewSlot
  <2>6. PICK ops : ops = << Release("ptable"), <<"copy", q>> >>
    OBVIOUS
  <2>7. PICK u : u = [proc EXCEPT ![q] = r] /\ Locally(c, "allocproc", u, ops)
    BY <1>7, <1>10, <2>1, <2>4, <2>6 DEF allocproc
  <2>8. PICK g : g = [f EXCEPT !.child = <<"copy", q>>]
    OBVIOUS
  <2>9. /\ g \in Frames /\ g.base = f.base /\ g.h = f.h /\ g.due = f.due /\ g.nap = f.nap
        /\ g.child = <<"copy", q>> /\ f = [g EXCEPT !.child = NoChild]
    BY <1>2, <2>2, <2>8 DEF Frames
  <2>10. Consistent(At({"ptable"}, i, "run", g)) /\ Consistent(At({}, i, "run", g))
    BY <1>3, <1>6, <2>9 DEF Consistent, At, Idle
  <2>11. Leads(x, Release("ptable"), At({"ptable"}, i, "run", g), At({}, i, "run", g))
    <3>1. {"ptable"} \ {"ptable"} = {} /\ "ptable" \in {"ptable"}
      OBVIOUS
    <3> QED
      BY <2>9, <2>10, <3>1, LeadsRelease
  <2>12. Leads(x, <<"copy", q>>, At({}, i, "run", g), At({}, i, "run", f))
    BY <1>2, <2>9, <2>10, LeadsCopy
  <2>13. Release("ptable") \in Ops /\ <<"copy", q>> \in Ops
    <3>1. q \in Int
      BY <2>2, Names
    <3> QED
      BY <3>1, OpsKnown
  <2>14. ops \in Seq(Ops) /\ Path(x, ops, At({"ptable"}, i, "run", g), At({}, i, "run", f))
    BY <2>6, <2>11, <2>12, <2>13, Path2
  <2>15. ops \o t \in Seq(Ops) /\ Typed(x, ops \o t, At(L, i, "run", g))
    BY <1>2, <1>5, <2>14, TypedConcat
  <2>16. Fills(q, r, f, g)
    BY <1>2, <2>2, <2>3, <2>5, <2>9 DEF Fills
  <2> QED
    BY <1>1, <1>8, <2>7, <2>15, <2>16, SlotStep
<1> QED
  BY <1>9, <1>10

(* A fork() that fails gives the slot back.                                *)
LEMMA ForkfailsStep ==
    ASSUME SmpAssumption, NEW M, Good(M), NEW c \in CPUs, forkfails(c)
    PROVE  SmpInv'
<1>1. PICK x, a, t, L, i, z, f, k : Executed(c, M, "copy", x, a, t, L, i, z, f, k)
  BY Execution DEF forkfails
<1>2. PICK q : q = a[2]
  OBVIOUS
<1>3. /\ x \in Procs /\ x \in Threads /\ f \in Frames /\ f = M[x]
      /\ f.child = <<"copy", q>> /\ Arg(c) = q
  BY <1>1, <1>2 DEF Executed, FrameFor, SchedulerOps, SharedOps, LockOps, HandlerOps, Threads
<1>4. f.child # NoChild /\ f.child[2] = q
  BY <1>3 DEF NoChild
<1>5. q \in Procs /\ proc[q].st = "EMBRYO"
  BY <1>3, <1>4 DEF Good, Children, Frames
<1>6. PICK r : r = [proc[q] EXCEPT !.st = "UNUSED"]
  OBVIOUS
<1>7. NewSlot(q, r) /\ r.st = "UNUSED"
  <2>1. proc[q] \in ProcRecs /\ proc[q].parent # q
    BY <1>5, ProcFields DEF Good, Family
  <2>2. /\ r \in ProcRecs /\ r.st = "UNUSED" /\ r.killed = proc[q].killed /\ r.n = proc[q].n
        /\ r.t0 = proc[q].t0 /\ r.parent = proc[q].parent
    BY <1>6, <2>1 DEF ProcRecs, States
  <2> QED
    BY <1>5, <2>1, <2>2 DEF NewSlot
<1>8. PICK g : g = [f EXCEPT !.child = NoChild]
  OBVIOUS
<1>9. g \in Frames /\ g.base = f.base /\ g.due = f.due /\ g.nap = f.nap /\ g.child = NoChild
  BY <1>3, <1>8 DEF Frames
<1>10. PICK u, ops : u = [proc EXCEPT ![q] = r] /\ ops = <<>> /\ Locally(c, "copy", u, ops)
  BY <1>3, <1>6 DEF forkfails
<1>11. After(a, At(L, i, z, f)) = At(L, i, "run", g)
  BY <1>1, <1>8 DEF Executed, After, At, LocksAfter, IntsAfter, StatusAfter, FrameAfter
<1>12. ops \o t \in Seq(Ops) /\ Typed(x, ops \o t, At(L, i, "run", g))
  <2>1. t \in Seq(Ops) /\ Typed(x, t, At(L, i, "run", g))
    BY <1>1, <1>11 DEF Executed
  <2>2. ops \o t = t
    BY <1>10, <2>1, ConcatEmptySeq
  <2> QED
    BY <2>1, <2>2
<1>13. Fills(q, r, f, g)
  BY <1>4, <1>5, <1>7, <1>9 DEF Fills
<1>14. x \in Procs /\ "copy" # "sched"
  BY <1>3
<1>16. u = [proc EXCEPT ![q] = r] /\ Locally(c, "copy", u, ops)
  BY <1>10
<1> QED
  BY <1>1, <1>12, <1>13, <1>14, <1>16, SlotStep

(* fork() gives the new process its parent and the code it starts with.    *)
LEMMA ForkcopiesStep ==
    ASSUME SmpAssumption, NEW M, Good(M), NEW c \in CPUs, forkcopies(c)
    PROVE  SmpInv'
<1>1. PICK x, a, t, L, i, z, f, k : Executed(c, M, "copy", x, a, t, L, i, z, f, k)
  BY Execution DEF forkcopies
<1>2. PICK q : q = a[2]
  OBVIOUS
<1>3. /\ x \in Procs /\ x \in Threads /\ x = Thread(c) /\ f \in Frames /\ f = M[x]
      /\ f.child = <<"copy", q>> /\ Arg(c) = q /\ f.base # "sched" /\ f.nap = "no" /\ L = {}
      /\ proc[x].st = "RUNNING"
  BY <1>1, <1>2 DEF Executed, FrameFor, LocksFor, FreeOps, At, SchedulerOps, SharedOps, LockOps,
                    HandlerOps, Threads, Condition
<1>4. f.child # NoChild /\ f.child[2] = q
  BY <1>3 DEF NoChild
<1>5. q \in Procs /\ proc[q].st = "EMBRYO" /\ q # x /\ q \in Threads
  BY <1>3, <1>4 DEF Good, Children, Frames, Threads
<1>6. PICK r : r = [proc[q] EXCEPT !.parent = x]
  OBVIOUS
<1>7. NewSlot(q, r) /\ r.st = "EMBRYO"
  <2>1. proc[q] \in ProcRecs
    BY <1>5, ProcFields
  <2>2. /\ r \in ProcRecs /\ r.st = "EMBRYO" /\ r.killed = proc[q].killed /\ r.n = proc[q].n
        /\ r.t0 = proc[q].t0 /\ r.parent = x
    BY <1>3, <1>5, <1>6, <2>1 DEF ProcRecs, States
  <2> QED
    BY <1>5, <2>2 DEF NewSlot
<1>8. PICK g, h : g = [f EXCEPT !.child = <<"start", q>>] /\ h = [f EXCEPT !.child = NoChild]
  OBVIOUS
<1>9. /\ g \in Frames /\ g.base = f.base /\ g.h = f.h /\ g.due = f.due /\ g.nap = f.nap
      /\ g.child = <<"start", q>> /\ h \in Frames /\ h = [g EXCEPT !.child = NoChild]
      /\ h.base = f.base /\ h.h = f.h /\ h.due = f.due /\ h.nap = f.nap
  BY <1>3, <1>5, <1>8 DEF Frames
<1>10. PICK ops : ops = << Acquire("ptable"), <<"start", q>>, Release("ptable") >>
  OBVIOUS
<1>11. PICK s : s = ops \o t
  OBVIOUS
<1>12. After(a, At(L, i, z, f)) = At({}, i, "run", h)
  BY <1>1, <1>3, <1>8 DEF Executed, After, At, LocksAfter, IntsAfter, StatusAfter, FrameAfter
<1>13. t \in Seq(Ops) /\ Typed(x, t, At({}, i, "run", h))
  BY <1>1, <1>12 DEF Executed
<1>14. s \in Seq(Ops) /\ Typed(x, s, At(L, i, "run", g))
  <2>1. Consistent(At({}, i, "run", f))
    BY <1>1, <1>3 DEF Executed
  <2>2. /\ Consistent(At({}, i, "run", g)) /\ Consistent(At({"ptable"}, i, "run", g))
        /\ Consistent(At({"ptable"}, i, "run", h))
    BY <1>3, <1>9, <2>1 DEF Consistent, At
  <2>3. Leads(x, Acquire("ptable"), At({}, i, "run", g), At({"ptable"}, i, "run", g))
    <3>1. {} \cup {"ptable"} = {"ptable"} /\ "ptable" \in Locks /\ g \in Frames
      BY <1>9 DEF Locks
    <3> QED
      BY <2>2, <3>1, LeadsAcquire
  <2>4. Leads(x, <<"start", q>>, At({"ptable"}, i, "run", g), At({"ptable"}, i, "run", h))
    BY <1>3, <1>9, <2>2, LeadsStart
  <2>5. Leads(x, Release("ptable"), At({"ptable"}, i, "run", h), At({}, i, "run", h))
    <3>1. {"ptable"} \ {"ptable"} = {} /\ "ptable" \in {"ptable"}
      OBVIOUS
    <3> QED
      BY <1>9, <2>2, <3>1, LeadsRelease
  <2>6. Acquire("ptable") \in Ops /\ <<"start", q>> \in Ops /\ Release("ptable") \in Ops
    <3>1. q \in Int
      BY <1>5, Names
    <3> QED
      BY <3>1, OpsKnown
  <2>7. ops \in Seq(Ops) /\ Path(x, ops, At({}, i, "run", g), At({}, i, "run", h))
    BY <1>10, <2>3, <2>4, <2>5, <2>6, Path3
  <2> QED
    BY <1>3, <1>11, <1>13, <2>7, TypedConcat
<1>15. /\ panic' = "" /\ cpu' = cpu /\ lock' = lock /\ ticks' = ticks
       /\ proc' = [proc EXCEPT ![q] = r]
  BY <1>3, <1>6 DEF forkcopies, Executes
<1>16. code' = [code EXCEPT ![x] = s, ![q] = forkret]
  <2>1. t = Tail(code[x])
    BY <1>1 DEF Executed
  <2> QED
    BY <1>3, <1>10, <1>11, <2>1 DEF forkcopies
<1>17. forkret \in Seq(Ops)
  BY OpsKnown, ShortSeqs DEF forkret
<1>18. /\ code' \in [Threads -> Seq(Ops)] /\ code'[x] = s /\ code'[q] = forkret
       /\ \A y \in Threads \ {x, q} : code'[y] = code[y]
  BY <1>3, <1>5, <1>14, <1>16, <1>17 DEF Good, Types
<1>19. /\ proc' \in [Procs -> ProcRecs] /\ proc'[q] = r
       /\ \A p \in Procs \ {q} : proc'[p] = proc[p]
  BY <1>5, <1>7, <1>15 DEF Good, Types, NewSlot
<1>20. PICK N : NewFrame(N, M, x, g)
  BY <1>3, <1>9, NewFrameExists
<1>21. /\ N \in [Threads -> Frames] /\ N[x] = g /\ \A y \in Threads \ {x} : N[y] = M[y]
       /\ \A y \in Threads : N[y].base = M[y].base /\ N[y].nap = M[y].nap /\ N[y].due = M[y].due
  BY <1>3, <1>9, <1>20 DEF NewFrame
<1>22. Children(N)'
  <2>1. /\ M[x].child = NoChild \/ M[x].child[2] = q
        /\ N[x].child = NoChild \/ N[x].child[2] = q
        /\ M[x].child = NoChild => proc[q].st = "UNUSED"
        /\ N[x].child # NoChild => proc'[q].st = "EMBRYO"
        /\ N[x].child # NoChild /\ N[x].child[1] = "start" => code'[q] = forkret
    BY <1>3, <1>4, <1>7, <1>9, <1>18, <1>19, <1>21
  <2>2. /\ \A y \in Threads \ {x} : N[y].child = M[y].child
        /\ \A p \in Procs \ {q} : proc'[p].st = proc[p].st
    BY <1>19, <1>21
  <2>3. ASSUME NEW p \in Procs \ {q}, proc[p].st = "EMBRYO" PROVE code'[p] = code[p]
    <3>1. p # x
      BY <1>3, <2>3
    <3> QED
      BY <1>18, <3>1 DEF Threads
  <2>4. q \in Procs /\ x \in Threads
    BY <1>3, <1>5
  <2> QED
    BY <2>1, <2>2, <2>3, <2>4, SlotChildren
<1>23. Doomed(N)' /\ Family' /\ Sleepers(N)'
  <2>1. /\ \A y \in Threads : N[y].nap = M[y].nap /\ N[y].due = M[y].due
        /\ \A p \in Procs : N[p].base = "doomed" => M[p].base = "doomed"
    BY <1>21 DEF Threads
  <2>2. q \in Procs /\ NewSlot(q, r) /\ proc' = [proc EXCEPT ![q] = r] /\ ticks' = ticks
    BY <1>5, <1>7, <1>15
  <2> QED
    BY <2>1, <2>2, SlotTable
<1>24. Table(N)'
  BY <1>22, <1>23 DEF Table
<1>25. Others(x, M, N)
  <2>1. ASSUME NEW y \in Threads \ {x}
        PROVE  Untouched(y, M, N) \/ (y \in Procs /\ ~OnCpu(y) /\ ProcGood(y, N)')
    <3>1. CASE y = q
      <4>1. ~OnCpu(q) /\ M[q] = Frame("kernel")
        BY <1>5, SlotOff
      <4>2. proc'[q].st = "EMBRYO" /\ N[q] = Frame("kernel")
        BY <1>5, <1>7, <1>19, <1>21, <4>1
      <4>3. ProcGood(q, N)'
        BY <4>2 DEF ProcGood
      <4> QED
        BY <1>5, <3>1, <4>1, <4>3
    <3>2. CASE y # q
      BY <1>18, <1>19, <1>21, <3>2 DEF Untouched
    <3> QED
      BY <3>1, <3>2
  <2> QED
    BY <2>1 DEF Others
<1>26. "run" = (IF x \in Procs THEN Condition(proc'[x].st) ELSE "run")
  BY <1>3, <1>5, <1>19 DEF Condition
<1>27. Stays(c, x, k, L, i)
  <2>1. cpu' = [cpu EXCEPT ![c] = k]
    BY <1>1, <1>15 DEF Executed, Good, Types
  <2> QED
    BY <1>1, <1>15, <2>1 DEF Executed, Stays
<1>28. /\ panic' = "" /\ ticks' \in 0 .. W - 1 /\ proc' \in [Procs -> ProcRecs]
       /\ code' \in [Threads -> Seq(Ops)] /\ code'[x] = s /\ N \in [Threads -> Frames]
       /\ "run" # "spin"
  BY <1>15, <1>18, <1>19, <1>21 DEF Good, Types
<1>29. N[x].base = "sched" <=> M[x].base = "sched"
  BY <1>3, <1>21
<1>30. Typed(x, s, At(L, i, "run", N[x]))
  BY <1>14, <1>21
<1> QED
  BY <1>24, <1>25, <1>26, <1>27, <1>28, <1>29, <1>30, TableStep

(* A new process gives back the lock its scheduler took and starts.        *)
LEMMA ForkretTyped ==
    ASSUME NEW q \in Procs, NEW b \in BOOLEAN
    PROVE  Typed(q, forkret, At({"ptable"}, b, "run", Frame("fresh"))) /\ forkret \in Seq(Ops)
<1>1. PICK f : f = Frame("fresh")
  OBVIOUS
<1>2. /\ f \in Frames /\ f.base = "fresh" /\ ~f.h /\ f.nap = "no" /\ f.child = NoChild /\ ~f.due
      /\ [f EXCEPT !.base = "kernel"] = Frame("kernel")
  <2>1. /\ f \in Frames /\ f.base = "fresh" /\ ~f.h /\ f.nap = "no" /\ f.child = NoChild /\ ~f.due
    BY <1>1 DEF Frame, Frames
  <2>2. [f EXCEPT !.base = "kernel"] = Frame("kernel")
    <3>1. PICK g : g = [f EXCEPT !.base = "kernel"]
      OBVIOUS
    <3>2. /\ g \in Frames /\ g.base = "kernel" /\ g.h = f.h /\ g.nap = f.nap
          /\ g.child = f.child /\ g.due = f.due
      BY <2>1, <3>1 DEF Frames
    <3>3. f.h = FALSE /\ f.due = FALSE
      BY <1>1 DEF Frame
    <3>4. g = Frame("kernel")
      BY <2>1, <3>2, <3>3 DEF Frame, Frames
    <3> QED
      BY <3>1, <3>4
  <2> QED
    BY <2>1, <2>2
<1>3. Consistent(At({"ptable"}, b, "run", f)) /\ Consistent(At({}, b, "run", f))
  BY <1>2 DEF Consistent, At
<1>4. Leads(q, Release("ptable"), At({"ptable"}, b, "run", f), At({}, b, "run", f))
  <2>1. {"ptable"} \ {"ptable"} = {} /\ "ptable" \in {"ptable"}
    OBVIOUS
  <2> QED
    BY <1>2, <1>3, <2>1, LeadsRelease
<1>5. Leads(q, <<"iret">>, At({}, b, "run", f), UserMode)
  BY <1>2, <1>3, LeadsFresh DEF UserMode
<1>6. forkret \in Seq(Ops) /\ Path(q, forkret, At({"ptable"}, b, "run", f), UserMode)
  BY <1>4, <1>5, OpsKnown, Path2 DEF forkret
<1> QED
  BY <1>1, <1>6 DEF Typed, Final

(* The new process may run, on any processor.                              *)
LEMMA StartStep ==
    ASSUME SmpAssumption, NEW M, Good(M), NEW c \in CPUs, start(c)
    PROVE  SmpInv'
<1>1. PICK x, a, t, L, i, z, f, k : Executed(c, M, "start", x, a, t, L, i, z, f, k)
  BY Execution DEF start
<1>2. PICK q : q = a[2]
  OBVIOUS
<1>3. /\ x \in Procs /\ x \in Threads /\ x = Thread(c) /\ f \in Frames /\ f = M[x]
      /\ f.child = <<"start", q>> /\ Arg(c) = q /\ f.base # "sched" /\ f.nap = "no"
      /\ proc[x].st = "RUNNING"
  BY <1>1, <1>2 DEF Executed, FrameFor, At, SchedulerOps, SharedOps, LockOps,
                    HandlerOps, Threads, Condition
<1>4. f.child # NoChild /\ f.child[2] = q /\ f.child[1] = "start"
  BY <1>3 DEF NoChild
<1>5. q \in Procs /\ proc[q].st = "EMBRYO" /\ q # x /\ q \in Threads /\ code[q] = forkret
  BY <1>3, <1>4 DEF Good, Children, Frames, Threads
<1>6. ~OnCpu(q) /\ M[q] = Frame("kernel")
  BY <1>5, SlotOff
<1>7. PICK r : r = [proc[q] EXCEPT !.st = "RUNNABLE"]
  OBVIOUS
<1>8. NewSlot(q, r) /\ r.st = "RUNNABLE"
  <2>1. proc[q] \in ProcRecs /\ proc[q].parent # q
    BY <1>5, ProcFields DEF Good, Family
  <2>2. /\ r \in ProcRecs /\ r.st = "RUNNABLE" /\ r.killed = proc[q].killed /\ r.n = proc[q].n
        /\ r.t0 = proc[q].t0 /\ r.parent = proc[q].parent
    BY <1>5, <1>7, <2>1 DEF ProcRecs, States
  <2> QED
    BY <1>5, <2>1, <2>2 DEF NewSlot
<1>9. PICK g : g = [f EXCEPT !.child = NoChild]
  OBVIOUS
<1>10. /\ g \in Frames /\ g.base = f.base /\ g.due = f.due /\ g.nap = f.nap /\ g.child = NoChild
  BY <1>3, <1>9 DEF Frames
<1>11. After(a, At(L, i, z, f)) = At(L, i, "run", g)
  BY <1>1, <1>9 DEF Executed, After, At, LocksAfter, IntsAfter, StatusAfter, FrameAfter
<1>12. t \in Seq(Ops) /\ Typed(x, t, At(L, i, "run", g))
  BY <1>1, <1>11 DEF Executed
<1>13. PICK u : u = [proc EXCEPT ![q] = r] /\ Locally(c, "start", u, <<>>)
  BY <1>3, <1>7 DEF start
<1>14. /\ panic' = "" /\ cpu' = cpu /\ lock' = lock /\ ticks' = ticks /\ proc' = u
       /\ GoesOn(c, <<>>)
  BY <1>13 DEF Locally, Executes
<1>15. GoesOn(c, <<>>)
  BY <1>14
<1>16. code' = [code EXCEPT ![x] = t]
  BY <1>1, <1>15, GoesOnPlain
<1>17. /\ code' \in [Threads -> Seq(Ops)] /\ code'[x] = t
       /\ \A y \in Threads \ {x} : code'[y] = code[y]
  BY <1>3, <1>12, <1>16 DEF Good, Types
<1>18. /\ proc' \in [Procs -> ProcRecs] /\ proc'[q] = r
       /\ \A p \in Procs \ {q} : proc'[p] = proc[p]
  BY <1>5, <1>8, <1>13, <1>14 DEF Good, Types, NewSlot
<1>19. PICK e : e = Frame("fresh")
  OBVIOUS
<1>20. /\ e \in Frames /\ e.base = "fresh" /\ e.child = NoChild /\ ~e.due /\ e.nap = "no"
       /\ M[q].child = NoChild /\ M[q].nap = "no" /\ M[q].due = FALSE /\ e.due = FALSE
  BY <1>6, <1>19 DEF Frame, Frames
<1>21. PICK N : N = [[M EXCEPT ![x] = g] EXCEPT ![q] = e]
  OBVIOUS
<1>22. /\ N \in [Threads -> Frames] /\ N[x] = g /\ N[q] = e
       /\ \A y \in Threads \ {x, q} : N[y] = M[y]
  BY <1>3, <1>5, <1>10, <1>20, <1>21 DEF Good, Types
<1>23. /\ \A y \in Threads : N[y].nap = M[y].nap /\ N[y].due = M[y].due
       /\ \A p \in Procs : N[p].base = "doomed" => M[p].base = "doomed"
       /\ \A y \in Threads \ {x} : N[y].child = M[y].child
  <2>1. \A y \in Threads : y = x \/ y = q \/ y \in Threads \ {x, q}
    OBVIOUS
  <2>2. \A y \in Threads : N[y].nap = M[y].nap /\ N[y].due = M[y].due
    <3>1. N[x].nap = M[x].nap /\ N[x].due = M[x].due
      BY <1>3, <1>10, <1>22
    <3>2. N[q].nap = M[q].nap /\ N[q].due = M[q].due
      BY <1>20, <1>22
    <3> QED
      BY <1>22, <2>1, <3>1, <3>2
  <2>3. \A p \in Procs : N[p].base = "doomed" => M[p].base = "doomed"
    BY <1>3, <1>10, <1>20, <1>22, <2>1 DEF Threads
  <2>4. \A y \in Threads \ {x} : N[y].child = M[y].child
    BY <1>3, <1>10, <1>20, <1>22, <2>1
  <2> QED
    BY <2>2, <2>3, <2>4
<1>24. Children(N)'
  <2>1. /\ M[x].child = NoChild \/ M[x].child[2] = q
        /\ N[x].child = NoChild \/ N[x].child[2] = q
        /\ M[x].child = NoChild => proc[q].st = "UNUSED"
        /\ N[x].child # NoChild => proc'[q].st = "EMBRYO"
        /\ N[x].child # NoChild /\ N[x].child[1] = "start" => code'[q] = forkret
    BY <1>3, <1>4, <1>10, <1>22
  <2>2. /\ \A y \in Threads \ {x} : N[y].child = M[y].child
        /\ \A p \in Procs \ {q} : proc'[p].st = proc[p].st
    BY <1>18, <1>23
  <2>3. ASSUME NEW p \in Procs \ {q}, proc[p].st = "EMBRYO" PROVE code'[p] = code[p]
    <3>1. p # x
      BY <1>3, <2>3
    <3> QED
      BY <1>17, <3>1 DEF Threads
  <2>4. q \in Procs /\ x \in Threads
    BY <1>3, <1>5
  <2> QED
    BY <2>1, <2>2, <2>3, <2>4, SlotChildren
<1>25. Doomed(N)' /\ Family' /\ Sleepers(N)'
  <2>1. /\ \A y \in Threads : N[y].nap = M[y].nap /\ N[y].due = M[y].due
        /\ \A p \in Procs : N[p].base = "doomed" => M[p].base = "doomed"
    BY <1>23
  <2>2. q \in Procs /\ NewSlot(q, r) /\ proc' = [proc EXCEPT ![q] = r] /\ ticks' = ticks
    BY <1>5, <1>8, <1>13, <1>14
  <2> QED
    BY <2>1, <2>2, SlotTable
<1>26. Table(N)'
  BY <1>24, <1>25 DEF Table
<1>27. Others(x, M, N)
  <2>1. ASSUME NEW y \in Threads \ {x}
        PROVE  Untouched(y, M, N) \/ (y \in Procs /\ ~OnCpu(y) /\ ProcGood(y, N)')
    <3>1. CASE y = q
      <4>1. proc'[q].st = "RUNNABLE" /\ N[q] = e /\ code'[q] = forkret
        BY <1>5, <1>8, <1>17, <1>18, <1>22
      <4>2. \A b \in BOOLEAN : Typed(q, forkret, At({"ptable"}, b, "run", e))
        BY <1>5, <1>19, ForkretTyped
      <4>3. ProcGood(q, N)'
        BY <1>20, <4>1, <4>2 DEF ProcGood
      <4> QED
        BY <1>5, <1>6, <3>1, <4>3
    <3>2. CASE y # q
      BY <1>17, <1>18, <1>22, <3>2 DEF Untouched
    <3> QED
      BY <3>1, <3>2
  <2> QED
    BY <2>1 DEF Others
<1>28. "run" = (IF x \in Procs THEN Condition(proc'[x].st) ELSE "run")
  BY <1>3, <1>5, <1>18 DEF Condition
<1>29. Stays(c, x, k, L, i)
  <2>1. cpu' = [cpu EXCEPT ![c] = k]
    BY <1>1, <1>14 DEF Executed, Good, Types
  <2> QED
    BY <1>1, <1>14, <2>1 DEF Executed, Stays
<1>30. /\ panic' = "" /\ ticks' \in 0 .. W - 1 /\ proc' \in [Procs -> ProcRecs]
       /\ code' \in [Threads -> Seq(Ops)] /\ code'[x] = t /\ N \in [Threads -> Frames]
       /\ "run" # "spin"
  BY <1>14, <1>17, <1>18, <1>22 DEF Good, Types
<1>31. N[x].base = "sched" <=> M[x].base = "sched"
  BY <1>3, <1>10, <1>22
<1>32. Typed(x, t, At(L, i, "run", N[x]))
  BY <1>12, <1>22
<1> QED
  BY <1>26, <1>27, <1>28, <1>29, <1>30, <1>31, <1>32, TableStep

----------------------------------------------------------------------------
(* exit() and kill().                                                      *)

(* The table once the children of process x have gone to initproc.         *)
Adopted(x) ==
    [q \in Procs |-> IF q \in Orphans(x) THEN [proc[q] EXCEPT !.parent = 1] ELSE proc[q]]

(* The table after exit() of process x, which wakes the processes in S.    *)
ExitTable(x, S) == [Wake(Adopted(x), S) EXCEPT ![x].st = "ZOMBIE"]

(* Its records.                                                            *)
LEMMA ExitFacts ==
    ASSUME SmpAssumption, NEW M, Good(M), NEW x \in Procs, NEW S, NEW u,
           u = ExitTable(x, S)
    PROVE  /\ u \in [Procs -> ProcRecs]
           /\ \A p \in Procs :
                /\ u[p].st = (IF p = x THEN "ZOMBIE" ELSE IF p \in S THEN "RUNNABLE"
                              ELSE proc[p].st)
                /\ u[p].chan = proc[p].chan /\ u[p].killed = proc[p].killed
                /\ u[p].n = proc[p].n /\ u[p].t0 = proc[p].t0
                /\ u[p].parent = (IF proc[p].parent = x THEN 1 ELSE proc[p].parent)
<1>1. PICK v : v = Adopted(x)
  OBVIOUS
<1>2. ASSUME NEW p \in Procs
      PROVE  /\ v[p] \in ProcRecs /\ v[p].st = proc[p].st /\ v[p].chan = proc[p].chan
             /\ v[p].killed = proc[p].killed /\ v[p].n = proc[p].n /\ v[p].t0 = proc[p].t0
             /\ v[p].parent = (IF proc[p].parent = x THEN 1 ELSE proc[p].parent)
  <2>1. PICK r : r = proc[p]
    OBVIOUS
  <2>2. r \in ProcRecs /\ 1 \in Procs
    BY <2>1, ProcFields, Names
  <2>3. v[p] = IF r.parent = x THEN [r EXCEPT !.parent = 1] ELSE r
    BY <1>1, <2>1 DEF Adopted, Orphans
  <2> QED
    BY <2>1, <2>2, <2>3 DEF ProcRecs
<1>3. v \in [Procs -> ProcRecs]
  BY <1>1, <1>2 DEF Adopted
<1>4. PICK w : w = Wake(v, S)
  OBVIOUS
<1>5. /\ w \in [Procs -> ProcRecs]
      /\ \A p \in Procs :
           /\ w[p].st = (IF p \in S THEN "RUNNABLE" ELSE v[p].st)
           /\ w[p].chan = v[p].chan /\ w[p].killed = v[p].killed
           /\ w[p].parent = v[p].parent /\ w[p].n = v[p].n /\ w[p].t0 = v[p].t0
  BY <1>3, <1>4, WakeFacts
<1>6. PICK r : r = w[x]
  OBVIOUS
<1>7. PICK rr : rr = [r EXCEPT !.st = "ZOMBIE"]
  OBVIOUS
<1>8. /\ rr \in ProcRecs /\ rr.st = "ZOMBIE" /\ rr.chan = r.chan /\ rr.killed = r.killed
      /\ rr.parent = r.parent /\ rr.n = r.n /\ rr.t0 = r.t0
  <2>1. r \in ProcRecs
    BY <1>5, <1>6
  <2> QED
    BY <1>7, <2>1 DEF ProcRecs, States
<1>9. u = [w EXCEPT ![x] = rr]
  BY <1>1, <1>4, <1>6, <1>7 DEF ExitTable
<1>10. u \in [Procs -> ProcRecs] /\ u[x] = rr /\ \A p \in Procs \ {x} : u[p] = w[p]
  BY <1>5, <1>8, <1>9
<1>11. ASSUME NEW p \in Procs
      PROVE  /\ u[p].st = (IF p = x THEN "ZOMBIE" ELSE IF p \in S THEN "RUNNABLE"
                              ELSE proc[p].st)
             /\ u[p].chan = proc[p].chan /\ u[p].killed = proc[p].killed
             /\ u[p].n = proc[p].n /\ u[p].t0 = proc[p].t0
             /\ u[p].parent = (IF proc[p].parent = x THEN 1 ELSE proc[p].parent)
  <2>1. CASE p = x
    <3>1. /\ w[x].chan = proc[x].chan /\ w[x].killed = proc[x].killed /\ w[x].n = proc[x].n
          /\ w[x].t0 = proc[x].t0
          /\ w[x].parent = (IF proc[x].parent = x THEN 1 ELSE proc[x].parent)
      BY <1>2, <1>5
    <3>2. /\ u[x].st = "ZOMBIE"
          /\ u[x].chan = proc[x].chan /\ u[x].killed = proc[x].killed /\ u[x].n = proc[x].n
          /\ u[x].t0 = proc[x].t0 /\ u[x].parent = w[x].parent
      BY <1>6, <1>8, <1>10, <3>1
    <3> QED
      BY <2>1, <3>1, <3>2
  <2>2. CASE p # x
    BY <1>2, <1>5, <1>10, <2>2
  <2> QED
    BY <2>1, <2>2
<1> QED
  BY <1>10, <1>11

(* exit(): nobody who waits is left asleep, neither the parent nor init,   *)
(* which gets the children.                                                *)
LEMMA ExitStep ==
    ASSUME SmpAssumption, NEW M, Good(M), NEW c \in CPUs, exitstep(c)
    PROVE  SmpInv'
<1>1. PICK x, a, t, L, i, z, f, k : Executed(c, M, "exit", x, a, t, L, i, z, f, k)
  BY Execution DEF exitstep, Locally
<1>2. /\ x = Thread(c) /\ x \in Procs /\ x \in Threads /\ f = M[x] /\ f \in Frames /\ f.nap = "no"
      /\ x # 1 /\ "ptable" \in Held(c) /\ proc[x].st = "RUNNING"
  BY <1>1 DEF Executed, FrameFor, LocksFor, At, TableOps, SchedulerOps, SharedOps, LockOps,
              HandlerOps, Condition
<1>3. After(a, At(L, i, z, f)) = At(L, i, "dead", f)
  BY <1>1 DEF Executed, After, At, LocksAfter, IntsAfter, StatusAfter, FrameAfter
<1>4. t \in Seq(Ops) /\ Typed(x, t, At(L, i, "dead", f))
  BY <1>1, <1>3 DEF Executed
<1>5. PICK S, u : /\ S = ExitWakes(x) /\ u = ExitTable(x, S)
                  /\ Locally(c, "exit", u, <<>>)
  BY <1>2 DEF exitstep, Adopted, ExitTable
<1>6. /\ panic' = "" /\ cpu' = cpu /\ lock' = lock /\ ticks' = ticks /\ proc' = u
      /\ GoesOn(c, <<>>)
  BY <1>5 DEF Locally, Executes
<1>7. GoesOn(c, <<>>)
  BY <1>6
<1>8. code' = [code EXCEPT ![x] = t]
  BY <1>1, <1>7, GoesOnPlain
<1>9. /\ u \in [Procs -> ProcRecs]
      /\ \A p \in Procs :
           /\ u[p].st = (IF p = x THEN "ZOMBIE" ELSE IF p \in S THEN "RUNNABLE" ELSE proc[p].st)
           /\ u[p].chan = proc[p].chan /\ u[p].killed = proc[p].killed
           /\ u[p].n = proc[p].n /\ u[p].t0 = proc[p].t0
           /\ u[p].parent = (IF proc[p].parent = x THEN 1 ELSE proc[p].parent)
  <2>1. u = ExitTable(x, S)
    BY <1>5
  <2>2. x \in Procs
    BY <1>2
  <2> QED
    BY <2>1, <2>2, ExitFacts
<1>10. /\ proc' \in [Procs -> ProcRecs]
       /\ \A p \in Procs :
            /\ proc'[p].st = (IF p = x THEN "ZOMBIE" ELSE IF p \in S THEN "RUNNABLE" ELSE proc[p].st)
            /\ proc'[p].chan = proc[p].chan /\ proc'[p].killed = proc[p].killed
            /\ proc'[p].n = proc[p].n /\ proc'[p].t0 = proc[p].t0
            /\ proc'[p].parent = (IF proc[p].parent = x THEN 1 ELSE proc[p].parent)
  BY <1>6, <1>9
<1>11. \A p \in Procs : p \in S => proc[p].st = "SLEEPING"
  BY <1>5 DEF ExitWakes, Woken
<1>12. \A p \in Procs \ {x} : Condition(proc'[p].st) = Condition(proc[p].st)
  BY <1>10, <1>11 DEF Condition
<1>13. Children(M)'
  <2>1. ASSUME NEW q \in Procs, proc[q].st = "EMBRYO"
        PROVE  proc'[q].st = "EMBRYO" /\ code'[q] = code[q]
    <3>1. q # x
      BY <1>2, <2>1
    <3> QED
      BY <1>8, <1>10, <1>11, <2>1, <3>1 DEF Good, Types, Threads
  <2> QED
    BY <2>1, ChildrenKept
<1>14. Doomed(M)'
  BY <1>10, DoomedKept
<1>15. /\ 1 \in Procs /\ None \notin Procs
       /\ proc[1].st \in {"SLEEPING", "RUNNABLE", "RUNNING"} /\ ~proc[1].killed
       /\ proc[1].parent = None /\ \A p \in Procs : proc[p].parent # p
  BY Names DEF Good, Family, Threads
<1>16. Family'
  BY <1>2, <1>10, <1>15 DEF Family
<1>17. Sleepers(M)'
  <2>1. ASSUME NEW p \in Procs, TickSleeper(p, M)', Late(p)'
        PROVE  TickSleeper(p, M) /\ Late(p)
    <3>1. Late(p)
      BY <1>6, <1>10, <2>1 DEF Late, Elapsed
    <3>2. proc'[p].st = "SLEEPING" => proc[p].st = "SLEEPING"
      BY <1>10
    <3> QED
      BY <1>10, <2>1, <3>1, <3>2 DEF TickSleeper
  <2>2. ASSUME NEW p \in Procs, Waiter(p, M)'
        PROVE  Waiter(p, M) /\ (Childless(p) => Childless(p)')
    <3>1. p # x
      BY <1>2, <1>10, <2>2 DEF Waiter
    <3>2. M[p].nap # "wait"
      BY <1>2, <3>1, TableOwner
    <3>3. proc'[p].st = "SLEEPING" /\ proc'[p].chan = p
      BY <2>2, <3>2 DEF Waiter
    <3>4. proc[p].st = "SLEEPING" /\ proc[p].chan = p /\ p \notin S
      BY <1>10, <3>1, <3>3
    <3>5. p \notin Woken(proc[x].parent)
      BY <1>5, <3>4 DEF ExitWakes
    <3>6. proc[x].parent # p
      BY <3>4, <3>5 DEF Woken
    <3>7. ASSUME NEW q \in Procs, proc[q].parent = x, proc[q].st = "ZOMBIE" PROVE p # 1
      <4>1. Woken(1) \subseteq S
        BY <1>5, <3>7 DEF ExitWakes, Orphans
      <4> QED
        BY <3>4, <4>1 DEF Woken
    <3>8. ASSUME NEW q \in Procs, proc'[q].parent = p, Childless(p) PROVE proc'[q].st # "ZOMBIE"
      <4>1. CASE q = x
        BY <1>10, <1>15, <3>6, <3>8, <4>1
      <4>2. CASE q # x /\ proc[q].parent = x
        BY <1>10, <3>7, <3>8, <4>2
      <4>3. CASE q # x /\ proc[q].parent # x
        BY <1>10, <3>8, <4>3 DEF Childless
      <4> QED
        BY <4>1, <4>2, <4>3
    <3>9. Waiter(p, M)
      BY <3>4 DEF Waiter
    <3> QED
      BY <1>10, <3>8, <3>9 DEF Childless
  <2> QED
    BY <2>1, <2>2, SleepersKept
<1>18. Table(M)'
  BY <1>13, <1>14, <1>16, <1>17 DEF Table
<1>19. NewFrame(M, M, x, f)
  BY <1>2, SameFrame
<1>20. \A p \in Procs \ {x} : \/ Condition(proc'[p].st) = Condition(proc[p].st)
                              \/ ~OnCpu(p) /\ ProcGood(p, M)'
  BY <1>12
<1>21. "dead" = (IF x \in Procs THEN Condition(proc'[x].st) ELSE "run")
  BY <1>2, <1>10 DEF Condition
<1>22. /\ panic' = "" /\ cpu' = cpu /\ lock' = lock /\ ticks' \in 0 .. W - 1
       /\ proc' \in [Procs -> ProcRecs] /\ "dead" # "spin" /\ f \in Frames /\ f.base = f.base
  BY <1>2, <1>6, <1>10 DEF Good, Types
<1> QED
  BY <1>1, <1>4, <1>8, <1>18, <1>19, <1>20, <1>21, <1>22, TableOp

(* kill() wakes its victim, which wait() looks at before it sleeps.        *)
LEMMA KillStep ==
    ASSUME SmpAssumption, NEW M, Good(M), NEW c \in CPUs, killstep(c)
    PROVE  SmpInv'
<1>1. PICK x, a, t, L, i, z, f, k : Executed(c, M, "kill", x, a, t, L, i, z, f, k)
  BY Execution DEF killstep
<1>2. PICK q : q = a[2]
  OBVIOUS
<1>3. /\ x = Thread(c) /\ x \in Procs /\ x \in Threads /\ f = M[x] /\ f \in Frames /\ f.nap = "no"
      /\ q \in Procs /\ q # 1 /\ "ptable" \in Held(c) /\ proc[x].st = "RUNNING" /\ Arg(c) = q
  BY <1>1, <1>2 DEF Executed, FrameFor, LocksFor, At, TableOps, SchedulerOps, SharedOps, LockOps,
              HandlerOps, Condition
<1>4. After(a, At(L, i, z, f)) = At(L, i, "run", f)
  BY <1>1 DEF Executed, After, At, LocksAfter, IntsAfter, StatusAfter, FrameAfter
<1>5. t \in Seq(Ops) /\ Typed(x, t, At(L, i, "run", f))
  BY <1>1, <1>4 DEF Executed
<1>6. PICK r : r = [[proc[q] EXCEPT !.killed = TRUE]
                      EXCEPT !.st = IF proc[q].st = "SLEEPING" THEN "RUNNABLE" ELSE proc[q].st]
  OBVIOUS
<1>7. /\ r \in ProcRecs /\ r.killed = TRUE /\ r.parent = proc[q].parent /\ r.n = proc[q].n
      /\ r.t0 = proc[q].t0 /\ r.chan = proc[q].chan
      /\ r.st = IF proc[q].st = "SLEEPING" THEN "RUNNABLE" ELSE proc[q].st
  <2>1. proc[q] \in ProcRecs
    BY <1>3, ProcFields
  <2> QED
    BY <1>6, <2>1 DEF ProcRecs, States
<1>8. PICK u : u = [proc EXCEPT ![q] = r] /\ Locally(c, "kill", u, <<>>)
  <2>1. proc \in [Procs -> ProcRecs]
    BY DEF Good, Types
  <2>2. [proc EXCEPT ![q].killed = TRUE,
                     ![q].st = IF @ = "SLEEPING" THEN "RUNNABLE" ELSE @]
          = [proc EXCEPT ![q] = r]
    BY <1>3, <1>6, <2>1 DEF ProcRecs
  <2> QED
    BY <1>3, <2>2 DEF killstep
<1>9. /\ panic' = "" /\ cpu' = cpu /\ lock' = lock /\ ticks' = ticks /\ proc' = u
      /\ GoesOn(c, <<>>)
  BY <1>8 DEF Locally, Executes
<1>10. GoesOn(c, <<>>)
  BY <1>9
<1>11. code' = [code EXCEPT ![x] = t]
  BY <1>1, <1>10, GoesOnPlain
<1>12. /\ proc' \in [Procs -> ProcRecs] /\ proc'[q] = r
       /\ \A p \in Procs \ {q} : proc'[p] = proc[p]
  BY <1>3, <1>7, <1>8, <1>9 DEF Good, Types
<1>13. \A p \in Procs : /\ Condition(proc'[p].st) = Condition(proc[p].st)
                        /\ (proc[p].st = "EMBRYO" => proc'[p].st = "EMBRYO")
                        /\ (proc'[p].st = "ZOMBIE" <=> proc[p].st = "ZOMBIE")
                        /\ (proc'[p].st = "SLEEPING" => proc[p].st = "SLEEPING" /\ p # q)
                        /\ proc'[p].chan = proc[p].chan /\ proc'[p].parent = proc[p].parent
                        /\ proc'[p].n = proc[p].n /\ proc'[p].t0 = proc[p].t0
  BY <1>7, <1>12 DEF Condition
<1>14. Children(M)'
  <2>1. ASSUME NEW p \in Procs, proc[p].st = "EMBRYO"
        PROVE  proc'[p].st = "EMBRYO" /\ code'[p] = code[p]
    <3>1. p # x
      BY <1>3, <2>1
    <3> QED
      BY <1>11, <1>13, <2>1, <3>1 DEF Good, Types, Threads
  <2> QED
    BY <2>1, ChildrenKept
<1>15. Doomed(M)'
  <2>1. \A p \in Procs : proc[p].killed => proc'[p].killed
    BY <1>7, <1>12
  <2> QED
    BY <2>1, DoomedKept
<1>16. Family'
  <2>1. 1 \in Procs \ {q} /\ proc'[1] = proc[1]
    BY <1>3, <1>12, Names
  <2> QED
    BY <1>13, <2>1 DEF Good, Family
<1>17. Sleepers(M)'
  <2>1. ASSUME NEW p \in Procs, TickSleeper(p, M)', Late(p)'
        PROVE  TickSleeper(p, M) /\ Late(p)
    <3>1. Late(p)
      BY <1>9, <1>13, <2>1 DEF Late, Elapsed
    <3> QED
      BY <1>13, <2>1, <3>1 DEF TickSleeper
  <2>2. ASSUME NEW p \in Procs, Waiter(p, M)'
        PROVE  Waiter(p, M) /\ (Childless(p) => Childless(p)')
    <3>1. M[p].nap # "wait"
      <4>1. CASE p = x
        BY <1>3, <4>1
      <4>2. CASE p # x
        BY <1>3, <4>2, TableOwner
      <4> QED
        BY <4>1, <4>2
    <3>2. proc'[p].st = "SLEEPING" /\ proc'[p].chan = p
      BY <2>2, <3>1 DEF Waiter
    <3>3. proc[p].st = "SLEEPING" /\ proc[p].chan = p /\ p # q /\ proc'[p] = proc[p]
      BY <1>12, <1>13, <3>2
    <3> QED
      BY <1>13, <3>3 DEF Waiter, Childless
  <2> QED
    BY <2>1, <2>2, SleepersKept
<1>18. Table(M)'
  BY <1>14, <1>15, <1>16, <1>17 DEF Table
<1>19. NewFrame(M, M, x, f)
  BY <1>3, SameFrame
<1>20. \A p \in Procs \ {x} : \/ Condition(proc'[p].st) = Condition(proc[p].st)
                              \/ ~OnCpu(p) /\ ProcGood(p, M)'
  BY <1>13
<1>21. "run" = (IF x \in Procs THEN Condition(proc'[x].st) ELSE "run")
  BY <1>3, <1>13 DEF Condition
<1>22. /\ panic' = "" /\ cpu' = cpu /\ lock' = lock /\ ticks' \in 0 .. W - 1
       /\ proc' \in [Procs -> ProcRecs] /\ "run" # "spin" /\ f \in Frames /\ f.base = f.base
  BY <1>3, <1>9, <1>12 DEF Good, Types
<1> QED
  BY <1>1, <1>5, <1>11, <1>18, <1>19, <1>20, <1>21, <1>22, TableOp

(* The timer interrupt advances the ticks, and owes a wakeup.              *)
LEMMA TickStep ==
    ASSUME SmpAssumption, NEW M, Good(M), NEW c \in CPUs, tick(c)
    PROVE  SmpInv'
<1>1. PICK x, a, t, L, i, z, f, k : Executed(c, M, "tick", x, a, t, L, i, z, f, k)
  BY Execution DEF tick
<1>2. x = Thread(c) /\ x \in Threads /\ f = M[x] /\ f \in Frames
  BY <1>1 DEF Executed
<1>3. PICK g : g = [f EXCEPT !.due = TRUE]
  OBVIOUS
<1>4. g \in Frames /\ g.base = f.base /\ g.child = f.child /\ g.nap = f.nap /\ g.due
  BY <1>2, <1>3 DEF Frames
<1>5. After(a, At(L, i, z, f)) = At(L, i, "run", g)
  BY <1>1, <1>3 DEF Executed, After, At, LocksAfter, IntsAfter, StatusAfter, FrameAfter
<1>6. t \in Seq(Ops) /\ Typed(x, t, At(L, i, "run", g))
  BY <1>1, <1>5 DEF Executed
<1>7. /\ panic' = "" /\ cpu' = cpu /\ lock' = lock /\ ticks' = (ticks + 1) % W /\ proc' = proc
      /\ GoesOn(c, <<>>)
  BY DEF tick, Executes
<1>8. GoesOn(c, <<>>)
  BY <1>7
<1>9. code' = [code EXCEPT ![x] = t]
  BY <1>1, <1>8, GoesOnPlain
<1>10. ticks' \in 0 .. W - 1
  <2>1. ticks \in 0 .. W - 1 /\ W \in Nat \ {0}
    BY DEF Good, Types, SmpAssumption
  <2>2. ((ticks + 1) % W) \in 0 .. W - 1
    BY <2>1
  <2> QED
    BY <1>7, <2>2
<1>11. PICK N : NewFrame(N, M, x, g)
  BY <1>2, <1>4, NewFrameExists
<1>12. /\ N[x] = g /\ \A y \in Threads \ {x} : N[y] = M[y]
       /\ \A y \in Threads : N[y].child = M[y].child /\ N[y].base = M[y].base /\ N[y].nap = M[y].nap
  BY <1>2, <1>4, <1>11 DEF NewFrame
<1>13. Children(N)'
  <2>1. ASSUME NEW q \in Procs, proc[q].st = "EMBRYO"
        PROVE  proc'[q].st = "EMBRYO" /\ code'[q] = code[q]
    <3>1. q # x
      BY <1>1, <2>1 DEF Executed, Condition
    <3> QED
      BY <1>7, <1>9, <2>1, <3>1 DEF Good, Types, Threads
  <2> QED
    BY <1>12, <2>1, ChildrenKept
<1>14. Doomed(N)' /\ Family'
  BY <1>7, <1>12 DEF Good, Doomed, Family, Threads
<1>15. Sleepers(N)'
  <2>1. \E y \in Threads : N[y].due
    BY <1>2, <1>4, <1>12
  <2>2. \A p \in Procs : Waiter(p, N)' => Waiter(p, M)
    BY <1>7, <1>12 DEF Waiter, Threads
  <2>3. \A p \in Procs : Childless(p)' = Childless(p)
    BY <1>7 DEF Childless
  <2> QED
    BY <2>1, <2>2, <2>3 DEF Good, Sleepers
<1>16. Table(N)'
  BY <1>13, <1>14, <1>15 DEF Table
<1>17. "run" = (IF x \in Procs THEN Condition(proc'[x].st) ELSE "run")
  BY <1>1, <1>7 DEF Executed
<1>18. \A p \in Procs \ {x} : \/ Condition(proc'[p].st) = Condition(proc[p].st)
                              \/ ~OnCpu(p) /\ ProcGood(p, N)'
  BY <1>7
<1>19. /\ proc' \in [Procs -> ProcRecs] /\ ticks' \in 0 .. W - 1 /\ "run" # "spin" /\ g \in Frames
       /\ g.base = f.base
  BY <1>4, <1>7, <1>10 DEF Good, Types
<1>20. panic' = "" /\ cpu' = cpu /\ lock' = lock /\ code' = [code EXCEPT ![x] = t]
  BY <1>7, <1>9
<1> QED
  BY <1>1, <1>6, <1>11, <1>16, <1>17, <1>18, <1>19, <1>20, TableOp, ZenonT(60)

(* A fault kills the process, which goes on to exit().                     *)
LEMMA FaultStep ==
    ASSUME SmpAssumption, NEW M, Good(M), NEW c \in CPUs, fault(c)
    PROVE  SmpInv'
<1>0. PICK x, k : UserMachine(c, M, x, k)
  BY UserContext DEF fault
<1>1. /\ x = Thread(c) /\ x \in Procs /\ x \in Threads /\ M[x] = Frame("kernel")
      /\ Held(c) = {} /\ proc[x].st = "RUNNING"
      /\ k = cpu[c] /\ k \in CpuRecs /\ k.proc = x /\ k.ncli = 0 /\ x # 1
  BY <1>0 DEF UserMachine, fault, Threads
<1>2. PICK kk : kk = [k EXCEPT !.ie = FALSE]
  OBVIOUS
<1>3. kk \in CpuRecs /\ kk.proc = k.proc /\ kk.ncli = 0 /\ kk.ie = FALSE
  BY <1>1, <1>2 DEF CpuRecs
<1>4. PICK g : g = [base |-> "doomed", h |-> TRUE, child |-> NoChild, due |-> FALSE, nap |-> "no"]
  OBVIOUS
<1>5. g \in Frames /\ g.base = "doomed" /\ g.h /\ g.child = NoChild /\ ~g.due /\ g.nap = "no"
  BY <1>4 DEF Frames
<1>6. PICK s : s = << <<"killcheck", TRUE>> >>
  OBVIOUS
<1>7. s \in Seq(Ops) /\ Typed(x, s, At({}, FALSE, "run", g))
  <2>1. Consistent(At({}, FALSE, "run", g))
    BY <1>5 DEF Consistent, At
  <2>2. Leads(x, <<"killcheck", TRUE>>, At({}, FALSE, "run", g), At({}, FALSE, "gone", g))
    BY <1>1, <1>5, <2>1, LeadsDoomed
  <2>3. <<"killcheck", TRUE>> \in Ops
    BY OpsKnown
  <2>4. s \in Seq(Ops) /\ Path(x, s, At({}, FALSE, "run", g), At({}, FALSE, "gone", g))
    BY <1>6, <2>2, <2>3, Path1
  <2>5. Final(At({}, FALSE, "gone", g))
    BY DEF Final, At
  <2> QED
    BY <2>4, <2>5 DEF Typed
<1>8. PICK r : r = [proc[x] EXCEPT !.killed = TRUE]
  OBVIOUS
<1>9. /\ r \in ProcRecs /\ r.killed = TRUE /\ r.st = "RUNNING" /\ r.parent = proc[x].parent
  <2>1. proc[x] \in ProcRecs
    BY <1>1, ProcFields
  <2> QED
    BY <1>1, <1>8, <2>1 DEF ProcRecs, States
<1>10. /\ panic' = "" /\ lock' = lock /\ ticks' = ticks /\ proc' = [proc EXCEPT ![x] = r]
       /\ code' = [code EXCEPT ![x] = s]
  BY <1>1, <1>6, <1>8 DEF fault, InUser
<1>11. cpu' = [cpu EXCEPT ![c] = kk]
  BY <1>1, <1>2 DEF fault, Good, Types
<1>12. /\ proc' \in [Procs -> ProcRecs] /\ proc'[x] = r
       /\ \A p \in Procs \ {x} : proc'[p] = proc[p]
  BY <1>1, <1>9, <1>10 DEF Good, Types
<1>13. /\ code' \in [Threads -> Seq(Ops)] /\ code'[x] = s
       /\ \A y \in Threads \ {x} : code'[y] = code[y]
  BY <1>1, <1>7, <1>10 DEF Good, Types
<1>14. PICK N : NewFrame(N, M, x, g)
  BY <1>1, <1>5, NewFrameExists
<1>15. N \in [Threads -> Frames] /\ N[x] = g /\ \A y \in Threads \ {x} : N[y] = M[y]
  BY <1>14 DEF NewFrame
<1>16. /\ M[x].child = NoChild /\ M[x].due = FALSE /\ M[x].base = "kernel" /\ M[x].nap = "no"
  BY <1>1 DEF Frame
<1>17. Children(N)'
  <2>1. \A y \in Threads : N[y].child = M[y].child
    BY <1>5, <1>15, <1>16
  <2>2. ASSUME NEW q \in Procs, proc[q].st = "EMBRYO"
        PROVE  proc'[q].st = "EMBRYO" /\ code'[q] = code[q]
    <3>1. q # x
      BY <1>1, <2>2
    <3> QED
      BY <1>12, <1>13, <2>2, <3>1 DEF Threads
  <2> QED
    BY <2>1, <2>2, ChildrenKept
<1>18. Doomed(N)'
  <2>1. ASSUME NEW p \in Procs, N[p].base = "doomed" PROVE proc'[p].killed
    <3>1. CASE p = x
      BY <1>9, <1>12, <3>1
    <3>2. CASE p # x
      BY <1>12, <1>15, <2>1, <3>2 DEF Good, Doomed, Threads
    <3> QED
      BY <3>1, <3>2
  <2> QED
    BY <2>1 DEF Doomed
<1>19. Family'
  <2>1. \A p \in Procs : proc'[p].parent = proc[p].parent
    BY <1>9, <1>12
  <2>2. 1 \in Procs \ {x} /\ proc'[1] = proc[1]
    BY <1>1, <1>12, Names
  <2> QED
    BY <2>1, <2>2 DEF Good, Family
<1>20. Sleepers(N)'
  <2>1. ASSUME NEW p \in Procs, TickSleeper(p, N)' \/ Waiter(p, N)' PROVE p # x
    BY <1>5, <1>9, <1>12, <1>15, <2>1 DEF TickSleeper, Waiter
  <2>2. ASSUME NEW p \in Procs, TickSleeper(p, N)', Late(p)'
        PROVE  TickSleeper(p, M) /\ Late(p)
    <3>1. p # x
      BY <2>1, <2>2
    <3> QED
      BY <1>10, <1>12, <1>15, <2>2, <3>1 DEF TickSleeper, Late, Elapsed, Threads
  <2>3. ASSUME NEW p \in Procs, Waiter(p, N)'
        PROVE  Waiter(p, M) /\ (Childless(p) => Childless(p)')
    <3>1. p # x
      BY <2>1, <2>3
    <3>2. \A q \in Procs : /\ proc'[q].parent = proc[q].parent
                           /\ (proc'[q].st = "ZOMBIE" => proc[q].st = "ZOMBIE")
      BY <1>9, <1>12
    <3> QED
      BY <1>12, <1>15, <2>3, <3>1, <3>2 DEF Waiter, Childless, Threads
  <2>4. \A y \in Threads : M[y].due => N[y].due
    BY <1>15, <1>16
  <2> QED
    BY <2>2, <2>3, <2>4, SleepersKept
<1>21. Table(N)'
  BY <1>17, <1>18, <1>19, <1>20 DEF Table
<1>22. Others(x, M, N)
  BY <1>12, <1>13, <1>15 DEF Untouched, Others
<1>23. "run" = (IF x \in Procs THEN Condition(proc'[x].st) ELSE "run")
  BY <1>1, <1>9, <1>12 DEF Condition
<1>24. Stays(c, x, kk, {}, FALSE)
  <2>1. kk.ncli = Depth({}) /\ FALSE = (IF kk.ncli = 0 THEN kk.ie ELSE kk.intena)
    BY <1>3 DEF Depth
  <2> QED
    BY <1>1, <1>3, <1>10, <1>11, <2>1 DEF Stays
<1>25. /\ panic' = "" /\ ticks' \in 0 .. W - 1 /\ proc' \in [Procs -> ProcRecs]
       /\ code' \in [Threads -> Seq(Ops)] /\ code'[x] = s /\ N \in [Threads -> Frames]
       /\ "run" # "spin"
  BY <1>10, <1>12, <1>13, <1>15 DEF Good, Types
<1>26. N[x].base = "sched" <=> M[x].base = "sched"
  BY <1>5, <1>15, <1>16
<1>27. Typed(x, s, At({}, FALSE, "run", N[x]))
  BY <1>7, <1>15
<1> QED
  BY <1>21, <1>22, <1>23, <1>24, <1>25, <1>26, <1>27, TableStep

----------------------------------------------------------------------------
(* The context switch.                                                     *)

(* Code that does not return ends where it does not.                       *)
LEMMA GoneEmpty ==
    ASSUME NEW x, NEW t \in Seq(Ops), NEW m, m.st = "gone", Typed(x, t, m)
    PROVE  t = <<>>
<1>1. SUFFICES ASSUME t # <<>> PROVE FALSE
  OBVIOUS
<1>2. Needs(x, Head(t), m)
  BY <1>1, TypedHead
<1> QED
  BY <1>2 DEF Needs

(* A process that waits for a processor is on none, once its last one has  *)
(* given ptable.lock to its scheduler.                                     *)
LEMMA RunnableOff ==
    ASSUME SmpAssumption, NEW M, Good(M), NEW c \in CPUs, "ptable" \in Held(c), cpu[c].proc = None,
           NEW p \in Procs, proc[p].st = "RUNNABLE"
    PROVE  ~OnCpu(p)
<1>1. SUFFICES ASSUME NEW d \in CPUs, cpu[d].proc = p PROVE FALSE
  BY DEF OnCpu
<1>2. PICK x, s, L, i, z, f, k : Context(d, M, x, s, L, i, z, f, k)
  BY ContextExists
<1>3. p # None
  BY Names DEF Threads
<1>4. /\ x = p /\ s \in Seq(Ops) /\ L = Held(d) /\ Typed(x, s, At(L, i, z, f))
      /\ z = Spun(Condition(proc[x].st), s)
  BY <1>1, <1>2, <1>3 DEF Context
<1>5. z = "off"
  BY <1>4 DEF Spun, Condition
<1>6. s # <<>>
  <2>1. SUFFICES ASSUME s = <<>> PROVE FALSE
    OBVIOUS
  <2>2. Final(At(L, i, z, f))
    BY <1>4, <2>1, TypedEmpty
  <2> QED
    BY <1>5, <2>2 DEF Final, UserMode, At
<1>7. Needs(x, Head(s), At(L, i, z, f))
  BY <1>4, <1>6, TypedHead
<1>8. Head(s)[1] = "sched"
  BY <1>5, <1>7 DEF Needs, At
<1>9. "ptable" \in L
  BY <1>7, <1>8 DEF Needs, LocksFor, At, TableOps
<1>10. d = c
  BY <1>4, <1>9, OneHolder
<1> QED
  BY <1>1, <1>3, <1>10

(* The loop of a scheduler.                                                *)
LEMMA RoundTyped ==
    ASSUME SmpAssumption, NEW c \in CPUs, NEW i
    PROVE  /\ Round \in Seq(Ops) /\ Typed(c, Round, At({}, i, "run", Frame("sched")))
           /\ Path(c, Round, At({}, i, "run", Frame("sched")),
                   At({"ptable"}, TRUE, "gone", Frame("sched")))
<1>1. PICK f : f = Frame("sched")
  OBVIOUS
<1>2. f \in Frames /\ f.base = "sched" /\ ~f.h /\ ~f.due /\ f.nap = "no" /\ f.child = NoChild
  BY <1>1 DEF Frame, Frames
<1>3. Leads(c, <<"sti">>, At({}, i, "run", f), At({}, TRUE, "run", f))
  BY <1>1, <1>2, LeadsSti
<1>4. Leads(c, Acquire("ptable"), At({}, TRUE, "run", f), At({"ptable"}, TRUE, "run", f))
  <2>1. {} \cup {"ptable"} = {"ptable"} /\ "ptable" \in Locks
    BY DEF Locks
  <2>2. Consistent(At({}, TRUE, "run", f))
    BY <1>2 DEF Consistent, At
  <2> QED
    BY <1>2, <2>1, <2>2, LeadsAcquire
<1>5. Leads(c, <<"scan", 1>>, At({"ptable"}, TRUE, "run", f), At({"ptable"}, TRUE, "gone", f))
  <2>1. 1 \in 1..(NPROC + 1)
    BY DEF SmpAssumption
  <2> QED
    BY <1>1, <1>2, <2>1, LeadsScan
<1>6. <<"sti">> \in Ops /\ Acquire("ptable") \in Ops /\ <<"scan", 1>> \in Ops
  <2>1. 1 \in Int
    OBVIOUS
  <2> QED
    BY <2>1, OpsKnown
<1>7. Round \in Seq(Ops) /\ Path(c, Round, At({}, i, "run", f), At({"ptable"}, TRUE, "gone", f))
  BY <1>3, <1>4, <1>5, <1>6, Path3 DEF Round
<1>8. Final(At({"ptable"}, TRUE, "gone", f))
  BY DEF Final, At
<1> QED
  BY <1>1, <1>7, <1>8 DEF Typed

(* A scheduler that scans the table from some slot on.                     *)
LEMMA ScanTyped ==
    ASSUME SmpAssumption, NEW c \in CPUs, NEW i, NEW n \in 1..(NPROC + 1)
    PROVE  /\ << <<"scan", n>> >> \in Seq(Ops)
           /\ Typed(c, << <<"scan", n>> >>, At({"ptable"}, i, "run", Frame("sched")))
           /\ ~Spinning(<< <<"scan", n>> >>)
<1>1. PICK f : f = Frame("sched")
  OBVIOUS
<1>2. f \in Frames
  BY <1>1 DEF Frame, Frames
<1>3. Leads(c, <<"scan", n>>, At({"ptable"}, i, "run", f), At({"ptable"}, i, "gone", f))
  BY <1>1, <1>2, LeadsScan
<1>4. <<"scan", n>> \in Ops
  <2>1. n \in Int
    BY DEF SmpAssumption
  <2> QED
    BY <2>1, OpsKnown
<1>5. /\ << <<"scan", n>> >> \in Seq(Ops)
      /\ Path(c, << <<"scan", n>> >>, At({"ptable"}, i, "run", f), At({"ptable"}, i, "gone", f))
  BY <1>3, <1>4, Path1
<1>6. Final(At({"ptable"}, i, "gone", f))
  BY DEF Final, At
<1>7. Typed(c, << <<"scan", n>> >>, At({"ptable"}, i, "run", f))
  BY <1>5, <1>6 DEF Typed
<1>8. ~Spinning(<< <<"scan", n>> >>)
  BY DEF Spinning
<1> QED
  BY <1>1, <1>5, <1>7, <1>8

(* The slot after a slot.                                                  *)
LEMMA NextSlot ==
    ASSUME SmpAssumption, NEW p \in Procs
    PROVE  p + 1 \in 1..(NPROC + 1)
BY DEF SmpAssumption, Procs

(* ptable.lock alone is one cli.                                           *)
LEMMA DepthOne == Depth({"ptable"}) = 1 /\ 1 = 1 + 0 /\ 1 # 0
BY DEF Depth

(* The loop's frame belongs to a scheduler.                                *)
LEMMA SchedFrame == Frame("sched").base = "sched"
BY DEF Frame

(* What the table says is still true when a process that waits for a       *)
(* processor gets one.                                                     *)
LEMMA DispatchTable ==
    ASSUME SmpAssumption, NEW M, Good(M), NEW p \in Procs, NEW r, proc[p].st = "RUNNABLE",
           r = [proc[p] EXCEPT !.st = "RUNNING"], proc' = [proc EXCEPT ![p] = r], ticks' = ticks,
           \A q \in Procs : code'[q] = code[q]
    PROVE  Table(M)' /\ proc' \in [Procs -> ProcRecs] /\ r.st = "RUNNING"
<1>1. /\ r \in ProcRecs /\ r.st = "RUNNING" /\ r.chan = proc[p].chan /\ r.killed = proc[p].killed
      /\ r.parent = proc[p].parent /\ r.n = proc[p].n /\ r.t0 = proc[p].t0
  <2>1. proc[p] \in ProcRecs
    BY ProcFields
  <2> QED
    BY <2>1 DEF ProcRecs, States
<1>2. /\ proc' \in [Procs -> ProcRecs] /\ proc'[p] = r
      /\ \A q \in Procs \ {p} : proc'[q] = proc[q]
  BY <1>1 DEF Good, Types
<1>3. \A q \in Procs : /\ (proc'[q].st = "SLEEPING" => proc[q].st = "SLEEPING")
                       /\ (proc'[q].st = "ZOMBIE" => proc[q].st = "ZOMBIE")
                       /\ (proc[q].st = "EMBRYO" => proc'[q].st = "EMBRYO")
                       /\ (proc[q].st \in {"SLEEPING", "RUNNABLE", "RUNNING"}
                            => proc'[q].st \in {"SLEEPING", "RUNNABLE", "RUNNING"})
                       /\ proc'[q].chan = proc[q].chan /\ proc'[q].killed = proc[q].killed
                       /\ proc'[q].parent = proc[q].parent
                       /\ proc'[q].n = proc[q].n /\ proc'[q].t0 = proc[q].t0
  BY <1>1, <1>2
<1>4. Children(M)'
  BY <1>3, ChildrenKept
<1>5. Doomed(M)'
  BY <1>3, DoomedKept
<1>6. Family'
  <2>1. 1 \in Procs
    BY Names
  <2>2. /\ proc[1].st \in {"SLEEPING", "RUNNABLE", "RUNNING"} /\ ~proc[1].killed
        /\ proc[1].parent = None
    BY DEF Good, Family
  <2>3. /\ proc'[1].st \in {"SLEEPING", "RUNNABLE", "RUNNING"} /\ ~proc'[1].killed
        /\ proc'[1].parent = None
    BY <1>3, <2>1, <2>2
  <2>4. \A q \in Procs : proc'[q].parent # q
    BY <1>3 DEF Good, Family
  <2> QED
    BY <2>3, <2>4 DEF Family
<1>7. Sleepers(M)'
  <2>1. \A q \in Procs : Late(q)' = Late(q)
    BY <1>3 DEF Late, Elapsed
  <2>2. ASSUME NEW q \in Procs, Childless(q) PROVE Childless(q)'
    <3>1. ASSUME NEW j \in Procs, proc'[j].parent = q PROVE proc'[j].st # "ZOMBIE"
      BY <1>3, <2>2, <3>1 DEF Childless
    <3> QED
      BY <1>3, <2>2, <3>1 DEF Childless
  <2>3. \A q \in Procs : (TickSleeper(q, M)' => TickSleeper(q, M)) /\ (Waiter(q, M)' => Waiter(q, M))
    BY <1>3 DEF TickSleeper, Waiter
  <2> QED
    BY <2>1, <2>2, <2>3, SleepersKept
<1> QED
  BY <1>1, <1>2, <1>4, <1>5, <1>6, <1>7 DEF Table

(* A processor takes the process p: the scheduler's lock and the depth of  *)
(* its cli's become the process's.                                         *)
LEMMA Dispatch ==
    ASSUME SmpAssumption, NEW M, Good(M), NEW c \in CPUs, NEW k \in CpuRecs, NEW p \in Procs,
           k = cpu[c], k.proc = None, k.ncli = 1, ~k.ie, Held(c) = {"ptable"},
           M[c] = Frame("sched"), proc[p].st = "RUNNABLE",
           panic' = "", lock' = lock, ticks' = ticks,
           cpu' = [cpu EXCEPT ![c].proc = p], proc' = [proc EXCEPT ![p].st = "RUNNING"],
           code' = [code EXCEPT ![c] = << <<"scan", p + 1>> >>]
    PROVE  SmpInv'
<1>1. Types(M) /\ Machine(M)
  BY DEF Good
<1>2. ~OnCpu(p)
  BY RunnableOff
<1>3. /\ M[p].base # "sched"
      /\ \A b \in BOOLEAN : Typed(p, code[p], At({"ptable"}, b, "run", M[p]))
  <2>1. ProcGood(p, M)
    BY <1>1, <1>2 DEF Machine
  <2> QED
    BY <2>1 DEF ProcGood
<1>4. /\ p \in Threads /\ c \in Threads /\ p # c /\ p # None /\ c \notin Procs
  BY Names DEF Threads
<1>5. p + 1 \in 1..(NPROC + 1)
  BY NextSlot
<1>6. PICK n : n = p + 1
  OBVIOUS
<1>7. PICK s : s = << <<"scan", n>> >>
  OBVIOUS
<1>8. s \in Seq(Ops) /\ code' = [code EXCEPT ![c] = s] /\ n \in 1..(NPROC + 1)
  BY <1>5, <1>6, <1>7, ScanTyped
<1>9. /\ code' \in [Threads -> Seq(Ops)] /\ code'[c] = s
      /\ \A y \in Threads \ {c} : code'[y] = code[y]
  BY <1>1, <1>4, <1>8 DEF Types
<1>10. PICK kk : kk = [k EXCEPT !.proc = p]
  OBVIOUS
<1>11. kk \in CpuRecs /\ kk.proc = p /\ kk.ncli = 1 /\ kk.ie = k.ie /\ kk.intena = k.intena
  BY <1>10 DEF CpuRecs
<1>12. /\ cpu' \in [CPUs -> CpuRecs] /\ cpu'[c] = kk
       /\ \A d \in CPUs \ {c} : cpu'[d] = cpu[d]
  BY <1>1, <1>10, <1>11 DEF Types
<1>13. PICK r : r = [proc[p] EXCEPT !.st = "RUNNING"]
  OBVIOUS
<1>14. Table(M)' /\ proc' \in [Procs -> ProcRecs] /\ r.st = "RUNNING"
  <2>1. proc' = [proc EXCEPT ![p] = r]
    BY <1>1, <1>13 DEF Types
  <2>2. \A q \in Procs : code'[q] = code[q]
    BY <1>4, <1>9 DEF Threads
  <2> QED
    BY <1>13, <2>1, <2>2, DispatchTable, ZenonT(60)
<1>15. proc'[p] = r /\ \A q \in Procs \ {p} : proc'[q] = proc[q]
  BY <1>1, <1>13 DEF Types
<1>16. \A d \in CPUs : Held(d)' = Held(d)
  BY DEF Held
<1>17. Types(M)'
  BY <1>1, <1>9, <1>12, <1>14 DEF Types
<1>18. \A y \in Threads \ {c, p} : Untouched(y, M, M)
  BY <1>9, <1>15 DEF Untouched
<1>19. \A d \in CPUs \ {c} : Untouched(d, M, M) /\ Untouched(Thread(d), M, M)
  <2>1. ASSUME NEW d \in CPUs \ {c} PROVE Thread(d) \in Threads \ {c, p} /\ d \in Threads \ {c, p}
    <3>1. /\ Thread(d) \in Threads /\ (Thread(d) \in Procs => OnCpu(Thread(d)))
          /\ c # Thread(d)
      <4>1. d \in CPUs
        OBVIOUS
      <4>2. /\ Thread(d) \in Threads /\ (Thread(d) \in Procs => OnCpu(Thread(d)))
        BY <1>1, <4>1, ThreadFacts
      <4>3. c # Thread(d)
        BY <1>1, ThreadFacts
      <4> QED
        BY <4>2, <4>3
    <3>2. d # p
      BY Names
    <3> QED
      BY <1>2, <3>1, <3>2 DEF Threads
  <2> QED
    BY <1>18, <2>1
<1>20. CpuGood(c, M)'
  <2>1. Thread(c)' = p /\ code'[p] = code[p]
    BY <1>4, <1>9, <1>11, <1>12 DEF Thread
  <2>2. k.intena \in BOOLEAN
    BY CpuFields
  <2>3. Ints(c)' = k.intena
    <3>1. cpu'[c].ncli # 0 /\ cpu'[c].intena = k.intena
      BY <1>11, <1>12, DepthOne
    <3> QED
      BY <3>1 DEF Ints
  <2>4. Typed(p, code[p], At({"ptable"}, k.intena, "run", M[p]))
    BY <1>3, <2>2
  <2>5. ~Spinning(code[p])
    <3>1. At({"ptable"}, k.intena, "run", M[p]).st # "spin"
      BY DEF At
    <3>2. code[p] \in Seq(Ops)
      BY <1>1, <1>4 DEF Types
    <3> QED
      BY <2>4, <3>1, <3>2, NoSpin
  <2>6. Status(c)' = "run"
    <3>1. cpu'[c].proc = p /\ cpu'[c].proc # None
      BY <1>4, <1>11, <1>12
    <3>2. Status(c)' = Condition(proc'[cpu'[c].proc].st)
      BY <3>1 DEF Status
    <3>3. Condition(proc'[p].st) = "run"
      BY <1>14, <1>15 DEF Condition
    <3> QED
      BY <3>1, <3>2, <3>3
  <2>7. Spun(Status(c), code[Thread(c)])' = "run"
    BY <2>1, <2>5, <2>6 DEF Spun, Spinning
  <2>8. Held(c)' = {"ptable"}
    BY <1>16
  <2>9. Typed(Thread(c), code[Thread(c)],
              At(Held(c), Ints(c), Spun(Status(c), code[Thread(c)]), M[Thread(c)]))'
    BY <2>1, <2>3, <2>4, <2>7, <2>8
  <2>10. (cpu[c].ncli = Depth(Held(c)) + (IF Spinning(code[Thread(c)]) THEN 1 ELSE 0))'
    <3>1. Depth({"ptable"}) = 1 /\ 1 = 1 + 0
      BY DepthOne
    <3>2. Spinning(code[Thread(c)])' = FALSE
      BY <2>1, <2>5 DEF Spinning
    <3>3. Depth(Held(c))' = 1
      BY <2>8, <3>1 DEF Depth
    <3> QED
      BY <1>11, <1>12, <3>1, <3>2, <3>3
  <2>11. M[c].base = "sched"
    BY SchedFrame
  <2>12. \E j \in 1..(NPROC + 1) : code'[c] = <<<<"scan", j>>>>
    BY <1>7, <1>8, <1>9
  <2>13. cpu'[c].proc = p /\ ~cpu'[c].ie
    BY <1>11, <1>12
  <2> QED
    BY <1>3, <2>9, <2>10, <2>11, <2>12, <2>13 DEF CpuGood
<1>21. ASSUME NEW q \in Procs, ~OnCpu(q)' PROVE ~OnCpu(q) /\ Untouched(q, M, M)
  <2>1. \A d \in CPUs : cpu'[d].proc # q
    BY <1>21 DEF OnCpu
  <2>2. q # p
    BY <1>11, <1>12, <2>1
  <2>3. \A d \in CPUs : cpu[d].proc # q
    <3>1. q # None
      BY Names DEF Threads
    <3> QED
      BY <1>12, <2>1, <3>1
  <2>4. q \in Threads \ {c, p}
    BY <1>4, <2>2 DEF Threads
  <2> QED
    BY <1>18, <2>3, <2>4 DEF OnCpu
<1>22. cpu'[c].proc # None => \A d \in CPUs \ {c} : cpu[d].proc # cpu'[c].proc
  BY <1>2, <1>11, <1>12 DEF OnCpu
<1>23. Machine(M)'
  <2>1. \A d \in CPUs \ {c} : /\ cpu'[d] = cpu[d] /\ Held(d)' = Held(d)
                              /\ Untouched(d, M, M) /\ Untouched(Thread(d), M, M)
    BY <1>12, <1>16, <1>19
  <2>2. \A q \in Procs : ~OnCpu(q)' => ProcGood(q, M)' \/ (~OnCpu(q) /\ Untouched(q, M, M))
    BY <1>21
  <2>3. panic' = "" /\ CpuGood(c, M)'
    BY <1>20
  <2> QED
    BY <1>1, <1>22, <2>1, <2>2, <2>3, MachineStep
<1> QED
  BY <1>14, <1>17, <1>23 DEF Good, SmpInv, Table

(* The scheduler finds a process, or starts its loop again.                *)
LEMMA ScanStep ==
    ASSUME SmpAssumption, NEW M, Good(M), NEW c \in CPUs, scan(c)
    PROVE  SmpInv'
<1>1. PICK x, a, t, L, i, z, f, k : Executed(c, M, "scan", x, a, t, L, i, z, f, k)
  BY Execution DEF scan
<1>2. /\ x = Thread(c) /\ x \in CPUs /\ f = Frame("sched") /\ L = {"ptable"} /\ L = Held(c)
      /\ f = M[x] /\ k = cpu[c] /\ k \in CpuRecs /\ k.ncli = Depth(L) /\ (k.ie => k.ncli = 0)
      /\ Arg(c) = a[2] /\ t = Tail(code[x]) /\ t \in Seq(Ops)
  BY <1>1 DEF Executed, FrameFor, LocksFor, At, TableOps, SchedulerOps
<1>3. x = c /\ k.proc = None
  BY <1>1, <1>2, Names DEF Executed
<1>4. t = <<>>
  <2>1. After(a, At(L, i, z, f)).st = "gone"
    BY <1>1 DEF Executed, After, At, StatusAfter
  <2>2. Typed(x, t, After(a, At(L, i, z, f)))
    BY <1>1 DEF Executed
  <2> QED
    BY <1>2, <2>1, <2>2, GoneEmpty
<1>5. f \in Frames /\ f.base = "sched" /\ ~f.h /\ ~f.due /\ f.nap = "no" /\ f.child = NoChild
  BY <1>2 DEF Frame, Frames
<1>6. panic' = "" /\ lock' = lock /\ ticks' = ticks
  BY DEF scan, Executes
<1>7. PICK ready : ready = { p \in Procs : p >= Arg(c) /\ proc[p].st = "RUNNABLE" }
  OBVIOUS
<1>8. CASE ready = {}
  <2>1. PICK rel, ops : rel = <<Release("ptable")>> /\ ops = rel \o Round
    OBVIOUS
  <2>2. GoesOn(c, ops) /\ UNCHANGED <<cpu, proc>>
    BY <1>7, <1>8, <2>1 DEF scan
  <2>3. GoesOn(c, ops)
    BY <2>2
  <2>4. PICK s : s = ops \o t
    OBVIOUS
  <2>5. code' = [code EXCEPT ![x] = s]
    BY <1>1, <2>3, <2>4, GoesOnWith
  <2>6. Consistent(At({"ptable"}, i, "run", f))
    BY <1>5 DEF Consistent, At
  <2>7. rel \in Seq(Ops) /\ Path(x, rel, At({"ptable"}, i, "run", f), At({}, i, "run", f))
    <3>1. "ptable" \in Locks
      BY DEF Locks
    <3> QED
      BY <1>5, <2>1, <2>6, <3>1, ReleasePath
  <2>8. Round \in Seq(Ops) /\ Path(x, Round, At({}, i, "run", f), At({"ptable"}, TRUE, "gone", f))
    BY <1>2, RoundTyped
  <2>9. /\ ops \in Seq(Ops)
        /\ Path(x, ops, At({"ptable"}, i, "run", f), At({"ptable"}, TRUE, "gone", f))
    BY <2>1, <2>7, <2>8, PathConcat
  <2>10. Typed(x, t, At({"ptable"}, TRUE, "gone", f))
    BY <1>4, TypedEmpty DEF Final, At
  <2>11. s \in Seq(Ops) /\ Typed(x, s, At(L, i, "run", f))
    BY <1>2, <2>4, <2>9, <2>10, TypedConcat
  <2>12. UNCHANGED <<cpu, lock, proc, ticks>>
    BY <1>6, <2>2
  <2>13. panic' = "" /\ "scan" # "sched" /\ f \in Frames
    BY <1>5, <1>6
  <2> QED
    BY <1>1, <2>5, <2>11, <2>12, <2>13, CodeStep
<1>9. CASE ready # {}
  <2>1. PICK p : p = CHOOSE q \in ready : \A r \in ready : q <= r
    OBVIOUS
  <2>2. p \in ready /\ p \in Procs
    <3>1. ready \subseteq Procs
      BY <1>7
    <3> QED
      BY <1>9, <2>1, <3>1, FirstSlot
  <2>3. proc[p].st = "RUNNABLE"
    BY <1>7, <2>2
  <2>4. /\ GoesOn(c, << <<"scan", p + 1>> >>) /\ cpu' = [cpu EXCEPT ![c].proc = p]
        /\ proc' = [proc EXCEPT ![p].st = "RUNNING"]
    BY <1>7, <1>9, <2>1 DEF scan
  <2>5. PICK ops : ops = << <<"scan", p + 1>> >>
    OBVIOUS
  <2>6. GoesOn(c, ops)
    BY <2>4, <2>5
  <2>7. code' = [code EXCEPT ![x] = ops \o t]
    BY <1>1, <2>6, GoesOnWith
  <2>8. ops \in Seq(Ops)
    <3>1. p + 1 \in 1..(NPROC + 1)
      BY <2>2 DEF SmpAssumption, Procs
    <3> QED
      BY <2>5, <3>1, ScanTyped
  <2>9. ops \o t = ops
    BY <1>4, <2>8, ConcatEmptySeq
  <2>10. code' = [code EXCEPT ![c] = << <<"scan", p + 1>> >>]
    BY <1>3, <2>5, <2>7, <2>9
  <2>11. k.ncli = 1 /\ ~k.ie
    BY <1>2 DEF Depth
  <2>12. /\ k = cpu[c] /\ k \in CpuRecs /\ k.proc = None
         /\ Held(c) = {"ptable"} /\ M[c] = Frame("sched")
    BY <1>2, <1>3
  <2>13. cpu' = [cpu EXCEPT ![c].proc = p] /\ proc' = [proc EXCEPT ![p].st = "RUNNING"]
    BY <2>4
  <2> QED
    BY <1>6, <2>2, <2>3, <2>10, <2>11, <2>12, <2>13, Dispatch
<1> QED
  BY <1>8, <1>9

(* sched() keeps the table as it is, and has nothing to give back.         *)
LEMMA SchedTable ==
    ASSUME SmpAssumption, NEW M, Good(M), NEW x \in Procs, NEW g, NEW N, NewFrame(N, M, x, g),
           g.child = M[x].child, g.due = M[x].due, g.nap = M[x].nap,
           g.base = "doomed" => M[x].base = "doomed", proc[x].st # "EMBRYO",
           proc' = proc, ticks' = ticks, \A y \in Threads \ {x} : code'[y] = code[y]
    PROVE  Table(N)'
<1>1. /\ \A y \in Threads \ {x} : N[y] = M[y]
      /\ \A y \in Threads : N[y].child = M[y].child /\ N[y].due = M[y].due /\ N[y].nap = M[y].nap
  BY DEF NewFrame
<1>2. Children(N)'
  <2>1. \A q \in Procs : proc[q].st = "EMBRYO" => proc'[q].st = "EMBRYO" /\ code'[q] = code[q]
    BY DEF Threads
  <2> QED
    BY <1>1, <2>1, ChildrenKept
<1>3. Doomed(N)'
  <2>1. \A p \in Procs : N[p].base = "doomed" => M[p].base = "doomed"
    BY <1>1 DEF NewFrame, Threads
  <2> QED
    BY <2>1, DoomedKept
<1>4. Family'
  BY DEF Good, Family
<1>5. Sleepers(N)'
  <2>1. \A p \in Procs : Late(p)' = Late(p) /\ Childless(p)' = Childless(p)
    BY DEF Late, Elapsed, Childless
  <2>2. \A p \in Procs : (TickSleeper(p, N)' => TickSleeper(p, M)) /\ (Waiter(p, N)' => Waiter(p, M))
    BY <1>1 DEF TickSleeper, Waiter, Threads
  <2> QED
    BY <1>1, <2>1, <2>2, SleepersKept
<1> QED
  BY <1>2, <1>3, <1>4, <1>5 DEF Table

(* A process that sched() has left goes on with its own intena, whatever   *)
(* the processor that resumes it has.                                      *)
LEMMA ResumeTyped ==
    ASSUME NEW x \in Procs, NEW f \in Frames, f.base # "sched", f.nap = "no", ~f.due,
           NEW b \in BOOLEAN, Consistent(At({"ptable"}, b, "off", f)),
           NEW t \in Seq(Ops), Typed(x, t, At({"ptable"}, b, "run", f)),
           NEW s, s = << <<"intena", b>> >> \o t
    PROVE  s \in Seq(Ops) /\ \A i \in BOOLEAN : Typed(x, s, At({"ptable"}, i, "run", f))
<1>1. (f.h => ~b) /\ (f.base = "kernel" /\ ~f.h => b)
  BY DEF Consistent, At
<1>2. <<"intena", b>> \in Ops
  BY OpsKnown
<1>3. ASSUME NEW i \in BOOLEAN PROVE s \in Seq(Ops) /\ Typed(x, s, At({"ptable"}, i, "run", f))
  <2>1. Leads(x, <<"intena", b>>, At({"ptable"}, i, "run", f), At({"ptable"}, b, "run", f))
    BY <1>1, LeadsIntena
  <2>2. /\ << <<"intena", b>> >> \in Seq(Ops)
        /\ Path(x, << <<"intena", b>> >>, At({"ptable"}, i, "run", f), At({"ptable"}, b, "run", f))
    BY <1>2, <2>1, Path1
  <2> QED
    BY <2>2, TypedConcat
<1> QED
  BY <1>3

(* A processor whose process is gone is in its scheduler's loop.           *)
LEMMA SwitchCpu ==
    ASSUME SmpAssumption, NEW N, NEW c \in CPUs, NEW kk, kk.proc = None, kk.ncli = 1, ~kk.ie,
           kk.intena \in BOOLEAN, cpu'[c] = kk, Held(c)' = {"ptable"}, N[c] = Frame("sched"),
           NEW j \in 1..(NPROC + 1), code'[c] = << <<"scan", j>> >>
    PROVE  CpuGood(c, N)'
<1>1. PICK s : s = << <<"scan", j>> >>
  OBVIOUS
<1>2. /\ ~Spinning(s) /\ Typed(c, s, At({"ptable"}, kk.intena, "run", Frame("sched")))
  BY <1>1, ScanTyped
<1>3. Thread(c)' = c /\ code'[c] = s
  BY <1>1 DEF Thread
<1>4. Ints(c)' = kk.intena
  <2>1. cpu'[c].ncli # 0
    BY DepthOne
  <2> QED
    BY <2>1 DEF Ints
<1>5. Status(c)' = "run"
  BY DEF Status
<1>6. Spun(Status(c), code[Thread(c)])' = "run"
  BY <1>2, <1>3, <1>5 DEF Spun, Spinning
<1>7. Typed(Thread(c), code[Thread(c)],
            At(Held(c), Ints(c), Spun(Status(c), code[Thread(c)]), N[Thread(c)]))'
  BY <1>2, <1>3, <1>4, <1>6
<1>8. (cpu[c].ncli = Depth(Held(c)) + (IF Spinning(code[Thread(c)]) THEN 1 ELSE 0))'
  <2>1. Spinning(code[Thread(c)])' = FALSE
    BY <1>2, <1>3 DEF Spinning
  <2>2. Depth(Held(c))' = 1
    BY DepthOne DEF Depth
  <2> QED
    BY <2>1, <2>2, DepthOne
<1>9. N[c].base = "sched" /\ cpu'[c].proc = None /\ ~cpu'[c].ie
  BY SchedFrame
<1> QED
  BY <1>7, <1>8, <1>9 DEF CpuGood

(* A processor leaves the process x to whoever resumes it.                 *)
LEMMA SwitchMachine ==
    ASSUME SmpAssumption, NEW M, Good(M), NEW c \in CPUs, NEW x \in Procs, cpu[c].proc = x,
           NEW N, NEW g, NewFrame(N, M, x, g), NEW kk \in CpuRecs,
           kk.proc = None, kk.ncli = 1, ~kk.ie, Held(c) = {"ptable"},
           panic' = "", lock' = lock, cpu' = [cpu EXCEPT ![c] = kk], proc' = proc,
           \A y \in Threads \ {x} : code'[y] = code[y], ProcGood(x, N)'
    PROVE  Machine(N)'
<1>1. Types(M) /\ Machine(M) /\ CpuGood(c, M) /\ kk.intena \in BOOLEAN
  BY DEF Good, Machine, CpuRecs
<1>2. /\ c \in Threads \ {x} /\ x # None /\ x \in Threads
  BY Names DEF Threads
<1>3. cpu'[c] = kk /\ \A d \in CPUs \ {c} : cpu'[d] = cpu[d]
  BY <1>1 DEF Types
<1>4. \A d \in CPUs : Held(d)' = Held(d)
  BY DEF Held
<1>5. \A y \in Threads \ {x} : Untouched(y, M, N)
  BY DEF Untouched, NewFrame
<1>6. \A d \in CPUs \ {c} : Untouched(d, M, N) /\ Untouched(Thread(d), M, N)
  <2>1. ASSUME NEW d \in CPUs \ {c} PROVE Thread(d) \in Threads \ {x} /\ d \in Threads \ {x}
    <3>1. Thread(d) \in Threads
      BY <1>1, ThreadFacts
    <3>2. Thread(c) = x
      BY <1>2 DEF Thread
    <3>3. Thread(d) # x /\ d # x
      <4>1. \A e \in CPUs \ {c} : Thread(e) # Thread(c) /\ e # Thread(c)
        BY <1>1, ThreadFacts
      <4> QED
        BY <3>2, <4>1
    <3> QED
      BY <3>1, <3>3 DEF Threads
  <2> QED
    BY <1>5, <2>1
<1>7. CpuGood(c, N)'
  <2>1. PICK j \in 1..(NPROC + 1) : code[c] = << <<"scan", j>> >>
    BY <1>1, <1>2 DEF CpuGood
  <2>2. N[c] = Frame("sched")
    BY <1>1, <1>2 DEF CpuGood, NewFrame
  <2>3. code'[c] = << <<"scan", j>> >>
    BY <1>2, <2>1
  <2>4. Held(c)' = {"ptable"}
    BY <1>4
  <2> QED
    BY <1>1, <1>3, <2>2, <2>3, <2>4, SwitchCpu
<1>8. ASSUME NEW p \in Procs, ~OnCpu(p)'
      PROVE  ProcGood(p, N)' \/ (~OnCpu(p) /\ Untouched(p, M, N))
  <2>1. CASE p = x
    BY <2>1
  <2>2. CASE p # x
    <3>1. \A d \in CPUs : cpu[d].proc # p
      BY <1>3, <1>8, <2>2 DEF OnCpu
    <3> QED
      BY <1>5, <2>2, <3>1 DEF OnCpu, Threads
  <2> QED
    BY <2>1, <2>2
<1>9. cpu'[c].proc # None => \A d \in CPUs \ {c} : cpu[d].proc # cpu'[c].proc
  BY <1>3
<1> QED
  BY <1>1, <1>3, <1>4, <1>6, <1>7, <1>8, <1>9, MachineStep

(* sched() finds what it checks, and its processor's scheduler goes on.    *)
LEMMA SchedStep ==
    ASSUME SmpAssumption, NEW M, Good(M), NEW c \in CPUs, sched(c)
    PROVE  SmpInv'
<1>1. PICK x, a, t, L, i, z, f, k : Executed(c, M, "sched", x, a, t, L, i, z, f, k)
  BY Execution DEF sched
<1>2. /\ x = Thread(c) /\ x \in Procs /\ x \in Threads /\ L = {"ptable"} /\ Held(c) = {"ptable"}
      /\ f = M[x] /\ f \in Frames /\ f.base # "sched" /\ f.nap = "no"
  BY <1>1 DEF Executed, FrameFor, LocksFor, At, TableOps, SchedulerOps, SharedOps, LockOps,
              HandlerOps
<1>3. /\ k = cpu[c] /\ k \in CpuRecs /\ k.proc = x /\ k.ncli = Depth({"ptable"})
      /\ (k.ie => k.ncli = 0) /\ i \in BOOLEAN /\ i = (IF k.ncli = 0 THEN k.ie ELSE k.intena)
  BY <1>1, <1>2 DEF Executed
<1>4. k.ncli = 1 /\ ~k.ie /\ i = k.intena
  BY <1>3, DepthOne
<1>5. /\ z \in {"off", "dead"} /\ z = Condition(proc[x].st) /\ Consistent(At({"ptable"}, i, z, f))
      /\ t \in Seq(Ops) /\ Typed(x, t, After(a, At({"ptable"}, i, z, f))) /\ a[1] = "sched"
  BY <1>1, <1>2 DEF Executed
<1>6. ~f.due /\ (z = "dead" => f.child = NoChild)
  BY <1>5 DEF Consistent, At
<1>7. /\ z = "off" => proc[x].st \in {"SLEEPING", "RUNNABLE"}
      /\ z = "dead" => proc[x].st = "ZOMBIE"
      /\ proc[x].st # "RUNNING" /\ proc[x].st # "EMBRYO"
  BY <1>5 DEF Condition
<1>8. SchedPanic(c) = ""
  <2>1. Holding(c, "ptable")
    BY <1>2 DEF Held, Holding
  <2>2. cpu[c].ncli = 1 /\ ~cpu[c].ie /\ proc[Thread(c)].st # "RUNNING"
    BY <1>2, <1>3, <1>4, <1>7
  <2> QED
    BY <2>1, <2>2 DEF SchedPanic
<1>9. /\ GoesOn(c, AfterSwitch(c)) /\ cpu' = [cpu EXCEPT ![c].proc = None]
      /\ UNCHANGED <<lock, proc, ticks, panic>> /\ panic = ""
  BY <1>8 DEF sched, Executes
<1>10. PICK ops : ops = << <<"intena", i>> >>
  OBVIOUS
<1>11. GoesOn(c, ops)
  BY <1>3, <1>4, <1>9, <1>10 DEF AfterSwitch
<1>12. PICK s : s = ops \o t
  OBVIOUS
<1>13. code' = [code EXCEPT ![x] = s]
  BY <1>1, <1>11, <1>12, GoesOnWith
<1>14. s \in Seq(Ops)
  <2>1. <<"intena", i>> \in Ops
    BY <1>3, OpsKnown
  <2> QED
    BY <1>5, <1>10, <1>12, <2>1
<1>15. /\ code' \in [Threads -> Seq(Ops)] /\ code'[x] = s
       /\ \A y \in Threads \ {x} : code'[y] = code[y]
  BY <1>2, <1>13, <1>14 DEF Good, Types
<1>16. PICK kk : kk = [k EXCEPT !.proc = None]
  OBVIOUS
<1>17. kk \in CpuRecs /\ kk.proc = None /\ kk.ncli = 1 /\ ~kk.ie
  BY <1>3, <1>4, <1>16 DEF CpuRecs
<1>18. cpu' = [cpu EXCEPT ![c] = kk]
  BY <1>3, <1>9, <1>16 DEF Good, Types
<1>19. PICK g : g = IF z = "dead" THEN Frame("kernel") ELSE f
  OBVIOUS
<1>20. /\ g \in Frames /\ g.child = f.child /\ g.due = f.due /\ g.nap = f.nap
       /\ (g.base = "doomed" => f.base = "doomed")
  <2>1. CASE z = "dead"
    <3>1. g = Frame("kernel")
      BY <1>19, <2>1
    <3>2. g \in Frames /\ g.child = NoChild /\ g.due = FALSE /\ g.nap = "no" /\ g.base # "doomed"
      BY <3>1 DEF Frame, Frames
    <3>3. f.due = FALSE
      BY <1>2, <1>6 DEF Frames
    <3> QED
      BY <1>2, <1>6, <2>1, <3>2, <3>3
  <2>2. CASE z # "dead"
    BY <1>2, <1>19, <2>2
  <2> QED
    BY <2>1, <2>2
<1>21. PICK N : NewFrame(N, M, x, g)
  BY <1>2, <1>20, NewFrameExists
<1>22. N \in [Threads -> Frames] /\ N[x] = g
  BY <1>21 DEF NewFrame
<1>23. Table(N)'
  <2>1. /\ g.child = M[x].child /\ g.due = M[x].due /\ g.nap = M[x].nap
        /\ (g.base = "doomed" => M[x].base = "doomed")
    BY <1>2, <1>20
  <2> QED
    BY <1>2, <1>7, <1>9, <1>15, <1>21, <2>1, SchedTable
<1>24. ProcGood(x, N)'
  <2>1. CASE z = "off"
    <3>1. N[x] = f
      BY <1>19, <1>22, <2>1
    <3>2. After(a, At({"ptable"}, i, "off", f)) = At({"ptable"}, i, "run", f)
      BY <1>5 DEF After, At, LocksAfter, IntsAfter, StatusAfter, FrameAfter
    <3>3. /\ Consistent(At({"ptable"}, i, "off", f)) /\ Typed(x, t, At({"ptable"}, i, "run", f))
          /\ s = << <<"intena", i>> >> \o t
      BY <1>5, <1>10, <1>12, <2>1, <3>2
    <3>4. \A b \in BOOLEAN : Typed(x, s, At({"ptable"}, b, "run", f))
      BY <1>2, <1>3, <1>5, <1>6, <3>3, ResumeTyped
    <3>5. proc'[x].st \in {"SLEEPING", "RUNNABLE"} /\ proc'[x].st # "RUNNING"
      BY <1>7, <1>9, <2>1
    <3> QED
      BY <1>2, <1>6, <1>15, <3>1, <3>4, <3>5 DEF ProcGood
  <2>2. CASE z = "dead"
    <3>1. N[x] = Frame("kernel")
      BY <1>19, <1>22, <2>2
    <3>2. proc'[x].st = "ZOMBIE"
      BY <1>7, <1>9, <2>2
    <3> QED
      BY <3>1, <3>2 DEF ProcGood
  <2> QED
    BY <1>5, <2>1, <2>2
<1>25. Machine(N)'
  <2>1. panic' = "" /\ lock' = lock /\ proc' = proc /\ cpu[c].proc = x
    BY <1>3, <1>9
  <2> QED
    BY <1>2, <1>15, <1>17, <1>18, <1>21, <1>24, <2>1, SwitchMachine
<1>26. Types(N)'
  <2>1. cpu' \in [CPUs -> CpuRecs]
    BY <1>17, <1>18 DEF Good, Types
  <2> QED
    BY <1>9, <1>15, <1>22, <2>1 DEF Good, Types
<1> QED
  BY <1>23, <1>25, <1>26 DEF Good, SmpInv, Table

----------------------------------------------------------------------------
(* The invariant holds in every state.                                     *)

(* What the processors and the processes are in the middle of at first.    *)
FirstFrames == [x \in Threads |-> IF x \in CPUs THEN Frame("sched")
                                  ELSE IF x = 1 THEN Frame("fresh") ELSE Frame("kernel")]

(* Nobody is in an interrupt handler or has something to give back.        *)
LEMMA FirstFrame ==
    ASSUME SmpAssumption
    PROVE  /\ FirstFrames \in [Threads -> Frames]
           /\ \A c \in CPUs : FirstFrames[c] = Frame("sched") /\ FirstFrames[c].base = "sched"
           /\ FirstFrames[1] = Frame("fresh") /\ FirstFrames[1].base # "sched"
           /\ \A p \in Procs \ {1} : FirstFrames[p] = Frame("kernel")
           /\ \A x \in Threads : /\ FirstFrames[x].child = NoChild /\ ~FirstFrames[x].due
                                 /\ FirstFrames[x].nap = "no" /\ FirstFrames[x].base # "doomed"
<1>1. Frame("sched") \in Frames /\ Frame("fresh") \in Frames /\ Frame("kernel") \in Frames
  BY DEF Frame, Frames
<1>2. \A b \in {"sched", "fresh", "kernel"} :
         /\ Frame(b).child = NoChild /\ ~Frame(b).due /\ Frame(b).nap = "no"
         /\ Frame(b).base = b
  BY DEF Frame
<1>3. /\ \A c \in CPUs : FirstFrames[c] = Frame("sched")
      /\ FirstFrames[1] = Frame("fresh")
      /\ \A p \in Procs \ {1} : FirstFrames[p] = Frame("kernel")
  BY Names DEF FirstFrames, Threads
<1>4. \A x \in Threads : \E b \in {"sched", "fresh", "kernel"} : FirstFrames[x] = Frame(b)
  BY <1>3 DEF Threads
<1>5. FirstFrames \in [Threads -> Frames]
  BY <1>1 DEF FirstFrames
<1> QED
  BY <1>2, <1>3, <1>4, <1>5

(* The slots of the table at first.                                        *)
LEMMA FirstTable ==
    ASSUME SmpAssumption, Init
    PROVE  /\ proc \in [Procs -> ProcRecs]
           /\ proc[1].st = "RUNNABLE" /\ \A p \in Procs \ {1} : proc[p].st = "UNUSED"
           /\ \A p \in Procs : ~proc[p].killed /\ proc[p].parent = None
<1>1. PICK r : r = [FreeProc EXCEPT !.st = "RUNNABLE"]
  OBVIOUS
<1>2. 0 \in 0 .. W - 1
  BY DEF SmpAssumption
<1>3. FreeProc \in ProcRecs /\ FreeProc.st = "UNUSED" /\ ~FreeProc.killed /\ FreeProc.parent = None
  BY <1>2 DEF FreeProc, ProcRecs, States
<1>4. r \in ProcRecs /\ r.st = "RUNNABLE" /\ ~r.killed /\ r.parent = None
  BY <1>1, <1>3 DEF ProcRecs, States
<1>5. proc = [p \in Procs |-> IF p = 1 THEN r ELSE FreeProc] /\ 1 \in Procs
  BY <1>1, Names DEF Init
<1> QED
  BY <1>3, <1>4, <1>5

(* The processors start their loops.                                       *)
LEMMA FirstCpu ==
    ASSUME SmpAssumption, Init, NEW c \in CPUs
    PROVE  CpuGood(c, FirstFrames)
<1>1. /\ cpu[c].proc = None /\ cpu[c].ncli = 0 /\ ~cpu[c].ie /\ cpu[c].ie = FALSE
  BY DEF Init
<1>2. c \in Threads /\ c # None
  BY Names DEF Threads
<1>3. Thread(c) = c /\ code[c] = Round
  BY <1>1, <1>2 DEF Init, Thread, Threads
<1>4. Held(c) = {}
  BY <1>2 DEF Init, Held
<1>5. Ints(c) = FALSE /\ Status(c) = "run"
  BY <1>1 DEF Ints, Status
<1>6. ~Spinning(Round)
  BY DEF Spinning, Round
<1>7. Spun(Status(c), Round) = "run"
  BY <1>5, <1>6 DEF Spun
<1>8. Typed(c, Round, At({}, FALSE, "run", Frame("sched")))
  BY RoundTyped
<1>9. 0 = Depth({}) + 0
  BY DEF Depth
<1>10. FirstFrames[c] = Frame("sched") /\ FirstFrames[c].base = "sched"
  BY FirstFrame
<1>11. Typed(Thread(c), code[Thread(c)],
             At(Held(c), Ints(c), Spun(Status(c), code[Thread(c)]), FirstFrames[Thread(c)]))
  BY <1>3, <1>4, <1>5, <1>7, <1>8, <1>10
<1>12. cpu[c].ncli = Depth(Held(c)) + (IF Spinning(code[Thread(c)]) THEN 1 ELSE 0)
  BY <1>1, <1>3, <1>4, <1>6, <1>9
<1> QED
  BY <1>1, <1>10, <1>11, <1>12 DEF CpuGood

(* The initial states are good.                                            *)
LEMMA InitGood ==
    ASSUME SmpAssumption, Init
    PROVE  SmpInv
<1>1. PICK M : M = FirstFrames
  OBVIOUS
<1>2. /\ M \in [Threads -> Frames] /\ M[1] = Frame("fresh") /\ M[1].base # "sched"
      /\ \A p \in Procs \ {1} : M[p] = Frame("kernel")
      /\ \A x \in Threads : /\ M[x].child = NoChild /\ ~M[x].due
                            /\ M[x].nap = "no" /\ M[x].base # "doomed"
  BY <1>1, FirstFrame
<1>3. /\ proc \in [Procs -> ProcRecs]
      /\ proc[1].st = "RUNNABLE" /\ \A p \in Procs \ {1} : proc[p].st = "UNUSED"
      /\ \A p \in Procs : ~proc[p].killed /\ proc[p].parent = None
  BY FirstTable
<1>4. 1 \in Procs /\ None \notin Procs /\ Procs \cap CPUs = {} /\ Procs \subseteq Threads
  BY Names DEF Threads
<1>5. Types(M)
  <2>1. cpu \in [CPUs -> CpuRecs]
    <3>1. [proc |-> None, ncli |-> 0, intena |-> FALSE, ie |-> FALSE] \in CpuRecs
      BY DEF CpuRecs
    <3> QED
      BY <3>1 DEF Init
  <2>2. lock \in [Locks -> CPUs \cup {None}]
    BY DEF Init
  <2>3. ticks \in 0 .. W - 1
    <3>1. 0 \in 0 .. W - 1
      BY DEF SmpAssumption
    <3> QED
      BY <3>1 DEF Init
  <2>4. code \in [Threads -> Seq(Ops)]
    <3>1. ASSUME NEW x \in CPUs PROVE Round \in Seq(Ops)
      BY RoundTyped
    <3>2. forkret \in Seq(Ops)
      BY <1>4, ForkretTyped
    <3>3. <<>> \in Seq(Ops)
      OBVIOUS
    <3> QED
      BY <3>1, <3>2, <3>3 DEF Init, Threads
  <2> QED
    BY <1>2, <1>3, <2>1, <2>2, <2>3, <2>4 DEF Types
<1>6. Machine(M)
  <2>1. panic = "" /\ \A c \in CPUs : cpu[c].proc = None
    BY DEF Init
  <2>2. \A c \in CPUs : CpuGood(c, M)
    BY <1>1, FirstCpu
  <2>3. ASSUME NEW p \in Procs PROVE ProcGood(p, M)
    <3>1. CASE p = 1
      <4>1. code[1] = forkret
        BY <1>4 DEF Init, Threads
      <4>2. \A b \in BOOLEAN : Typed(1, code[1], At({"ptable"}, b, "run", M[1]))
        BY <1>2, <1>4, <4>1, ForkretTyped
      <4>3. M[1].base # "sched" /\ ~M[1].due /\ M[1].nap = "no"
        BY <1>2, <1>4
      <4>4. proc[1].st # "RUNNING" /\ proc[1].st \in {"SLEEPING", "RUNNABLE"}
        BY <1>3
      <4> QED
        BY <3>1, <4>2, <4>3, <4>4 DEF ProcGood
    <3>2. CASE p # 1
      BY <1>2, <1>3, <3>2 DEF ProcGood
    <3> QED
      BY <3>1, <3>2
  <2> QED
    BY <2>1, <2>2, <2>3 DEF Machine
<1>7. Children(M)
  BY <1>2 DEF Children
<1>8. Doomed(M)
  BY <1>2, <1>4 DEF Doomed
<1>9. Family
  BY <1>3, <1>4 DEF Family
<1>10. Sleepers(M)
  <2>1. \A p \in Procs : proc[p].st # "SLEEPING" /\ M[p].nap = "no"
    BY <1>2, <1>3, <1>4
  <2> QED
    BY <2>1 DEF Sleepers, TickSleeper, Waiter
<1> QED
  BY <1>5, <1>6, <1>7, <1>8, <1>9, <1>10 DEF Good, SmpInv

(* A step that changes nothing keeps the invariant.                        *)
LEMMA Stutter ==
    ASSUME NEW M, Good(M), UNCHANGED vars
    PROVE  SmpInv'
<1>1. /\ cpu' = cpu /\ lock' = lock /\ proc' = proc /\ code' = code /\ ticks' = ticks
      /\ panic' = panic
  BY DEF vars
<1>2. Types(M)'
  BY <1>1 DEF Good, Types
<1>3. Machine(M)'
  <2>1. panic' = "" /\ \A c, d \in CPUs : c # d /\ cpu'[c].proc # None => cpu'[c].proc # cpu'[d].proc
    BY <1>1 DEF Good, Machine
  <2>2. ASSUME NEW c \in CPUs PROVE CpuGood(c, M)'
    <3>1. CpuGood(c, M)
      BY DEF Good, Machine
    <3>2. Held(c)' = Held(c) /\ Ints(c)' = Ints(c) /\ Status(c)' = Status(c) /\ Thread(c)' = Thread(c)
      BY <1>1 DEF Held, Ints, Status, Thread
    <3>3. code'[Thread(c)'] = code[Thread(c)]
      BY <1>1, <3>2
    <3> QED
      BY <1>1, <3>1, <3>2, <3>3 DEF CpuGood
  <2>3. ASSUME NEW p \in Procs, ~OnCpu(p)' PROVE ProcGood(p, M)'
    <3>1. ~OnCpu(p)
      BY <1>1, <2>3 DEF OnCpu
    <3>2. ProcGood(p, M)
      BY <3>1 DEF Good, Machine
    <3> QED
      BY <1>1, <3>2 DEF ProcGood
  <2> QED
    BY <2>1, <2>2, <2>3 DEF Machine
<1>4. Children(M)' /\ Doomed(M)' /\ Family'
  BY <1>1 DEF Good, Children, Doomed, Family
<1>5. Sleepers(M)'
  BY <1>1 DEF Good, Sleepers, TickSleeper, Waiter, Late, Elapsed, Childless
<1> QED
  BY <1>2, <1>3, <1>4, <1>5 DEF Good, SmpInv

(* Every operation of a processor keeps the invariant.                     *)
LEMMA StepGood ==
    ASSUME SmpAssumption, NEW M, Good(M), NEW c \in CPUs, Step(c)
    PROVE  SmpInv'
<1>1. CASE acquire(c) \/ xchg(c) \/ release(c)
  BY <1>1, AcquireStep, XchgStep, ReleaseStep
<1>2. CASE scan(c) \/ sti(c) \/ sched(c) \/ intena(c)
  BY <1>2, ScanStep, StiStep, SchedStep, IntenaStep
<1>3. CASE wakeup1(c) \/ runnable(c) \/ sleep(c) \/ tidy(c)
  BY <1>3, WakeupStep, RunnableStep, SleepStep, TidyStep
<1>4. CASE exitstep(c) \/ waitscan(c) \/ killstep(c)
  BY <1>4, ExitStep, WaitscanStep, KillStep
<1>5. CASE allocproc(c) \/ forkfails(c) \/ forkcopies(c) \/ start(c)
  BY <1>5, AllocStep, ForkfailsStep, ForkcopiesStep, StartStep
<1>6. CASE ticks0(c) \/ sleeploop(c) \/ tick(c)
  BY <1>6, Ticks0Step, SleeploopStep, TickStep
<1>7. CASE syscall(c) \/ sys_exit(c) \/ sysret(c)
  BY <1>7, SyscallStep, SysExitStep, SysretStep
<1>8. CASE interrupt(c) \/ fault(c) \/ killcheck(c) \/ preempt(c) \/ iret(c)
  BY <1>8, InterruptStep, FaultStep, KillcheckStep, PreemptStep, IretStep
<1> QED
  BY <1>1, <1>2, <1>3, <1>4, <1>5, <1>6, <1>7, <1>8 DEF Step

(* The type system is sound: in every reachable state every kernel thread  *)
(* has code that leads, under the locks and interrupts its processor has,  *)
(* back to user code or to its end, for any number of processors and       *)
(* processes (spinlock.c, proc.c, trap.c and sysproc.c of project 3).      *)
THEOREM SmpCorrect ==
    ASSUME SmpAssumption
    PROVE  Spec => []SmpInv
<1>1. Init => SmpInv
  BY InitGood
<1>2. SmpInv /\ [Next]_vars => SmpInv'
  <2>1. SUFFICES ASSUME SmpInv, [Next]_vars PROVE SmpInv'
    OBVIOUS
  <2>2. PICK M : Good(M)
    BY <2>1 DEF SmpInv
  <2>3. CASE UNCHANGED vars
    BY <2>2, <2>3, Stutter
  <2>4. CASE Next
    <3>1. PICK c \in CPUs : Step(c)
      BY <2>4 DEF Next
    <3> QED
      BY <2>2, <3>1, StepGood
  <2> QED
    BY <2>1, <2>3, <2>4
<1> QED
  BY <1>1, <1>2, PTL DEF Spec

(* The variables have their types: the depth of the cli's of a processor   *)
(* never passes 3, a lock belongs to a processor, ticks wraps at W.        *)
THEOREM TypeCorrect ==
    ASSUME SmpAssumption
    PROVE  Spec => []TypeOK
<1>1. SmpInv => TypeOK
  <2>1. SUFFICES ASSUME NEW M, Good(M) PROVE TypeOK
    BY DEF SmpInv
  <2>2. \A p \in Procs : /\ proc[p].st \in States /\ proc[p].chan \in Procs \cup {None, Ticks}
                         /\ proc[p].parent \in Procs \cup {None}
    BY <2>1, ProcFields
  <2> QED
    BY <2>1, <2>2 DEF Good, Types, TypeOK, CpuRecs
<1>2. Spec => []SmpInv
  BY SmpCorrect
<1> QED
  BY <1>1, <1>2, PTL

(* A process that a processor executes without ptable.lock is RUNNING.     *)
LEMMA RunningThread ==
    ASSUME SmpAssumption, NEW M, Good(M), NEW c \in CPUs, cpu[c].proc # None, lock["ptable"] # c
    PROVE  proc[cpu[c].proc].st = "RUNNING"
<1>1. SUFFICES ASSUME proc[cpu[c].proc].st # "RUNNING" PROVE FALSE
  OBVIOUS
<1>2. PICK x, s, L, i, z, f, k : Context(c, M, x, s, L, i, z, f, k)
  BY ContextExists
<1>3. /\ x \in Procs /\ x = cpu[c].proc /\ s \in Seq(Ops) /\ L = Held(c)
      /\ Typed(x, s, At(L, i, z, f)) /\ z = Spun(Condition(proc[x].st), s)
  BY <1>1, <1>2 DEF Context
<1>4. z \in {"off", "dead", "none"}
  BY <1>1, <1>3 DEF Spun, Condition
<1>5. s # <<>>
  <2>1. SUFFICES ASSUME s = <<>> PROVE FALSE
    OBVIOUS
  <2>2. Final(At(L, i, z, f))
    BY <1>3, <2>1, TypedEmpty
  <2> QED
    BY <1>4, <2>2 DEF Final, UserMode, At
<1>6. Needs(x, Head(s), At(L, i, z, f))
  BY <1>3, <1>5, TypedHead
<1>7. Head(s)[1] = "sched"
  BY <1>4, <1>6 DEF Needs, At
<1>8. "ptable" \in L
  BY <1>6, <1>7 DEF Needs, LocksFor, At, TableOps
<1> QED
  BY <1>3, <1>8 DEF Held

(* No order of system calls, interrupts and context switches makes a check *)
(* of acquire(), release(), popcli(), sched() or exit() panic, although    *)
(* ptable.lock is taken by one thread and released by another; no process  *)
(* runs on two processors, and one without ptable.lock is RUNNING.         *)
THEOREM LocksCorrect ==
    ASSUME SmpAssumption
    PROVE  Spec => []LocksDisciplined
<1>1. SmpInv => LocksDisciplined
  <2>1. SUFFICES ASSUME NEW M, Good(M) PROVE LocksDisciplined
    BY DEF SmpInv
  <2>2. \A c \in CPUs : cpu[c].proc # None /\ lock["ptable"] # c
                          => proc[cpu[c].proc].st = "RUNNING"
    BY <2>1, RunningThread
  <2> QED
    BY <2>1, <2>2 DEF Good, Machine, LocksDisciplined
<1>2. Spec => []SmpInv
  BY SmpCorrect
<1> QED
  BY <1>1, <1>2, PTL

----------------------------------------------------------------------------
(* What the code of a thread says about its present mode.                  *)

(* Between a place outside a set and a later one inside it, the set is     *)
(* entered.                                                                *)
LEMMA Entered ==
    ASSUME NEW n \in Nat, NEW S, S \subseteq 1..(n + 1), 1 \notin S, NEW e \in S
    PROVE  \E i \in 1..n : i \notin S /\ i + 1 \in S
<1>1. S \subseteq Nat /\ S # {}
  OBVIOUS
<1>2. PICK j \in S : \A y \in S : ~(<<y, j>> \in OpToRel(<, Nat))
  BY <1>1, NatLessThanWellFounded, WFMin
<1>3. \A y \in S : ~(y < j)
  BY <1>1, <1>2 DEF OpToRel
<1>4. j \in 1..(n + 1) /\ j # 1
  BY <1>2
<1>5. j - 1 \in 1..n /\ j - 1 < j /\ (j - 1) + 1 = j
  BY <1>4
<1>6. j - 1 \notin S
  BY <1>3, <1>5
<1> QED
  BY <1>2, <1>5, <1>6

(* What an operation can do to the frame of its thread: only iret leaves a *)
(* handler or enters user code for the first time, nothing enters a        *)
(* handler, and only the wakeup on &ticks gives back the wakeup owed.      *)
LEMMA AfterFrame ==
    ASSUME NEW x, NEW op, NEW m, NEW m2, Leads(x, op, m, m2), m.frame \in Frames
    PROVE  /\ m2.frame \in Frames
           /\ m2.frame.h => m.frame.h
           /\ op[1] # "iret" => m2.frame.h = m.frame.h /\ m2.frame.base = m.frame.base
           /\ m.frame.due /\ ~m2.frame.due => op = <<"wakeup1", Ticks>>
<1>1. PICK f, g : f = m.frame /\ g = FrameAfter(op, f)
  OBVIOUS
<1>2. m2.frame = g /\ f \in Frames /\ FrameFor(x, op, f)
  BY <1>1 DEF Leads, Needs, After, At
<1>3. /\ g \in Frames /\ (g.h => f.h)
      /\ (op[1] # "iret" => g.h = f.h /\ g.base = f.base)
      /\ (op[1] # "wakeup1" => (f.due => g.due))
  <2>1. CASE op[1] = "tick"
    BY <1>1, <1>2, <2>1 DEF FrameAfter, Frames
  <2>2. CASE op[1] = "wakeup1"
    BY <1>1, <1>2, <2>2 DEF FrameAfter, Frames
  <2>3. CASE op[1] = "sleep"
    BY <1>1, <1>2, <2>3 DEF FrameAfter, Frames
  <2>4. CASE op[1] \in {"copy", "start"}
    BY <1>1, <1>2, <2>4 DEF FrameAfter, Frames
  <2>5. CASE op[1] = "iret"
    <3>1. CASE f.h
      <4>1. g = [f EXCEPT !.h = FALSE]
        BY <1>1, <2>5, <3>1 DEF FrameAfter
      <4> QED
        BY <1>2, <2>5, <3>1, <4>1, ZenonT(60) DEF Frames
    <3>2. CASE ~f.h
      <4>1. g = [f EXCEPT !.base = "kernel"]
        BY <1>1, <2>5, <3>2 DEF FrameAfter
      <4> QED
        BY <1>2, <2>5, <3>2, <4>1 DEF Frames
    <3> QED
      BY <3>1, <3>2
  <2>6. CASE op[1] \notin {"tick", "wakeup1", "sleep", "copy", "start", "iret"}
    BY <1>1, <1>2, <2>6 DEF FrameAfter
  <2> QED
    BY <2>1, <2>2, <2>3, <2>4, <2>5, <2>6
<1>4. op[1] = "wakeup1" /\ f.due => op = <<"wakeup1", Ticks>>
  <2>1. SUFFICES ASSUME op[1] = "wakeup1", f.due PROVE op = <<"wakeup1", Ticks>>
    OBVIOUS
  <2>2. op \in {<<"wakeup1", Ticks>>, <<"wakeup1", Device>>} /\ op[2] = Ticks
    BY <1>2, <2>1 DEF FrameFor
  <2>3. <<"wakeup1", Device>>[2] # Ticks
    BY DEF Device, Ticks
  <2> QED
    BY <2>2, <2>3
<1> QED
  BY <1>1, <1>2, <1>3, <1>4

(* The modes that the code s of thread x passes through.                   *)
Modes(x, s, w) == \A i \in 1..Len(s) : Leads(x, s[i], w[i], w[i + 1])

(* Their frames are frames.                                                *)
LEMMA FramesTyped ==
    ASSUME NEW x, NEW s \in Seq(Ops), NEW w, Modes(x, s, w), w[1].frame \in Frames
    PROVE  \A i \in 1..(Len(s) + 1) : w[i].frame \in Frames
<1>1. SUFFICES ASSUME NEW e \in 1..(Len(s) + 1), w[e].frame \notin Frames PROVE FALSE
  OBVIOUS
<1>2. PICK n : n = Len(s) /\ n \in Nat
  OBVIOUS
<1>3. PICK S : S = {i \in 1..(n + 1) : w[i].frame \notin Frames}
  OBVIOUS
<1>4. S \subseteq 1..(n + 1) /\ 1 \notin S /\ e \in S
  BY <1>1, <1>2, <1>3
<1>5. PICK j \in 1..n : j \notin S /\ j + 1 \in S
  BY <1>2, <1>4, Entered
<1>6. j \in 1..(n + 1)
  BY <1>2
<1>7. w[j].frame \in Frames /\ w[j + 1].frame \notin Frames
  BY <1>3, <1>5, <1>6
<1>8. Leads(x, s[j], w[j], w[j + 1])
  BY <1>2 DEF Modes
<1> QED
  BY <1>7, <1>8, AfterFrame

(* A thread with a killcheck before it is in a handler.                    *)
LEMMA InHandler ==
    ASSUME NEW x, NEW s \in Seq(Ops), NEW w, Modes(x, s, w), w[1].frame \in Frames,
           NEW e \in 1..Len(s), s[e][1] = "killcheck"
    PROVE  w[1].frame.h
<1>1. SUFFICES ASSUME ~w[1].frame.h PROVE FALSE
  OBVIOUS
<1>2. PICK n : n = Len(s) /\ n \in Nat
  OBVIOUS
<1>3. PICK S : S = {i \in 1..(n + 1) : w[i].frame.h}
  OBVIOUS
<1>4. w[e].frame.h
  <2>1. Leads(x, s[e], w[e], w[e + 1])
    BY DEF Modes
  <2> QED
    BY <2>1 DEF Leads, Needs, FrameFor
<1>5. S \subseteq 1..(n + 1) /\ 1 \notin S /\ e \in S
  <2>1. e \in 1..(n + 1)
    BY <1>2
  <2> QED
    BY <1>1, <1>3, <1>4, <2>1
<1>6. PICK j \in 1..n : j \notin S /\ j + 1 \in S
  BY <1>2, <1>5, Entered
<1>7. j \in 1..(n + 1)
  BY <1>2
<1>8. ~w[j].frame.h /\ w[j + 1].frame.h
  BY <1>3, <1>6, <1>7
<1>9. Leads(x, s[j], w[j], w[j + 1]) /\ w[j].frame \in Frames
  BY <1>2, <1>7, FramesTyped DEF Modes
<1> QED
  BY <1>8, <1>9, AfterFrame

(* A thread with a sysret and no iret before it is in a system call.       *)
LEMMA InSyscall ==
    ASSUME NEW x, NEW s \in Seq(Ops), NEW w, Modes(x, s, w), w[1].frame \in Frames,
           NEW e \in 1..Len(s), s[e][1] = "sysret", \A i \in 1..Len(s) : s[i][1] # "iret"
    PROVE  w[1].frame.base = "kernel" /\ ~w[1].frame.h
<1>1. SUFFICES ASSUME ~(w[1].frame.base = "kernel" /\ ~w[1].frame.h) PROVE FALSE
  OBVIOUS
<1>2. PICK n : n = Len(s) /\ n \in Nat
  OBVIOUS
<1>3. PICK S : S = {i \in 1..(n + 1) : w[i].frame.base = "kernel" /\ ~w[i].frame.h}
  OBVIOUS
<1>4. w[e].frame.base = "kernel" /\ ~w[e].frame.h
  <2>1. Leads(x, s[e], w[e], w[e + 1])
    BY DEF Modes
  <2>2. w[e].frame = Frame("kernel")
    BY <2>1 DEF Leads, Needs, FrameFor
  <2> QED
    BY <2>2 DEF Frame
<1>5. S \subseteq 1..(n + 1) /\ 1 \notin S /\ e \in S
  <2>1. e \in 1..(n + 1)
    BY <1>2
  <2> QED
    BY <1>1, <1>3, <1>4, <2>1
<1>6. PICK j \in 1..n : j \notin S /\ j + 1 \in S
  BY <1>2, <1>5, Entered
<1>7. j \in 1..(n + 1)
  BY <1>2
<1>8. /\ ~(w[j].frame.base = "kernel" /\ ~w[j].frame.h)
      /\ w[j + 1].frame.base = "kernel" /\ ~w[j + 1].frame.h
  BY <1>3, <1>6, <1>7
<1>9. Leads(x, s[j], w[j], w[j + 1]) /\ w[j].frame \in Frames /\ s[j][1] # "iret"
  BY <1>2, <1>7, FramesTyped DEF Modes
<1> QED
  BY <1>8, <1>9, AfterFrame

(* A thread that owes a wakeup has it before it.                           *)
LEMMA WakeupAhead ==
    ASSUME NEW x, NEW s \in Seq(Ops), NEW m, NEW m2, Path(x, s, m, m2), Final(m2),
           m.st # "gone", m.frame \in Frames, m.frame.due
    PROVE  \E i \in DOMAIN s : s[i] = <<"wakeup1", Ticks>>
<1>1. PICK w : w[1] = m /\ w[Len(s) + 1] = m2 /\ Modes(x, s, w)
  BY DEF Path, Modes
<1>2. PICK n : n = Len(s) /\ n \in Nat
  OBVIOUS
<1>3. PICK S : S = {i \in 1..(n + 1) : ~w[i].frame.due}
  OBVIOUS
<1>4. 1 \in 1..(n + 1) /\ n + 1 \in 1..(n + 1)
  BY <1>2
<1>5. \E e \in 1..(n + 1) : ~w[e].frame.due
  <2>1. CASE m2 = UserMode
    <3>1. ~m2.frame.due
      BY <2>1 DEF UserMode, At, Frame
    <3> QED
      BY <1>1, <1>2, <1>4, <3>1
  <2>2. CASE m2.st = "gone"
    <3>1. n # 0
      BY <1>1, <1>2, <2>2
    <3>2. n \in 1..n /\ n \in 1..(n + 1)
      BY <1>2, <3>1
    <3>3. Leads(x, s[n], w[n], m2)
      BY <1>1, <1>2, <3>2 DEF Modes
    <3>4. Needs(x, s[n], w[n]) /\ StatusAfter(s[n], w[n]) = "gone"
      BY <2>2, <3>3 DEF Leads, After, At
    <3>5. w[n].st \in {"off", "dead", "spin", "run"}
      BY <3>4 DEF Needs
    <3>6. \/ s[n][1] = "sched" \/ s[n][1] = "scan" \/ s[n][1] = "killcheck"
      BY <3>4, <3>5 DEF StatusAfter
    <3>7. /\ Consistent(w[n]) /\ LocksFor(s[n], w[n]) /\ FrameFor(x, s[n], w[n].frame)
      BY <3>4, <3>6 DEF Needs
    <3>8. w[n].locks = {"ptable"} \/ w[n].locks = {}
      BY <3>6, <3>7 DEF LocksFor, TableOps, FreeOps
    <3>9. "ticks" \notin w[n].locks
      BY <3>8
    <3>10. ~w[n].frame.due
      BY <3>7, <3>9 DEF Consistent
    <3> QED
      BY <3>2, <3>10
  <2> QED
    BY <2>1, <2>2 DEF Final
<1>6. PICK e : e \in S
  BY <1>3, <1>5
<1>7. S \subseteq 1..(n + 1) /\ 1 \notin S
  BY <1>1, <1>3
<1>8. PICK j \in 1..n : j \notin S /\ j + 1 \in S
  BY <1>2, <1>6, <1>7, Entered
<1>9. j \in 1..(n + 1) /\ j \in DOMAIN s
  BY <1>2
<1>10. w[j].frame.due /\ ~w[j + 1].frame.due
  BY <1>3, <1>8, <1>9
<1>11. Leads(x, s[j], w[j], w[j + 1]) /\ w[j].frame \in Frames
  BY <1>1, <1>2, <1>9, FramesTyped DEF Modes
<1> QED
  BY <1>9, <1>10, <1>11, AfterFrame

(* Interrupts are as the thread needs them, on a processor that has none   *)
(* switched off.                                                           *)
LEMMA InterruptMode ==
    ASSUME SmpAssumption, NEW M, Good(M), NEW c \in CPUs, cpu[c].ncli = 0
    PROVE  /\ Runs(c, "killcheck") => ~cpu[c].ie
           /\ Runs(c, "sysret") /\ ~Runs(c, "killcheck") /\ ~Runs(c, "iret") => cpu[c].ie
           /\ InUser(c) => cpu[c].ie
<1>1. PICK x, s, L, i, z, f, k : Context(c, M, x, s, L, i, z, f, k)
  BY ContextExists
<1>2. /\ x = Thread(c) /\ s = code[x] /\ s \in Seq(Ops) /\ L \subseteq Locks /\ f \in Frames
      /\ k = cpu[c] /\ k.ncli = Depth(L) + (IF Spinning(s) THEN 1 ELSE 0)
      /\ i = (IF k.ncli = 0 THEN k.ie ELSE k.intena) /\ Typed(x, s, At(L, i, z, f))
  BY <1>1 DEF Context
<1>3. i = cpu[c].ie
  BY <1>2
<1>4. L = {}
  <2>1. Depth(L) + (IF Spinning(s) THEN 1 ELSE 0) = 0
    BY <1>2
  <2>2. "ptable" \notin L /\ "ticks" \notin L
    BY <2>1 DEF Depth
  <2> QED
    BY <1>2, <2>2 DEF Locks
<1>5. InUser(c) => cpu[c].ie
  BY UserContext DEF UserMachine
<1>6. PICK m, m2 : m = At(L, i, z, f) /\ Path(x, s, m, m2)
  BY <1>2 DEF Typed
<1>7. PICK w : w[1] = m /\ Modes(x, s, w)
  BY <1>6 DEF Path, Modes
<1>8. w[1].frame = f /\ w[1].frame \in Frames
  BY <1>2, <1>6, <1>7 DEF At
<1>9. s # <<>> => (f.h => ~i) /\ (f.base = "kernel" /\ ~f.h => i)
  <2>1. SUFFICES ASSUME s # <<>> PROVE (f.h => ~i) /\ (f.base = "kernel" /\ ~f.h => i)
    OBVIOUS
  <2>2. Needs(x, Head(s), At(L, i, z, f))
    BY <1>2, <2>1, TypedHead
  <2>3. Head(s)[1] # "intena"
    BY <1>4, <2>2 DEF Needs, LocksFor, At, TableOps
  <2>4. Consistent(At(L, i, z, f))
    BY <2>2, <2>3 DEF Needs
  <2> QED
    BY <2>4 DEF Consistent, At
<1>10. \A op : Runs(c, op) <=> \E e \in 1..Len(s) : s[e][1] = op
  BY <1>2 DEF Runs
<1>11. ASSUME NEW e \in 1..Len(s) PROVE s # <<>>
  BY <1>2
<1>12. Runs(c, "killcheck") => ~cpu[c].ie
  <2>1. SUFFICES ASSUME Runs(c, "killcheck") PROVE ~cpu[c].ie
    OBVIOUS
  <2>2. PICK e \in 1..Len(s) : s[e][1] = "killcheck"
    BY <1>10, <2>1
  <2>3. f.h
    BY <1>2, <1>7, <1>8, <2>2, InHandler
  <2> QED
    BY <1>3, <1>9, <1>11, <2>2, <2>3
<1>13. Runs(c, "sysret") /\ ~Runs(c, "iret") => cpu[c].ie
  <2>1. SUFFICES ASSUME Runs(c, "sysret"), ~Runs(c, "iret") PROVE cpu[c].ie
    OBVIOUS
  <2>2. PICK e \in 1..Len(s) : s[e][1] = "sysret"
    BY <1>10, <2>1
  <2>3. \A j \in 1..Len(s) : s[j][1] # "iret"
    BY <1>10, <2>1
  <2>4. f.base = "kernel" /\ ~f.h
    BY <1>2, <1>7, <1>8, <2>2, <2>3, InSyscall
  <2> QED
    BY <1>3, <1>9, <1>11, <2>2, <2>4
<1> QED
  BY <1>5, <1>12, <1>13

(* However often a thread moves between processors: interrupts are off in  *)
(* a handler, on in a system call without locks and on in user code, since *)
(* sched() gives the processor the thread's own intena.                    *)
THEOREM InterruptsCorrect ==
    ASSUME SmpAssumption
    PROVE  Spec => []InterruptsRestored
<1>1. SmpInv => InterruptsRestored
  <2>1. SUFFICES ASSUME NEW M, Good(M) PROVE InterruptsRestored
    BY DEF SmpInv
  <2> QED
    BY <2>1, InterruptMode DEF InterruptsRestored
<1>2. Spec => []SmpInv
  BY SmpCorrect
<1> QED
  BY <1>1, <1>2, PTL

(* A wakeup that is owed is in the code of the thread that owes it.        *)
LEMMA WakeupOwed ==
    ASSUME SmpAssumption, NEW M, Good(M), NEW x \in Threads, M[x].due
    PROVE  \E i \in DOMAIN code[x] : code[x][i] = <<"wakeup1", Ticks>>
<1>1. \A b \in {"sched", "kernel"} : ~Frame(b).due
  BY DEF Frame
<1>2. PICK c \in CPUs : Thread(c) = x
  <2>1. CASE x \in Procs
    <3>1. OnCpu(x)
      <4>1. SUFFICES ASSUME ~OnCpu(x) PROVE FALSE
        OBVIOUS
      <4>2. ProcGood(x, M)
        BY <2>1, <4>1 DEF Good, Machine
      <4> QED
        BY <1>1, <4>2 DEF ProcGood
    <3>2. PICK c \in CPUs : cpu[c].proc = x
      BY <3>1 DEF OnCpu
    <3>3. x # None
      BY Names
    <3> QED
      BY <3>2, <3>3 DEF Thread
  <2>2. CASE x \in CPUs
    <3>1. CpuGood(x, M)
      BY <2>2 DEF Good, Machine
    <3>2. cpu[x].proc = None
      BY <1>1, <3>1 DEF CpuGood
    <3> QED
      BY <2>2, <3>2 DEF Thread
  <2> QED
    BY <2>1, <2>2 DEF Threads
<1>3. PICK y, s, L, i, z, f, k : Context(c, M, y, s, L, i, z, f, k)
  BY ContextExists
<1>4. /\ y = x /\ s = code[x] /\ s \in Seq(Ops) /\ f = M[x] /\ f \in Frames
      /\ z \in {"run", "spin", "off", "dead", "none"} /\ Typed(x, s, At(L, i, z, f))
  BY <1>2, <1>3 DEF Context
<1>5. PICK m, m2 : m = At(L, i, z, f) /\ Path(x, s, m, m2) /\ Final(m2)
  BY <1>4 DEF Typed
<1>6. m.st # "gone" /\ m.frame \in Frames /\ m.frame.due
  BY <1>4, <1>5 DEF At
<1> QED
  BY <1>4, <1>5, <1>6, WakeupAhead

(* No wakeup is lost: a process whose time is up stays asleep only while   *)
(* the timer interrupt that wakes it is under way, and nobody sleeps in    *)
(* wait() with a child that has exited or after being killed: sleep()      *)
(* takes ptable.lock before it gives up the lock of its caller.            *)
THEOREM WakeupCorrect ==
    ASSUME SmpAssumption
    PROVE  Spec => []NoLostWakeup
<1>1. SmpInv => NoLostWakeup
  <2>1. SUFFICES ASSUME NEW M, Good(M), NEW p \in Procs, proc[p].st = "SLEEPING"
                 PROVE  /\ proc[p].chan = Ticks /\ Elapsed(p) >= proc[p].n =>
                             \E x \in Procs \cup CPUs : \E i \in DOMAIN code[x] :
                                code[x][i] = <<"wakeup1", Ticks>>
                        /\ proc[p].chan = p =>
                             /\ ~proc[p].killed
                             /\ \A q \in Procs : proc[q].parent = p => proc[q].st # "ZOMBIE"
    BY DEF SmpInv, NoLostWakeup
  <2>2. ASSUME proc[p].chan = Ticks, Elapsed(p) >= proc[p].n
        PROVE  \E x \in Procs \cup CPUs : \E i \in DOMAIN code[x] : code[x][i] = <<"wakeup1", Ticks>>
    <3>1. TickSleeper(p, M) /\ Late(p)
      BY <2>1, <2>2 DEF TickSleeper, Late
    <3>2. PICK x \in Threads : M[x].due
      BY <2>1, <3>1 DEF Good, Sleepers
    <3>3. \E i \in DOMAIN code[x] : code[x][i] = <<"wakeup1", Ticks>>
      BY <2>1, <3>2, WakeupOwed
    <3> QED
      BY <3>3 DEF Threads
  <2>3. ASSUME proc[p].chan = p
        PROVE  /\ ~proc[p].killed
               /\ \A q \in Procs : proc[q].parent = p => proc[q].st # "ZOMBIE"
    <3>1. Waiter(p, M)
      BY <2>1, <2>3 DEF Waiter
    <3> QED
      BY <2>1, <3>1 DEF Good, Sleepers, Childless
  <2> QED
    BY <2>2, <2>3
<1>2. Spec => []SmpInv
  BY SmpCorrect
<1> QED
  BY <1>1, <1>2, PTL

=============================================================================
