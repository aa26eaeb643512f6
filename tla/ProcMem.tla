------------------------------ MODULE ProcMem ------------------------------
(***************************************************************************)
(* The memory of one multi-threaded process in the second kernel: sbrk and *)
(* growproc, the user stacks of thread_create, and the limit another       *)
(* process sets (project2_LWP/proc.c, sysproc.c, vm.c).                    *)
(*                                                                         *)
(* Only one thread of a process runs at a time, but growproc() holds no    *)
(* lock, so the timer may switch threads between any two of its steps.     *)
(* thread_create() holds ptable.lock and is one step; it keeps the lock    *)
(* when it fails, which stops the machine at the next acquire.  Addresses  *)
(* are in units of which PGSIZE make a page; mapped is the set of present  *)
(* pages.                                                                  *)
(***************************************************************************)
EXTENDS Integers, FiniteSets, FiniteSetsExt

CONSTANTS
    Threads,     \* the threads that call sbrk and thread_create
    PGSIZE,      \* units per page
    InitSz,      \* p->sz after exec
    MaxSz,       \* bound: no call is made that would pass it
    Requests,    \* arguments of sbrk
    Limits,      \* arguments of setmemorylimit
    MaxStacks,   \* NTHREAD - 1: slots for created threads
    NoMemory     \* whether kalloc may fail

MemAssumption ==
    /\ PGSIZE \in Nat \ {0} /\ InitSz \in Nat \ {0} /\ MaxSz \in Nat
    /\ InitSz <= MaxSz /\ Requests \subseteq Int /\ Limits \subseteq Int
    /\ MaxStacks \in Nat /\ NoMemory \in BOOLEAN

VARIABLES
    sz,       \* p->sz
    limit,    \* p->limit, 0 for none
    mapped,   \* pages present in p->pgdir
    ustack,   \* the top of the user stack of each created thread, or 0
    freed,    \* p->freedustack: the stack a slot's last thread left
    pc,       \* where each thread is in sbrk
    n,        \* its argument
    addr,     \* what sys_sbrk will return
    old,      \* growproc's sz
    new,      \* growproc's newsz
    a,        \* the loop variable of allocuvm and deallocuvm
    region,   \* what the last successful sbrk of the thread promised it
    mpc,      \* the process that sets the limit
    mlimit,   \* its argument
    fault     \* what stopped the machine: a panic of mappages, ptable.lock
              \* kept by a call that returned, or the running page table freed

callVars == <<n, addr, old, new, a>>
managerVars == <<mpc, mlimit>>
stackVars == <<ustack, freed>>
vars == <<sz, limit, mapped, stackVars, pc, callVars, region, managerVars, fault>>

PGROUNDUP(x) == ((x + PGSIZE - 1) \div PGSIZE) * PGSIZE
Page(x) == x \div PGSIZE
Pages(lo, hi) == {Page(x) : x \in {y \in lo..(hi - 1) : y % PGSIZE = 0}}
StackSz == 2 * PGSIZE          \* a guard page and one stack page
NoRegion == <<0, 0>>
Slots == 1..MaxStacks

TypeOK ==
    /\ sz \in 0..MaxSz /\ limit \in Nat
    /\ mapped \subseteq 0..Page(MaxSz + StackSz)
    /\ ustack \in [Slots -> 0..MaxSz] /\ freed \in [Slots -> 0..MaxSz]
    /\ pc \in [Threads -> {"user", "grow", "alloc", "dealloc"}]
    /\ n \in [Threads -> Requests \cup {0}]
    /\ addr \in [Threads -> Nat] /\ old \in [Threads -> Nat]
    /\ new \in [Threads -> Nat] /\ a \in [Threads -> Nat]
    /\ region \in [Threads -> Nat \X Nat]
    /\ mpc \in {"idle", "set"} /\ mlimit \in Limits \cup {0}
    /\ fault \in {"none", "remap", "lock kept", "freed"}

Init ==
    /\ sz = InitSz /\ limit = 0 /\ mapped = Pages(0, InitSz)
    /\ ustack = [k \in Slots |-> 0] /\ freed = [k \in Slots |-> 0]
    /\ pc = [t \in Threads |-> "user"]
    /\ n = [t \in Threads |-> 0] /\ addr = [t \in Threads |-> 0]
    /\ old = [t \in Threads |-> 0] /\ new = [t \in Threads |-> 0]
    /\ a = [t \in Threads |-> 0]
    /\ region = [t \in Threads |-> NoRegion]
    /\ mpc = "idle" /\ mlimit = 0 /\ fault = "none"

-----------------------------------------------------------------------------
(* sbrk.                                                                   *)

\* The call ends and its locals are forgotten.
Back(t) ==
    /\ pc' = [pc EXCEPT ![t] = "user"]
    /\ n' = [n EXCEPT ![t] = 0] /\ addr' = [addr EXCEPT ![t] = 0]
    /\ old' = [old EXCEPT ![t] = 0] /\ new' = [new EXCEPT ![t] = 0]
    /\ a' = [a EXCEPT ![t] = 0]

\* addr = myproc()->sz.  (A program that shrinks to nothing unmaps itself.)
sys_sbrk(t, k) ==
    /\ fault = "none" /\ pc[t] = "user" /\ sz + k \in 1..MaxSz
    /\ addr' = [addr EXCEPT ![t] = sz]
    /\ n' = [n EXCEPT ![t] = k]
    /\ pc' = [pc EXCEPT ![t] = "grow"]
    /\ UNCHANGED <<sz, limit, mapped, stackVars, old, new, a, region, managerVars, fault>>

\* newsz, cut down to the limit.
newsz(k) == IF limit # 0 /\ sz + k > limit THEN limit ELSE sz + k

\* growproc reads sz and limit.  allocuvm returns oldsz when newsz is below
\* it; deallocuvm likewise when sz + n is not.
growproc(t) ==
    /\ fault = "none" /\ pc[t] = "grow" /\ sz + n[t] \in 1..MaxSz
    /\ old' = [old EXCEPT ![t] = sz]
    /\ IF n[t] > 0
       THEN /\ new' = [new EXCEPT ![t] = IF newsz(n[t]) < sz THEN sz ELSE newsz(n[t])]
            /\ a' = [a EXCEPT ![t] = PGROUNDUP(sz)]
            /\ pc' = [pc EXCEPT ![t] = "alloc"]
       ELSE /\ new' = [new EXCEPT ![t] = sz + n[t]]
            /\ a' = [a EXCEPT ![t] = PGROUNDUP(sz + n[t])]
            /\ pc' = [pc EXCEPT ![t] = "dealloc"]
    /\ UNCHANGED <<sz, limit, mapped, stackVars, n, addr, region, managerVars, fault>>

\* One turn of allocuvm's loop: mappages panics on a page that is present.
allocuvm(t) ==
    /\ fault = "none" /\ pc[t] = "alloc" /\ a[t] < new[t]
    /\ IF Page(a[t]) \in mapped
       THEN fault' = "remap" /\ UNCHANGED <<mapped, a>>
       ELSE /\ mapped' = mapped \cup {Page(a[t])}
            /\ a' = [a EXCEPT ![t] = @ + PGSIZE]
            /\ UNCHANGED fault
    /\ UNCHANGED <<sz, limit, stackVars, pc, n, addr, old, new, region, managerVars>>

\* kalloc fails: deallocuvm(pgdir, newsz, oldsz), and sbrk returns -1.
AllocFails(t) ==
    /\ fault = "none" /\ NoMemory /\ pc[t] = "alloc" /\ a[t] < new[t]
    /\ mapped' = mapped \ Pages(old[t], new[t])
    /\ Back(t)
    /\ UNCHANGED <<sz, limit, stackVars, region, managerVars, fault>>

\* curproc->sz = sz; sbrk returns addr, and the caller owns n units from it.
GrowReturns(t) ==
    /\ fault = "none" /\ pc[t] = "alloc" /\ a[t] >= new[t]
    /\ sz' = new[t]
    /\ region' = [region EXCEPT ![t] = <<addr[t], addr[t] + n[t]>>]
    /\ Back(t)
    /\ UNCHANGED <<limit, mapped, stackVars, managerVars, fault>>

deallocuvm(t) ==
    /\ fault = "none" /\ pc[t] = "dealloc" /\ a[t] < old[t]
    /\ mapped' = mapped \ {Page(a[t])}
    /\ a' = [a EXCEPT ![t] = @ + PGSIZE]
    /\ UNCHANGED <<sz, limit, stackVars, pc, n, addr, old, new, region, managerVars, fault>>

\* The thread gave memory back: what is left of its region is below sz.
ShrinkReturns(t) ==
    /\ fault = "none" /\ pc[t] = "dealloc" /\ a[t] >= old[t]
    /\ sz' = new[t]
    /\ region' = [u \in Threads |-> IF region[u][2] > new[t] THEN NoRegion ELSE region[u]]
    /\ Back(t)
    /\ UNCHANGED <<limit, mapped, stackVars, managerVars, fault>>

-----------------------------------------------------------------------------
(* Threads.                                                                *)

\* allocth
Unused == {k \in Slots : ustack[k] = 0}
allocth == Min(Unused)

\* No slot, or no page for the kernel stack.
CreateFails(t) ==
    /\ fault = "none" /\ pc[t] = "user" /\ (NoMemory \/ Unused = {})
    /\ fault' = "lock kept"
    /\ UNCHANGED <<sz, limit, mapped, stackVars, pc, callVars, region, managerVars>>

\* bad: freevm(curproc->pgdir), while the process runs on it.
Bad ==
    /\ mapped' = {} /\ fault' = "freed"
    /\ UNCHANGED <<sz, limit, stackVars, pc, callVars, region, managerVars>>

\* The slot has no stack yet: a new one above the rounded size.  The limit
\* is not looked at.
thread_create(t) ==
    LET s == PGROUNDUP(sz)  top == s + StackSz IN
    /\ fault = "none" /\ pc[t] = "user" /\ Unused # {} /\ freed[allocth] = 0
    /\ top <= MaxSz
    /\ IF Pages(s, top) \cap mapped # {}
       THEN fault' = "remap" /\ UNCHANGED <<sz, mapped, ustack>>
       ELSE /\ mapped' = mapped \cup Pages(s, top)
            /\ sz' = top
            /\ ustack' = [ustack EXCEPT ![allocth] = top]
            /\ UNCHANGED fault
    /\ UNCHANGED <<limit, freed, pc, callVars, region, managerVars>>

\* kalloc fails in allocuvm.
StackFails(t) ==
    /\ fault = "none" /\ pc[t] = "user" /\ NoMemory /\ Unused # {} /\ freed[allocth] = 0
    /\ Bad

\* The slot has the stack of an earlier thread: only the rounding of sz
\* stays.  copyout fails when sbrk has taken the page of that stack away.
CreateReuses(t) ==
    LET top == freed[allocth] IN
    /\ fault = "none" /\ pc[t] = "user" /\ Unused # {} /\ top # 0
    /\ PGROUNDUP(sz) <= MaxSz
    /\ \/ /\ Page(top - 1) \in mapped
          /\ sz' = PGROUNDUP(sz)
          /\ ustack' = [ustack EXCEPT ![allocth] = top]
          /\ freed' = [freed EXCEPT ![allocth] = 0]
          /\ UNCHANGED <<limit, mapped, pc, callVars, region, managerVars, fault>>
       \/ Page(top - 1) \notin mapped /\ Bad

\* thread_join: the slot keeps the stack for its next thread.
freeustack(t) ==
    \E k \in Slots :
      /\ fault = "none" /\ pc[t] = "user" /\ ustack[k] # 0
      /\ ustack' = [ustack EXCEPT ![k] = 0] /\ freed' = [freed EXCEPT ![k] = ustack[k]]
      /\ UNCHANGED <<sz, limit, mapped, pc, callVars, region, managerVars, fault>>

-----------------------------------------------------------------------------
(* setmemorylimit: the size is tested and the limit stored without a lock. *)

setmemorylimit(l) ==
    /\ fault = "none" /\ mpc = "idle" /\ l >= 0 /\ sz <= l
    /\ mpc' = "set" /\ mlimit' = l
    /\ UNCHANGED <<sz, limit, mapped, stackVars, pc, callVars, region, fault>>

StoreLimit ==
    /\ fault = "none" /\ mpc = "set"
    /\ limit' = mlimit
    /\ mpc' = "idle" /\ mlimit' = 0
    /\ UNCHANGED <<sz, mapped, stackVars, pc, callVars, region, fault>>

Next ==
    \/ \E t \in Threads :
         \/ \E k \in Requests : sys_sbrk(t, k)
         \/ growproc(t) \/ allocuvm(t) \/ AllocFails(t) \/ GrowReturns(t)
         \/ deallocuvm(t) \/ ShrinkReturns(t)
         \/ thread_create(t) \/ CreateFails(t) \/ StackFails(t) \/ CreateReuses(t)
         \/ freeustack(t)
    \/ \E l \in Limits : setmemorylimit(l)
    \/ StoreLimit

Spec == Init /\ [][Next]_vars

-----------------------------------------------------------------------------
(* Properties.                                                             *)

Idle == \A t \in Threads : pc[t] \in {"user", "grow"}

\* Between calls the page table holds exactly the pages below p->sz: what
\* fork's copyuvm, which panics on a hole, and exit's freevm rely on; also
\* when memory ran out in sbrk.  (thread_create that fails frees it all.)
MappedExact == Idle /\ fault # "freed" => mapped = Pages(0, sz)

----------------------------------------------------------------------------
(* What the repository says of the program and the code does not do (the   *)
(* README lists where).  No passing run checks these.                      *)

\* sbrk that succeeds has given the caller all it asked for.
GrowsAsAsked == \A t \in Threads : region[t][2] <= sz

\* mappages never meets a page that is present.
NoRemap == fault # "remap"

\* thread_create that fails leaves the process and the kernel as they were.
CreateFailsCleanly == fault \notin {"lock kept", "freed"}

\* Two threads never own the same memory.
RegionsDisjoint ==
    \A t, u \in Threads : t # u =>
        region[t][2] <= region[u][1] \/ region[u][2] <= region[t][1]

\* The size stays within the limit.
LimitHolds == limit # 0 => sz <= limit
=============================================================================
