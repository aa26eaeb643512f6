-------------------------------- MODULE Boot --------------------------------
(***************************************************************************)
(* How src/project1_scheduler comes up on several processors: main.c,      *)
(* mp.c, kalloc.c, the start of a processor in lapic.c and entryother.S.   *)
(*                                                                         *)
(* The first processor reads the table of processors, starts the others    *)
(* one by one through one word of memory (their stack) and two messages,   *)
(* and hands over the free pages in two parts, the first without a lock.   *)
(* A processor is named by the id of its APIC.  The other devices main()   *)
(* initialises take no part.                                               *)
(***************************************************************************)
EXTENDS Integers, Sequences, FiniteSets, Functions, SequencesExt

CONSTANTS
    Machines,       \* what the BIOS leaves behind, see mpsearch and mpconfig
    NCPU,           \* entries of cpus
    Low,            \* pages kinit1 frees
    High            \* pages kinit2 frees

NoPage == 0
Pages == 1..(Low + High)

VARIABLES
    machine,        \* the machine at hand
    pc,             \* where the first processor is in main()
    entry,          \* mpinit: p
    cpus,           \* the apic ids of cpus[0], cpus[1], ...
    k,              \* loop counter of startothers and freerange
    word,           \* the stack at code-4
    cpu,            \* the processors
    kmem,           \* freelist, use_lock and the holder of the lock
    next,           \* struct run, the link in each free page
    runnable,       \* is there a process?
    panic

bvars == <<machine, pc, entry, cpus, k, word, cpu, kmem, next, runnable, panic>>

(* st: off, reset (after an INIT), entry (in entryother.S), mpenter,       *)
(* scheduler; call: the kalloc or kfree it is in.                          *)
NoCall == [fn |-> "none", step |-> "none", r |-> NoPage]
Off == [st |-> "off", stack |-> NoPage, started |-> FALSE, ipis |-> <<>>,
        call |-> NoCall, has |-> {}]

(* The processors of a machine.                                            *)
Ids(m) == {m.entries[i].apicid : i \in {j \in DOMAIN m.entries : m.entries[j].type = "MPPROC"}}

(* kinit1 runs alone: freerange leaves the low pages on the list.          *)
Init ==
    /\ machine \in Machines
    /\ pc = "mpinit" /\ entry = 1 /\ cpus = <<>> /\ k = 1 /\ word = NoPage
    /\ cpu = [c \in Ids(machine) |->
                IF c = machine.boot THEN [Off EXCEPT !.st = "main"] ELSE Off]
    /\ kmem = [freelist |-> Low, use_lock |-> FALSE, lock |-> -1]
    /\ next = [x \in Pages |-> IF x <= Low THEN x - 1 ELSE NoPage]
    /\ runnable = FALSE /\ panic = "none"

bsp == machine.boot

----------------------------------------------------------------------------
(* mp.c.  A floating pointer is searched for in the extended BIOS data     *)
(* area or, if the machine has none, at the end of base memory, then in    *)
(* the ROM; a place holds "none", or a pointer to a good or a bad table.   *)
mpsearch(m) ==
    LET low == IF m.ebda # "absent" THEN m.ebda ELSE m.base IN
    IF low # "none" THEN low ELSE m.rom

(* The table's signature, version and checksum must be right.              *)
mpconfig(m) == mpsearch(m) = "good"

Panics(why) ==
    /\ panic' = why
    /\ UNCHANGED <<machine, pc, entry, cpus, k, word, cpu, kmem, next, runnable>>

NoTable == pc = "mpinit" /\ ~mpconfig(machine) /\ Panics("not an SMP")

(* One entry of the table.  The default case leaves the switch and not the *)
(* loop: an entry of another type is looked at for ever.                   *)
MpEntry ==
    LET e == machine.entries[entry] IN
    /\ pc = "mpinit" /\ mpconfig(machine) /\ entry <= Len(machine.entries)
    /\ cpus' = IF e.type = "MPPROC" /\ Len(cpus) < NCPU THEN Append(cpus, e.apicid) ELSE cpus
    /\ entry' = IF e.type = "other" THEN entry ELSE entry + 1
    /\ UNCHANGED <<machine, pc, k, word, cpu, kmem, next, runnable, panic>>

(* mycpu: a processor must find itself in cpus.                            *)
mycpu(c) == c \in Range(cpus)

(* The end of the table; seginit is the first to ask for mycpu.            *)
MpDone ==
    /\ pc = "mpinit" /\ mpconfig(machine) /\ entry > Len(machine.entries)
    /\ IF mycpu(bsp)
       THEN /\ pc' = "startothers"
            /\ UNCHANGED <<machine, entry, cpus, k, word, cpu, kmem, next, runnable, panic>>
       ELSE Panics("unknown apicid")

----------------------------------------------------------------------------
(* kalloc.c: the steps of kalloc and kfree.  use_lock is read again before *)
(* the release.                                                            *)
Calls(c, fn, r) == [cpu EXCEPT ![c].call = [fn |-> fn, step |-> "acquire", r |-> r]]

KmemAcquire(c) ==
    /\ cpu[c].call.step = "acquire" /\ (kmem.use_lock => kmem.lock = -1)
    /\ kmem' = IF kmem.use_lock THEN [kmem EXCEPT !.lock = c] ELSE kmem
    /\ cpu' = [cpu EXCEPT ![c].call.step = "read"]
    /\ UNCHANGED next

KmemRead(c) ==
    /\ cpu[c].call.step = "read"
    /\ \/ /\ cpu[c].call.fn = "kalloc"
          /\ cpu' = [cpu EXCEPT ![c].call.r = kmem.freelist, ![c].call.step = "write"]
          /\ UNCHANGED next
       \/ /\ cpu[c].call.fn = "kfree"
          /\ next' = [next EXCEPT ![cpu[c].call.r] = kmem.freelist]
          /\ cpu' = [cpu EXCEPT ![c].call.step = "write"]
    /\ UNCHANGED kmem

KmemWrite(c) ==
    LET r == cpu[c].call.r IN
    /\ cpu[c].call.step = "write"
    /\ kmem' = CASE cpu[c].call.fn = "kfree" -> [kmem EXCEPT !.freelist = r]
                 [] r # NoPage -> [kmem EXCEPT !.freelist = next[r]]
                 [] OTHER -> kmem
    /\ cpu' = [cpu EXCEPT ![c].call.step = "release"]
    /\ UNCHANGED next

KmemRelease(c) ==
    /\ cpu[c].call.step = "release"
    /\ kmem' = IF kmem.use_lock THEN [kmem EXCEPT !.lock = -1] ELSE kmem
    /\ panic' = IF kmem.use_lock /\ kmem.lock # c THEN "release" ELSE panic
    /\ cpu' = [cpu EXCEPT ![c].call.step = "done"]
    /\ UNCHANGED next

Kmem(c) ==
    /\ \/ (KmemAcquire(c) \/ KmemRead(c) \/ KmemWrite(c)) /\ UNCHANGED panic
       \/ KmemRelease(c)
    /\ UNCHANGED <<machine, pc, entry, cpus, k, word, runnable>>

Returned(c, fn) == cpu[c].call.fn = fn /\ cpu[c].call.step = "done"
Idle(c) == cpu[c].call = NoCall

----------------------------------------------------------------------------
(* main() of the first processor.                                          *)

(* startothers: a stack for the next processor, ...                        *)
SkipSelf ==
    /\ pc = "startothers" /\ k <= Len(cpus) /\ cpus[k] = bsp
    /\ k' = k + 1
    /\ UNCHANGED <<machine, pc, entry, cpus, word, cpu, kmem, next, runnable, panic>>

AllocStack ==
    /\ pc = "startothers" /\ k <= Len(cpus) /\ cpus[k] # bsp /\ Idle(bsp)
    /\ cpu' = Calls(bsp, "kalloc", NoPage)
    /\ UNCHANGED <<machine, pc, entry, cpus, k, word, kmem, next, runnable, panic>>

(* ... its address where entryother.S will look for it, lapicstartap: an   *)
(* INIT and two STARTUP messages, ...                                      *)
lapicstartap == <<"INIT", "STARTUP", "STARTUP">>
StartAp ==
    /\ pc = "startothers" /\ Returned(bsp, "kalloc")
    /\ word' = cpu[bsp].call.r
    /\ cpu' = [cpu EXCEPT ![bsp].call = NoCall, ![cpus[k]].ipis = lapicstartap]
    /\ pc' = "started"
    /\ UNCHANGED <<machine, entry, cpus, k, kmem, next, runnable, panic>>

(* ... and it waits until the processor says it is up.                     *)
Up == cpu[cpus[k]].started
AwaitAp ==
    /\ pc = "started" /\ Up
    /\ pc' = "startothers" /\ k' = k + 1
    /\ UNCHANGED <<machine, entry, cpus, word, cpu, kmem, next, runnable, panic>>

AllStarted ==
    /\ pc = "startothers" /\ k > Len(cpus)
    /\ pc' = "kinit2" /\ k' = Low + 1
    /\ UNCHANGED <<machine, entry, cpus, word, cpu, kmem, next, runnable, panic>>

(* kinit2: freerange without the lock, then use_lock.                      *)
FreeHigh ==
    /\ pc = "kinit2" /\ k <= Low + High
    /\ \/ Idle(bsp) /\ cpu' = Calls(bsp, "kfree", k) /\ UNCHANGED k
       \/ Returned(bsp, "kfree") /\ cpu' = [cpu EXCEPT ![bsp].call = NoCall] /\ k' = k + 1
    /\ UNCHANGED <<machine, pc, entry, cpus, word, kmem, next, runnable, panic>>

UseLock ==
    /\ pc = "kinit2" /\ k > Low + High
    /\ kmem' = [kmem EXCEPT !.use_lock = TRUE] /\ pc' = "userinit"
    /\ UNCHANGED <<machine, entry, cpus, k, word, cpu, next, runnable, panic>>

(* userinit: a page for the first process (one stands for all), which is   *)
(* then for every processor to run.                                        *)
UserAlloc ==
    /\ pc = "userinit" /\ Idle(bsp)
    /\ cpu' = Calls(bsp, "kalloc", NoPage)
    /\ UNCHANGED <<machine, pc, entry, cpus, k, word, kmem, next, runnable, panic>>

UserReady ==
    /\ pc = "userinit" /\ Returned(bsp, "kalloc")
    /\ cpu' = [cpu EXCEPT ![bsp].call = NoCall, ![bsp].has = {cpu[bsp].call.r}]
    /\ runnable' = TRUE /\ pc' = "mpmain"
    /\ UNCHANGED <<machine, entry, cpus, k, word, kmem, next, panic>>

MpMain ==
    /\ pc = "mpmain"
    /\ cpu' = [cpu EXCEPT ![bsp].st = "scheduler", ![bsp].started = TRUE]
    /\ pc' = "scheduler"
    /\ UNCHANGED <<machine, entry, cpus, k, word, kmem, next, runnable, panic>>

----------------------------------------------------------------------------
(* The other processors.  A STARTUP is heard only after an INIT.           *)
Ipi(c) ==
    LET ipi == Head(cpu[c].ipis) IN
    /\ cpu[c].ipis # <<>>
    /\ cpu' = [cpu EXCEPT ![c].ipis = Tail(@),
                          ![c].st = CASE ipi = "INIT" -> "reset"
                                      [] @ = "reset" -> "entry"
                                      [] OTHER -> @]
    /\ UNCHANGED <<machine, pc, entry, cpus, k, word, kmem, next, runnable, panic>>

(* entryother.S takes its stack from the word at code-4.                   *)
TakeStack(c) ==
    /\ cpu[c].st = "entry"
    /\ cpu' = [cpu EXCEPT ![c].st = "mpenter", ![c].stack = word]
    /\ UNCHANGED <<machine, pc, entry, cpus, k, word, kmem, next, runnable, panic>>

mpenter(c) ==
    /\ cpu[c].st = "mpenter"
    /\ IF mycpu(c)
       THEN /\ cpu' = [cpu EXCEPT ![c].st = "scheduler", ![c].started = TRUE]
            /\ UNCHANGED <<machine, pc, entry, cpus, k, word, kmem, next, runnable, panic>>
       ELSE Panics("unknown apicid")

(* A process on c allocates a page or frees one.                           *)
Work(c) ==
    /\ cpu[c].st = "scheduler" /\ runnable
    /\ \/ Idle(c) /\ cpu' = Calls(c, "kalloc", NoPage)
       \/ /\ Returned(c, "kalloc")
          /\ cpu' = [cpu EXCEPT ![c].call = NoCall,
                                ![c].has = @ \cup ({cpu[c].call.r} \ {NoPage})]
       \/ \E x \in cpu[c].has :
            /\ Idle(c)
            /\ cpu' = [Calls(c, "kfree", x) EXCEPT ![c].has = @ \ {x}]
       \/ Returned(c, "kfree") /\ cpu' = [cpu EXCEPT ![c].call = NoCall]
    /\ UNCHANGED <<machine, pc, entry, cpus, k, word, kmem, next, runnable, panic>>

Next ==
    /\ panic = "none"
    /\ \/ NoTable \/ MpEntry \/ MpDone \/ SkipSelf \/ AllocStack \/ StartAp \/ AwaitAp
       \/ AllStarted \/ FreeHigh \/ UseLock \/ UserAlloc \/ UserReady \/ MpMain
       \/ \E c \in Ids(machine) : Kmem(c) \/ Ipi(c) \/ TakeStack(c) \/ mpenter(c) \/ Work(c)
Spec == Init /\ [][Next]_bvars

----------------------------------------------------------------------------
(* Properties.                                                             *)

FreeList ==
    LET n == Len(SetToSeq(Pages))
        walk[i \in 0..(n + 1)] == IF i = 0 THEN kmem.freelist
                                  ELSE IF walk[i - 1] = NoPage THEN NoPage
                                  ELSE next[walk[i - 1]]
    IN [i \in 1..(n + 1) |-> walk[i - 1]]

(* Pages in use: as stacks, the next stack in the word, by processes, and  *)
(* those a call is about to return or to free.                             *)
InUse(c) ==
    ({cpu[c].stack} \cup cpu[c].has \cup
       (IF cpu[c].call.step \in {"release", "done"} /\ cpu[c].call.fn = "kfree" THEN {}
        ELSE {cpu[c].call.r})) \ {NoPage}
Calm == \A c \in Ids(machine) : cpu[c].call.step \notin {"read", "write"}

(* The stack of a processor that runs is nobody else's, and no page is     *)
(* both free and in use or in use twice, however the processors' calls     *)
(* interleave and although kinit2 takes no lock.                           *)
PagesApart ==
    /\ Calm => \A c \in Ids(machine) : InUse(c) \cap Range(FreeList) = {}
    /\ Calm => Last(FreeList) = NoPage
    /\ \A c, d \in Ids(machine) : c # d =>
         /\ cpu[c].stack # NoPage => cpu[c].stack # cpu[d].stack
         /\ Calm => InUse(c) \cap InUse(d) = {}

(* After startothers all processors of cpus schedule, and a machine with a *)
(* good table that has the first processor among its first NCPU ones does  *)
(* not panic.                                                              *)
ComesUp ==
    /\ pc \notin {"mpinit", "startothers", "started"} =>
         \A c \in Range(cpus) \ {bsp} : cpu[c].st = "scheduler"
    /\ mpconfig(machine) /\ panic # "none" =>
         panic = "unknown apicid" /\ Len(cpus) = NCPU /\ ~mycpu(bsp)
=============================================================================
